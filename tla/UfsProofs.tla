----------------------------- MODULE UfsProofs -----------------------------
(***************************************************************************)
(* Proofs about the drivers of module Ufs, for every number of programs,   *)
(* every size of the FAT and of directories, all names and contents.       *)
(*                                                                         *)
(* While operations overlap the disk is seldom settled: chains are half    *)
(* built or half freed, directories have no entry yet, entries lead to     *)
(* clusters that are free.  The proofs follow, beside the disk f, b, the   *)
(* settled volume g, w that would be left if every operation half way were *)
(* undone or, for a removal, done; and for each driver d the clusters C[d] *)
(* that it has taken or cut off.  A step keeps the two in line, as long as *)
(* nobody writes on the ground of a sector that has changed since.         *)
(***************************************************************************)
EXTENDS Ufs, FatProofs

(* What the disk would be without what is half made or half removed: a     *)
(* table g and blocks w that are sound, have no cluster that no entry leads *)
(* to, and every directory where it belongs.  Calls and driver steps are   *)
(* followed on this settled volume.                                        *)
Settled(g, w) == Sound(g, w) /\ Covered(g, w) /\ Tree(g, w)

(* The disk f, b next to it: entries in Z are half removed, and clusters   *)
(* that are free on the settled volume lead nowhere.                       *)
Relates(f, b, g, w, Z) ==
    /\ \A c \in Cluster : g[c] # Free => f[c] = g[c] /\ (w[c].is # "dir" => b[c] = w[c])
    /\ \A x \in LiveDirsOf(g, w) :
          /\ b[x].is = "dir" /\ b[x].up = w[x].up
          /\ \A i \in Slots : w[x].ent[i] = IF <<x, i>> \in Z THEN Deleted ELSE b[x].ent[i]
    /\ \A c \in Cluster : g[c] = Free /\ f[c] # Free /\ b[c].is = "dir" =>
          \A i \in Slots : ~Live(b[c].ent[i])

LEMMA RelatesFacts ==
    ASSUME NEW f, NEW b, NEW g, NEW w, NEW Z, Sound(g, w), Relates(f, b, g, w, Z)
    PROVE  /\ LiveDirsOf(g, w) \subseteq LiveDirsOf(f, b)
           /\ PlacesOf(f, b) \ Z = PlacesOf(g, w)
           /\ \A p \in PlacesOf(g, w) :
                /\ p \notin Z /\ AtOf(b, p) = AtOf(w, p) /\ Owns(f, b, p) = Owns(g, w, p)
                /\ LeadsTo(f, b, p[1], AtOf(b, p))
<1>1. /\ \A c \in Cluster : g[c] # Free => f[c] = g[c] /\ (w[c].is # "dir" => b[c] = w[c])
      /\ \A x \in LiveDirsOf(g, w) :
            /\ b[x].is = "dir" /\ b[x].up = w[x].up
            /\ \A i \in Slots : w[x].ent[i] = IF <<x, i>> \in Z THEN Deleted ELSE b[x].ent[i]
      /\ \A c \in Cluster : g[c] = Free /\ f[c] # Free /\ b[c].is = "dir" =>
            \A i \in Slots : ~Live(b[c].ent[i])
  BY DEF Relates
<1>2. LiveDirsOf(g, w) \subseteq LiveDirsOf(f, b)
  BY <1>1 DEF LiveDirsOf
<1>3. ASSUME NEW p \in PlacesOf(f, b), p \notin Z PROVE p \in PlacesOf(g, w) /\ AtOf(b, p) = AtOf(w, p)
  <2>1. PICK x \in LiveDirsOf(f, b), i \in Slots : p = <<x, i>>
    BY DEF PlacesOf
  <2>2. Live(b[x].ent[i])
    BY <2>1 DEF PlacesOf
  <2>3. CASE x \in LiveDirsOf(g, w)
    <3>1. w[x].ent[i] = b[x].ent[i]
      BY <1>1, <1>3, <2>1, <2>3
    <3> QED
      BY <2>1, <2>2, <2>3, <3>1 DEF PlacesOf, AtOf
  <2>4. CASE x \notin LiveDirsOf(g, w)
    <3>1. x \in Cluster /\ f[x] # Free /\ b[x].is = "dir"
      BY <2>4 DEF LiveDirsOf
    <3>2. g[x] # Free
      BY <1>1, <2>2, <3>1
    <3>3. w[x].is # "dir"
      BY <2>4, <3>1, <3>2 DEF LiveDirsOf
    <3> QED
      BY <1>1, <3>1, <3>2, <3>3
  <2> QED
    BY <2>3, <2>4
<1>4. ASSUME NEW p \in PlacesOf(g, w)
      PROVE  p \notin Z /\ p \in PlacesOf(f, b) /\ AtOf(b, p) = AtOf(w, p)
  <2>1. PICK x \in LiveDirsOf(g, w), i \in Slots : p = <<x, i>>
    BY DEF PlacesOf
  <2>2. Live(w[x].ent[i])
    BY <2>1 DEF PlacesOf
  <2>3. p \notin Z /\ w[x].ent[i] = b[x].ent[i]
    BY <1>1, <2>1, <2>2, NewEntries
  <2> QED
    BY <1>2, <2>1, <2>2, <2>3 DEF PlacesOf, AtOf
<1>5. ASSUME NEW p \in PlacesOf(g, w)
      PROVE  Owns(f, b, p) = Owns(g, w, p) /\ LeadsTo(f, b, p[1], AtOf(b, p))
  <2>1. AtOf(b, p) = AtOf(w, p)
    BY <1>4
  <2>2. ASSUME NEW x \in Owns(g, w, p)
        PROVE  /\ f[x] = g[x] /\ b[x].is = w[x].is /\ b[x].up = w[x].up
               /\ w[x].is # "dir" => b[x] = w[x]
    <3>1. x \in Cluster /\ g[x] # Free
      BY PlaceFacts
    <3>2. CASE w[x].is = "dir"
      <4>1. x \in LiveDirsOf(g, w)
        BY <3>1, <3>2 DEF LiveDirsOf
      <4> QED
        BY <1>1, <3>1, <3>2, <4>1
    <3>3. CASE w[x].is # "dir"
      BY <1>1, <3>1, <3>3
    <3> QED
      BY <3>2, <3>3
  <2> QED
    BY <2>1, <2>2, PlaceKept
<1>6. PlacesOf(f, b) \ Z = PlacesOf(g, w)
  BY <1>3, <1>4
<1> QED
  BY <1>2, <1>4, <1>5, <1>6

(* Something changes only where the settled volume has nothing.            *)
LEMMA RelatesAside ==
    ASSUME NEW f, NEW b, NEW g, NEW w, NEW Z, Sound(g, w), Relates(f, b, g, w, Z),
           NEW f2, NEW b2,
           \A c \in Cluster : g[c] # Free => f2[c] = f[c] /\ b2[c] = b[c],
           b2[Root] = b[Root],
           \A c \in Cluster : g[c] = Free /\ f2[c] # Free /\ b2[c].is = "dir" =>
              \A i \in Slots : ~Live(b2[c].ent[i])
    PROVE  Relates(f2, b2, g, w, Z)
<1>1. \A x \in LiveDirsOf(g, w) : b2[x] = b[x]
  BY DEF LiveDirsOf
<1>2. \A c \in Cluster : g[c] # Free => f2[c] = g[c] /\ (w[c].is # "dir" => b2[c] = w[c])
  BY DEF Relates
<1>3. \A x \in LiveDirsOf(g, w) :
          /\ b2[x].is = "dir" /\ b2[x].up = w[x].up
          /\ \A i \in Slots : w[x].ent[i] = IF <<x, i>> \in Z THEN Deleted ELSE b2[x].ent[i]
  BY <1>1 DEF Relates
<1> QED
  BY <1>2, <1>3 DEF Relates

(* The settled volume without entry p and its chain                        *)
EntryGone(g, w, p, g2, w2) ==
    /\ g2 = Freed(g, AtOf(w, p).cl)
    /\ w2 \in [Dirs -> Block] /\ w2[p[1]] = Edited(w[p[1]], p[2], Deleted)
    /\ \A x \in Dirs \ {p[1]} : w2[x] = w[x]

LEMMA SettledErase ==
    ASSUME NEW g, NEW w, Settled(g, w), NEW p \in PlacesOf(g, w),
           NEW g2, NEW w2, EntryGone(g, w, p, g2, w2)
    PROVE  /\ g2 \in Tables /\ Sound(g2, w2)
           /\ \A x \in Cluster : g2[x] = IF x \in Owns(g, w, p) THEN Free ELSE g[x]
           /\ LiveDirsOf(g2, w2) = LiveDirsOf(g, w) \ Owns(g, w, p) /\ p[1] \in LiveDirsOf(g2, w2)
           /\ w2[p[1]].is = "dir" /\ w2[p[1]].up = w[p[1]].up
           /\ \A i \in Slots : w2[p[1]].ent[i] = IF i = p[2] THEN Deleted ELSE w[p[1]].ent[i]
           /\ (AtOf(w, p).kind = "dir" => \A i \in Slots : ~Live(w[AtOf(w, p).cl].ent[i]))
                 => Settled(g2, w2)
<1> USE DEF EntryGone
<1>1. /\ Sound(g, w) /\ Covered(g, w) /\ Tree(g, w)
      /\ g \in Tables /\ w \in [Dirs -> Block]
  BY DEF Settled, Sound
<1>2. PICK d, i : d = p[1] /\ i = p[2]
  OBVIOUS
<1>3. /\ d \in Dirs /\ i \in Slots /\ w[d].is = "dir" /\ d \in LiveDirsOf(g, w)
  BY <1>1, <1>2, PlaceFacts
<1>4. p[1] \notin Owns(g, w, p)
  BY <1>1, NotWithin
<1>5. g2 \in Tables /\ \A x \in Cluster : g2[x] = IF x \in Owns(g, w, p) THEN Free ELSE g[x]
  BY <1>1, FreedIs DEF Owns
<1>6. /\ w2[d].is = "dir" /\ w2[d].up = w[d].up /\ w[d].ent \in [Slots -> Entry]
      /\ w2[d].ent = [w[d].ent EXCEPT ![i] = Deleted]
  BY <1>1, <1>2, <1>3, BlockFacts, NewEntries
<1>7. \A x \in Dirs \ {p[1]} : x = Root \/ g2[x] # Free => w2[x] = w[x]
  OBVIOUS
<1>8. /\ LiveDirsOf(g2, w2) = LiveDirsOf(g, w) \ Owns(g, w, p)
      /\ Sound(g2, w2)
      /\ (AtOf(w, p).kind = "dir" => \A j \in Slots : ~Live(w[AtOf(w, p).cl].ent[j]))
            => (Covered(g, w) => Covered(g2, w2)) /\ (Tree(g, w) => Tree(g2, w2))
  BY <1>1, <1>4, <1>7, EraseKeeps
<1>9. \A j \in Slots : w2[d].ent[j] = IF j = i THEN Deleted ELSE w[d].ent[j]
  BY <1>6
<1> QED
  BY <1>1, <1>2, <1>3, <1>4, <1>5, <1>6, <1>8, <1>9 DEF Settled

(* An entry p with clusters O goes, or begins to go: its chain is no       *)
(* longer anybody's.                                                       *)
ChainGone(f, b, p, O, f2, b2) ==
    /\ \A c \in Cluster \ O : f2[c] = f[c]
    /\ \A x \in Dirs \ {p[1]} : x = Root \/ f2[x] # Free => b2[x] = b[x]
    /\ \A c \in O : f2[c] = Free \/ b2[c].is # "dir"
    /\ b2[p[1]].is = "dir" /\ b2[p[1]].up = b[p[1]].up
    /\ \A i \in Slots \ {p[2]} : b2[p[1]].ent[i] = b[p[1]].ent[i]

LEMMA RelatesErase ==
    ASSUME NEW f, NEW b, NEW g, NEW w, NEW Z, Settled(g, w), Relates(f, b, g, w, Z),
           NEW p \in PlacesOf(g, w), NEW g2, NEW w2, EntryGone(g, w, p, g2, w2),
           NEW f2, NEW b2, ChainGone(f, b, p, Owns(g, w, p), f2, b2),
           NEW Y, p \in Y \/ b2[p[1]].ent[p[2]] = Deleted, Y = Z \/ Y = Z \cup {p}
    PROVE  Relates(f2, b2, g2, w2, Y)
<1> USE DEF EntryGone, ChainGone
<1> DEFINE d == p[1]
           O == Owns(g, w, p)
<1>1. /\ \A c \in Cluster : g[c] # Free => f[c] = g[c] /\ (w[c].is # "dir" => b[c] = w[c])
      /\ \A x \in LiveDirsOf(g, w) :
            /\ b[x].is = "dir" /\ b[x].up = w[x].up
            /\ \A i \in Slots : w[x].ent[i] = IF <<x, i>> \in Z THEN Deleted ELSE b[x].ent[i]
      /\ \A c \in Cluster : g[c] = Free /\ f[c] # Free /\ b[c].is = "dir" =>
            \A i \in Slots : ~Live(b[c].ent[i])
  BY DEF Relates
<1>2. /\ g2 \in Tables
      /\ \A x \in Cluster : g2[x] = IF x \in O THEN Free ELSE g[x]
      /\ LiveDirsOf(g2, w2) = LiveDirsOf(g, w) \ O /\ d \in LiveDirsOf(g2, w2)
      /\ \A x \in Dirs \ {d} : w2[x] = w[x]
      /\ w2[d].is = "dir" /\ w2[d].up = w[d].up
      /\ \A i \in Slots : w2[d].ent[i] = IF i = p[2] THEN Deleted ELSE w[d].ent[i]
  <2>1. \A x \in Dirs \ {p[1]} : w2[x] = w[x]
    OBVIOUS
  <2> QED
    BY <2>1, SettledErase
<1>3. p = <<d, p[2]>> /\ d \in LiveDirsOf(g, w) /\ d \in Dirs /\ w[d].is = "dir"
  BY PlaceFacts DEF Settled
<1> HIDE DEF O, d
<1>4. ASSUME NEW c \in Cluster, g2[c] # Free
      PROVE  f2[c] = g2[c] /\ (w2[c].is # "dir" => b2[c] = w2[c])
  <2>1. c \notin O /\ g2[c] = g[c] /\ f2[c] = f[c] /\ f[c] = g[c]
    BY <1>1, <1>2, <1>4 DEF O
  <2>2. ASSUME w2[c].is # "dir" PROVE b2[c] = w2[c]
    <3>1. c # d /\ c \in Dirs /\ f2[c] # Free
      BY <1>2, <1>4, <2>1, <2>2 DEF Dirs
    <3>2. w2[c] = w[c] /\ b2[c] = b[c]
      BY <1>2, <3>1 DEF d
    <3> QED
      BY <1>1, <1>4, <2>1, <2>2, <3>2
  <2> QED
    BY <2>1, <2>2
<1>5. ASSUME NEW x \in LiveDirsOf(g2, w2)
      PROVE  /\ b2[x].is = "dir" /\ b2[x].up = w2[x].up
             /\ \A i \in Slots : w2[x].ent[i] = IF <<x, i>> \in Y THEN Deleted ELSE b2[x].ent[i]
  <2>1. x \in LiveDirsOf(g, w) /\ x \in Dirs /\ (x = Root \/ (x \in Cluster /\ g2[x] # Free))
    BY <1>2 DEF LiveDirsOf, Dirs
  <2>2. CASE x = d
    <3>1. b2[x].is = "dir" /\ b2[x].up = w2[x].up
      BY <1>1, <1>2, <1>3, <2>2 DEF d
    <3>2. ASSUME NEW i \in Slots
          PROVE  w2[x].ent[i] = IF <<x, i>> \in Y THEN Deleted ELSE b2[x].ent[i]
      <4>1. CASE i = p[2]
        BY <1>2, <1>3, <2>2, <4>1 DEF d
      <4>2. CASE i # p[2]
        <5>1. <<x, i>> # p /\ b2[x].ent[i] = b[x].ent[i]
          BY <1>3, <2>2, <4>2 DEF d
        <5>2. <<x, i>> \in Y <=> <<x, i>> \in Z
          BY <5>1
        <5> QED
          BY <1>1, <1>2, <1>3, <2>2, <4>2, <5>1, <5>2
      <4> QED
        BY <4>1, <4>2
    <3> QED
      BY <3>1, <3>2
  <2>3. CASE x # d
    <3>1. w2[x] = w[x]
      BY <1>2, <2>1, <2>3
    <3>2. x = Root \/ f2[x] # Free
      BY <1>4, <2>1
    <3>3. b2[x] = b[x]
      BY <2>1, <2>3, <3>2 DEF d
    <3>4. \A i \in Slots : <<x, i>> # p
      BY <1>3, <2>3
    <3>5. \A i \in Slots : <<x, i>> \in Y <=> <<x, i>> \in Z
      BY <3>4
    <3> QED
      BY <1>1, <2>1, <3>1, <3>3, <3>5
  <2> QED
    BY <2>2, <2>3
<1>6. ASSUME NEW c \in Cluster, g2[c] = Free, f2[c] # Free, b2[c].is = "dir", NEW i \in Slots
      PROVE  ~Live(b2[c].ent[i])
  <2>1. c \notin O
    BY <1>6 DEF O
  <2>2. g[c] = Free /\ f[c] # Free /\ c \in Dirs
    BY <1>2, <1>6, <2>1 DEF O, Dirs
  <2>3. c # d
    BY <1>3, <2>2, FatBounds DEF LiveDirsOf
  <2>4. b2[c] = b[c]
    BY <1>6, <2>2, <2>3 DEF d
  <2> QED
    BY <1>1, <1>6, <2>2, <2>4
<1> QED
  BY <1>4, <1>5, <1>6 DEF Relates

(* A half removed entry is changed, or goes for good.                      *)
LEMMA RelatesDying ==
    ASSUME NEW f, NEW b, NEW g, NEW w, NEW Z, Sound(g, w), Relates(f, b, g, w, Z),
           NEW d \in LiveDirsOf(g, w), NEW i \in Slots, <<d, i>> \in Z, NEW b2, NEW Y,
           \A x \in Dirs \ {d} : x = Root \/ f[x] # Free => b2[x] = b[x],
           b2[d].is = "dir", b2[d].up = b[d].up,
           \A j \in Slots \ {i} : b2[d].ent[j] = b[d].ent[j],
           Y = Z \/ (Y = Z \ {<<d, i>>} /\ b2[d].ent[i] = Deleted)
    PROVE  Relates(f, b2, g, w, Y)
<1>1. /\ \A c \in Cluster : g[c] # Free => f[c] = g[c] /\ (w[c].is # "dir" => b[c] = w[c])
      /\ \A x \in LiveDirsOf(g, w) :
            /\ b[x].is = "dir" /\ b[x].up = w[x].up
            /\ \A j \in Slots : w[x].ent[j] = IF <<x, j>> \in Z THEN Deleted ELSE b[x].ent[j]
      /\ \A c \in Cluster : g[c] = Free /\ f[c] # Free /\ b[c].is = "dir" =>
            \A j \in Slots : ~Live(b[c].ent[j])
  BY DEF Relates
<1>2. /\ d = Root \/ (d \in Cluster /\ g[d] # Free)
      /\ w[d].is = "dir"
  BY DEF LiveDirsOf, Sound
<1>3. ASSUME NEW c \in Cluster, g[c] # Free
      PROVE  f[c] = g[c] /\ (w[c].is # "dir" => b2[c] = w[c])
  <2>1. f[c] = g[c] /\ c \in Dirs
    BY <1>1, <1>3 DEF Dirs
  <2>2. ASSUME w[c].is # "dir" PROVE b2[c] = w[c]
    <3>1. c # d
      BY <1>2, <2>2
    <3> QED
      BY <1>1, <1>3, <2>1, <2>2, <3>1
  <2> QED
    BY <2>1, <2>2
<1>4. ASSUME NEW x \in LiveDirsOf(g, w)
      PROVE  /\ b2[x].is = "dir" /\ b2[x].up = w[x].up
             /\ \A j \in Slots : w[x].ent[j] = IF <<x, j>> \in Y THEN Deleted ELSE b2[x].ent[j]
  <2>1. CASE x = d
    <3>1. b2[x].is = "dir" /\ b2[x].up = w[x].up
      BY <1>1, <2>1
    <3>2. ASSUME NEW j \in Slots
          PROVE  w[x].ent[j] = IF <<x, j>> \in Y THEN Deleted ELSE b2[x].ent[j]
      <4>1. CASE j = i
        BY <1>1, <2>1, <4>1
      <4>2. CASE j # i
        <5>1. <<x, j>> \in Y <=> <<x, j>> \in Z
          BY <2>1, <4>2
        <5> QED
          BY <1>1, <2>1, <4>2, <5>1
      <4> QED
        BY <4>1, <4>2
    <3> QED
      BY <3>1, <3>2
  <2>2. CASE x # d
    <3>1. x \in Dirs /\ (x = Root \/ f[x] # Free)
      BY <1>1 DEF LiveDirsOf, Dirs
    <3>2. b2[x] = b[x]
      BY <2>2, <3>1
    <3>3. \A j \in Slots : <<x, j>> \in Y <=> <<x, j>> \in Z
      BY <2>2
    <3> QED
      BY <1>1, <3>2, <3>3
  <2> QED
    BY <2>1, <2>2
<1>5. ASSUME NEW c \in Cluster, g[c] = Free, f[c] # Free, b2[c].is = "dir", NEW j \in Slots
      PROVE  ~Live(b2[c].ent[j])
  <2>1. c # d /\ c \in Dirs
    BY <1>2, <1>5, FatBounds DEF Dirs
  <2>2. b2[c] = b[c]
    BY <1>5, <2>1
  <2> QED
    BY <1>1, <1>5, <2>2
<1> QED
  BY <1>3, <1>4, <1>5 DEF Relates

(* A new entry with a chain that was nobody's                              *)
LEMMA SettledAdd ==
    ASSUME NEW g, NEW w, Sound(g, w),
           NEW d \in LiveDirsOf(g, w), NEW i \in Slots, ~Live(w[d].ent[i]),
           \A j \in Slots : j < i => w[d].ent[j].kind # "end",
           NEW e \in Entry, Live(e), NEW g2 \in Tables,
           NEW N, N = Chain(g2, e.cl), \A x \in N : g[x] = Free,
           \A x \in Cluster \ N : g2[x] = g[x],
           NEW w2 \in [Dirs -> Block], w2[d] = Edited(w[d], i, e),
           \A x \in Dirs \ {d} : x \notin N => w2[x] = w[x],
           LeadsTo(g2, w2, d, e),
           e.kind = "dir" => \A j \in Slots : w2[e.cl].ent[j] = End
    PROVE  /\ Sound(g2, w2) /\ (Settled(g, w) => Settled(g2, w2))
           /\ LiveDirsOf(g2, w2) = LiveDirsOf(g, w) \cup (IF e.kind = "dir" THEN {e.cl} ELSE {})
           /\ PlacesOf(g2, w2) = PlacesOf(g, w) \cup {<<d, i>>}
<1>2. N \subseteq Cluster
  BY ProperFacts DEF LeadsTo
<1>3. \A x \in Dirs \ {d} : x = Root \/ (x \notin N /\ g2[x] # Free) => w2[x] = w[x]
  BY <1>2, FatBounds
<1>4. /\ LiveDirsOf(g2, w2) = LiveDirsOf(g, w) \cup (IF e.kind = "dir" THEN {e.cl} ELSE {})
      /\ PlacesOf(g2, w2) = PlacesOf(g, w) \cup {<<d, i>>}
      /\ Sound(g2, w2)
      /\ Covered(g, w) => Covered(g2, w2)
      /\ Tree(g, w) => Tree(g2, w2)
  BY <1>3, AddKeeps
<1> QED
  BY <1>4 DEF Settled

(* An entry e comes to slot i of directory d of the settled volume, with   *)
(* clusters N,                                                             *)
SettledGrown(g, w, d, i, e, N, g2, w2) ==
    /\ N \subseteq Cluster /\ \A x \in N : g[x] = Free /\ g2[x] # Free
    /\ \A x \in Cluster \ N : g2[x] = g[x]
    /\ w2[d] = Edited(w[d], i, e) /\ \A x \in Dirs \ {d} : x \notin N => w2[x] = w[x]
    /\ LiveDirsOf(g2, w2) = LiveDirsOf(g, w) \cup (IF e.kind = "dir" THEN {e.cl} ELSE {})
    /\ e.kind = "dir" => e.cl \in N

(* and of the disk.                                                        *)
DiskGrown(f, b, d, i, e, N, f2, b2) ==
    /\ \A x \in Cluster \ N : f2[x] = f[x]
    /\ \A x \in Dirs \ {d} : x \notin N /\ (x = Root \/ f2[x] # Free) => b2[x] = b[x]
    /\ b2[d].is = "dir" /\ b2[d].up = b[d].up /\ b2[d].ent[i] = e
    /\ \A j \in Slots \ {i} : b2[d].ent[j] = b[d].ent[j]

Alike(N, f2, b2, g2, w2) == \A x \in N : f2[x] = g2[x] /\ b2[x] = w2[x]
Outside(e, Z, N) == e.kind = "dir" => \A x \in N : \A j \in Slots : <<x, j>> \notin Z

LEMMA RelatesAdd ==
    ASSUME NEW f, NEW b, NEW g, NEW w, NEW Z, Sound(g, w), Relates(f, b, g, w, Z),
           NEW d \in LiveDirsOf(g, w), NEW i \in Slots, <<d, i>> \notin Z, NEW e \in Entry,
           NEW N, Outside(e, Z, N), NEW g2, NEW w2, SettledGrown(g, w, d, i, e, N, g2, w2),
           NEW f2, NEW b2, DiskGrown(f, b, d, i, e, N, f2, b2), Alike(N, f2, b2, g2, w2)
    PROVE  Relates(f2, b2, g2, w2, Z)
<1> USE DEF SettledGrown, DiskGrown, Alike, Outside
<1>1. /\ \A c \in Cluster : g[c] # Free => f[c] = g[c] /\ (w[c].is # "dir" => b[c] = w[c])
      /\ \A x \in LiveDirsOf(g, w) :
            /\ b[x].is = "dir" /\ b[x].up = w[x].up
            /\ \A j \in Slots : w[x].ent[j] = IF <<x, j>> \in Z THEN Deleted ELSE b[x].ent[j]
      /\ \A c \in Cluster : g[c] = Free /\ f[c] # Free /\ b[c].is = "dir" =>
            \A j \in Slots : ~Live(b[c].ent[j])
  BY DEF Relates
<1>2. /\ d = Root \/ (d \in Cluster /\ g[d] # Free)
      /\ d \in Dirs /\ d \notin N /\ w[d].is = "dir" /\ w[d] \in Block
  BY FatBounds DEF LiveDirsOf, Dirs, Sound
<1>3. /\ w2[d].is = "dir" /\ w2[d].up = w[d].up
      /\ \A j \in Slots : w2[d].ent[j] = IF j = i THEN e ELSE w[d].ent[j]
  <2>1. /\ w2[d].is = "dir" /\ w2[d].up = w[d].up /\ w[d].ent \in [Slots -> Entry]
        /\ w2[d].ent = [w[d].ent EXCEPT ![i] = e]
    BY <1>2, BlockFacts
  <2> QED
    BY <2>1
<1>4. ASSUME NEW c \in Cluster, g2[c] # Free
      PROVE  f2[c] = g2[c] /\ (w2[c].is # "dir" => b2[c] = w2[c])
  <2>1. CASE c \in N
    BY <2>1
  <2>2. CASE c \notin N
    <3>1. g2[c] = g[c] /\ f2[c] = f[c] /\ f[c] = g[c] /\ c \in Dirs
      BY <1>1, <1>4, <2>2 DEF Dirs
    <3>2. ASSUME w2[c].is # "dir" PROVE b2[c] = w2[c]
      <4>1. c # d
        BY <1>3, <3>2
      <4>2. w2[c] = w[c] /\ b2[c] = b[c]
        BY <1>4, <2>2, <3>1, <4>1
      <4> QED
        BY <1>1, <1>4, <3>1, <3>2, <4>2
    <3> QED
      BY <3>1, <3>2
  <2> QED
    BY <2>1, <2>2
<1>5. ASSUME NEW x \in LiveDirsOf(g2, w2)
      PROVE  /\ b2[x].is = "dir" /\ b2[x].up = w2[x].up
             /\ \A j \in Slots : w2[x].ent[j] = IF <<x, j>> \in Z THEN Deleted ELSE b2[x].ent[j]
  <2>1. w2[x].is = "dir" \/ x = Root
    BY DEF LiveDirsOf
  <2>2. CASE x \in N
    <3>1. x \notin LiveDirsOf(g, w)
      BY <2>2, FatBounds DEF LiveDirsOf
    <3>2. e.kind = "dir" /\ x = e.cl
      BY <3>1
    <3>3. b2[x] = w2[x] /\ w2[x].is = "dir"
      BY <2>1, <2>2, FatBounds
    <3> QED
      BY <3>2, <3>3
  <2>3. CASE x \notin N
    <3>1. x \in LiveDirsOf(g, w) /\ x \in Dirs /\ (x = Root \/ (x \in Cluster /\ g[x] # Free))
      BY <2>3 DEF LiveDirsOf, Dirs
    <3>2. CASE x = d
      <4>1. \A j \in Slots : w2[x].ent[j] = IF <<x, j>> \in Z THEN Deleted ELSE b2[x].ent[j]
        BY <1>1, <1>3, <3>1, <3>2
      <4> QED
        BY <1>1, <1>3, <3>1, <3>2, <4>1
    <3>3. CASE x # d
      <4>1. x = Root \/ f2[x] # Free
        BY <1>1, <2>3, <3>1
      <4>2. w2[x] = w[x] /\ b2[x] = b[x]
        BY <2>3, <3>1, <3>3, <4>1
      <4> QED
        BY <1>1, <3>1, <4>2
    <3> QED
      BY <3>2, <3>3
  <2> QED
    BY <2>2, <2>3
<1>6. ASSUME NEW c \in Cluster, g2[c] = Free, f2[c] # Free, b2[c].is = "dir", NEW j \in Slots
      PROVE  ~Live(b2[c].ent[j])
  <2>1. c \notin N
    BY <1>6
  <2>2. c # d /\ c \in Dirs /\ g[c] = Free /\ f[c] # Free
    BY <1>2, <1>6, <2>1, FatBounds DEF Dirs
  <2>3. b2[c] = b[c]
    BY <1>6, <2>1, <2>2
  <2> QED
    BY <1>1, <1>6, <2>2, <2>3
<1> QED
  BY <1>4, <1>5, <1>6 DEF Relates

(* An entry gets another name.                                             *)
LEMMA RelatesRename ==
    ASSUME NEW f, NEW b, NEW g, NEW w, NEW Z, Settled(g, w), Relates(f, b, g, w, Z),
           NEW p \in PlacesOf(g, w), NEW nm \in Short,
           NEW w2 \in [Dirs -> Block],
           w2[p[1]] = Edited(w[p[1]], p[2], Renamed(AtOf(w, p), nm)),
           \A x \in Dirs \ {p[1]} : w2[x] = w[x],
           NEW b2, \A x \in Dirs \ {p[1]} : x = Root \/ f[x] # Free => b2[x] = b[x],
           b2[p[1]].is = "dir", b2[p[1]].up = b[p[1]].up,
           b2[p[1]].ent[p[2]] = Renamed(AtOf(w, p), nm),
           \A j \in Slots \ {p[2]} : b2[p[1]].ent[j] = b[p[1]].ent[j]
    PROVE  /\ Settled(g, w2) /\ LiveDirsOf(g, w2) = LiveDirsOf(g, w)
           /\ Relates(f, b2, g, w2, Z)
<1>1. Sound(g, w) /\ Covered(g, w) /\ Tree(g, w)
  BY DEF Settled
<1>2. PICK d, i, e : d = p[1] /\ i = p[2] /\ e = Renamed(AtOf(w, p), nm)
  OBVIOUS
<1>3. /\ d \in Dirs /\ i \in Slots /\ w[d].is = "dir" /\ d \in LiveDirsOf(g, w) /\ p = <<d, i>>
      /\ AtOf(w, p) \in Entry /\ Live(AtOf(w, p))
  BY <1>1, <1>2, PlaceFacts
<1>4. e \in Entry /\ w[d] \in Block
  BY <1>1, <1>2, <1>3, EntryFacts DEF Sound
<1>5. /\ LiveDirsOf(g, w2) = LiveDirsOf(g, w) /\ Sound(g, w2)
      /\ Covered(g, w) => Covered(g, w2)
      /\ Tree(g, w) => Tree(g, w2)
  <2>1. \A x \in Dirs \ {p[1]} : x = Root \/ g[x] # Free => w2[x] = w[x]
    OBVIOUS
  <2> QED
    BY <1>1, <2>1, RenameKeeps
<1>6. /\ w2[d].is = "dir" /\ w2[d].up = w[d].up
      /\ \A j \in Slots : w2[d].ent[j] = IF j = i THEN e ELSE w[d].ent[j]
  <2>1. /\ w2[d].is = "dir" /\ w2[d].up = w[d].up /\ w[d].ent \in [Slots -> Entry]
        /\ w2[d].ent = [w[d].ent EXCEPT ![i] = e]
    BY <1>2, <1>3, <1>4, BlockFacts
  <2> QED
    BY <2>1
<1>7. p \notin Z
  BY <1>1, RelatesFacts
<1>8. /\ \A c \in Cluster : g[c] # Free => f[c] = g[c] /\ (w[c].is # "dir" => b[c] = w[c])
      /\ \A x \in LiveDirsOf(g, w) :
            /\ b[x].is = "dir" /\ b[x].up = w[x].up
            /\ \A j \in Slots : w[x].ent[j] = IF <<x, j>> \in Z THEN Deleted ELSE b[x].ent[j]
      /\ \A c \in Cluster : g[c] = Free /\ f[c] # Free /\ b[c].is = "dir" =>
            \A j \in Slots : ~Live(b[c].ent[j])
  BY DEF Relates
<1>9. /\ b2[d].is = "dir" /\ b2[d].up = b[d].up /\ b2[d].ent[i] = e
      /\ \A j \in Slots \ {i} : b2[d].ent[j] = b[d].ent[j]
      /\ \A x \in Dirs \ {d} : x = Root \/ f[x] # Free => b2[x] = b[x]
      /\ \A x \in Dirs \ {d} : w2[x] = w[x]
      /\ d = Root \/ (d \in Cluster /\ g[d] # Free)
  BY <1>2, <1>3 DEF LiveDirsOf
<1>10. ASSUME NEW c \in Cluster, g[c] # Free
       PROVE  f[c] = g[c] /\ (w2[c].is # "dir" => b2[c] = w2[c])
  <2>1. f[c] = g[c] /\ c \in Dirs
    BY <1>8, <1>10 DEF Dirs
  <2>2. ASSUME w2[c].is # "dir" PROVE b2[c] = w2[c]
    <3>1. c # d
      BY <1>6, <2>2
    <3> QED
      BY <1>8, <1>9, <1>10, <2>1, <2>2, <3>1
  <2> QED
    BY <2>1, <2>2
<1>11. ASSUME NEW x \in LiveDirsOf(g, w)
       PROVE  /\ b2[x].is = "dir" /\ b2[x].up = w2[x].up
              /\ \A j \in Slots : w2[x].ent[j] = IF <<x, j>> \in Z THEN Deleted ELSE b2[x].ent[j]
  <2>1. CASE x = d
    <3>1. \A j \in Slots : w2[x].ent[j] = IF <<x, j>> \in Z THEN Deleted ELSE b2[x].ent[j]
      BY <1>3, <1>6, <1>7, <1>8, <1>9, <2>1
    <3> QED
      BY <1>6, <1>8, <1>9, <2>1, <3>1
  <2>2. CASE x # d
    <3>1. x \in Dirs /\ (x = Root \/ f[x] # Free)
      BY <1>8 DEF LiveDirsOf, Dirs
    <3>2. b2[x] = b[x] /\ w2[x] = w[x]
      BY <1>9, <2>2, <3>1
    <3> QED
      BY <1>8, <3>2
  <2> QED
    BY <2>1, <2>2
<1>12. ASSUME NEW c \in Cluster, g[c] = Free, f[c] # Free, b2[c].is = "dir", NEW j \in Slots
       PROVE  ~Live(b2[c].ent[j])
  <2>1. c # d /\ c \in Dirs
    BY <1>9, <1>12, FatBounds DEF Dirs
  <2>2. b2[c] = b[c]
    BY <1>9, <1>12, <2>1
  <2> QED
    BY <1>8, <1>12, <2>2
<1>13. Relates(f, b2, g, w2, Z)
  BY <1>5, <1>10, <1>11, <1>12 DEF Relates
<1> QED
  BY <1>1, <1>5, <1>13 DEF Settled

-----------------------------------------------------------------------------
(* Chains while they are built and freed                                   *)

LEMMA ChainInjective ==
    ASSUME NEW f, NEW c, NEW n, NEW s, IsChain(f, c, n, s)
    PROVE  \A i, j \in 1..n : s[i] = s[j] => i = j
<1>1. /\ n \in Nat /\ s \in [1..n -> Cluster]
      /\ n > 0 => f[s[n]] = Eoc
      /\ \A i \in 1..n : i < n => f[s[i]] = s[i + 1]
  BY FatBounds DEF IsChain
<1> DEFINE Twice == {k \in Nat : \E i, j \in 1..n : i < j /\ s[i] = s[j] /\ k = n - j}
<1>2. ASSUME Twice # {} PROVE FALSE
  <2>1. PICK k : k = Least(Twice)
    OBVIOUS
  <2>2. Twice \subseteq Nat
    OBVIOUS
  <2>3. k \in Twice /\ \A l \in Twice : k <= l
    <3> HIDE DEF Twice
    <3> QED
      BY <1>2, <2>1, <2>2, LeastIs
  <2>4. PICK i, j \in 1..n : i < j /\ s[i] = s[j] /\ k = n - j
    BY <2>3
  <2>5. i < n /\ f[s[i]] = s[i + 1] /\ i + 1 \in 1..n
    BY <1>1, <2>4
  <2>6. CASE j = n
    <3>1. f[s[i]] = Eoc /\ s[i + 1] \in Cluster
      BY <1>1, <2>4, <2>5, <2>6
    <3> QED
      BY <2>5, <3>1, FatBounds
  <2>7. CASE j < n
    <3>1. f[s[j]] = s[j + 1] /\ j + 1 \in 1..n
      BY <1>1, <2>4, <2>7
    <3>2. s[i + 1] = s[j + 1] /\ i + 1 < j + 1
      BY <2>4, <2>5, <3>1
    <3>3. PICK l : l = n - (j + 1)
      OBVIOUS
    <3>4. l \in Nat /\ l < k /\ k \in Nat
      BY <1>1, <2>4, <3>1, <3>3
    <3>5. l \in Twice
      BY <2>5, <3>1, <3>2, <3>3, <3>4
    <3>6. k <= l
      BY <2>3, <3>5
    <3> QED
      BY <3>4, <3>6
  <2> QED
    BY <1>1, <2>4, <2>6, <2>7
<1>3. \A i, j \in 1..n : i < j => s[i] # s[j]
  <2> SUFFICES ASSUME NEW i \in 1..n, NEW j \in 1..n, i < j, s[i] = s[j] PROVE FALSE
    OBVIOUS
  <2>1. n - j \in Nat
    BY <1>1
  <2>2. n - j \in Twice
    BY <2>1
  <2> QED
    BY <1>2, <2>2
<1> QED
  BY <1>1, <1>3

(* The first cluster of a chain and the rest                               *)
LEMMA ChainTail ==
    ASSUME NEW f, NEW c, NEW n, Proper(f, c, n), n > 0
    PROVE  /\ f[c] \in Cluster =>
                /\ n - 1 \in Nat /\ n - 1 > 0 /\ Proper(f, f[c], n - 1) /\ c \notin Chain(f, f[c])
                /\ Chain(f, c) = {c} \cup Chain(f, f[c])
           /\ f[c] \notin Cluster => n = 1 /\ f[c] = Eoc /\ Chain(f, c) = {c}
<1>1. PICK s : s = Walk(f, c)
  OBVIOUS
<1>2. IsChain(f, c, n, s) /\ Chain(f, c) = {s[i] : i \in 1..n}
  BY <1>1, ProperFacts
<1>3. /\ n \in Nat /\ n < LastCluster /\ LastCluster \in Nat /\ s \in [1..n -> Cluster] /\ s[1] = c
      /\ f[s[n]] = Eoc
      /\ \A i \in 1..n : i < n => f[s[i]] = s[i + 1]
  BY <1>2, FatBounds DEF IsChain
<1>4. CASE n = 1
  <2>1. f[c] = Eoc
    BY <1>3, <1>4
  <2>2. Chain(f, c) = {c}
    <3>1. \A i \in 1..n : i = 1
      BY <1>4
    <3>2. 1 \in 1..n
      BY <1>4
    <3> QED
      BY <1>2, <1>3, <3>1, <3>2
  <2> QED
    BY <1>4, <2>1, <2>2, FatBounds
<1>5. CASE n > 1
  <2>1. f[c] = s[2] /\ 2 \in 1..n /\ s[2] \in Cluster
    BY <1>3, <1>5
  <2>2. PICK m, t : m = n - 1 /\ t = [i \in 1..m |-> s[i + 1]]
    OBVIOUS
  <2>3. m \in Nat /\ m > 0 /\ m < LastCluster /\ n = m + 1 /\ \A i \in 1..m : i + 1 \in 1..n
    BY <1>3, <1>5, <2>2
  <2>4. t \in [1..m -> Cluster] /\ t[1] = s[2] /\ t[m] = s[n]
    BY <1>3, <2>2, <2>3
  <2>5. ASSUME NEW i \in 1..m, i < m PROVE f[t[i]] = t[i + 1]
    <3>1. i + 1 \in 1..n /\ i + 1 < n /\ i + 1 \in 1..m /\ t[i] = s[i + 1] /\ t[i + 1] = s[(i + 1) + 1]
      BY <2>2, <2>3, <2>5
    <3> QED
      BY <1>3, <3>1
  <2>6. IsChain(f, s[2], m, t)
    <3>1. m \in 0..(LastCluster - 1)
      BY <1>3, <2>3
    <3> QED
      BY <1>3, <2>3, <2>4, <2>5, <3>1 DEF IsChain
  <2>7. Chain(f, s[2]) = {t[i] : i \in 1..m}
    BY <2>6, WalkIs
  <2>8. \A i, j \in 1..n : s[i] = s[j] => i = j
    BY <1>2, ChainInjective
  <2>9. c \notin Chain(f, s[2])
    <3> SUFFICES ASSUME NEW i \in 1..m, t[i] = c PROVE FALSE
      BY <2>7
    <3>1. t[i] = s[i + 1] /\ i + 1 \in 1..n /\ 1 \in 1..n /\ i \in Nat
      BY <2>2, <2>3
    <3>2. i + 1 = 1
      BY <1>3, <2>8, <3>1
    <3> QED
      BY <3>1, <3>2
  <2>10. Chain(f, c) = {c} \cup Chain(f, s[2])
    <3>1. ASSUME NEW x \in Chain(f, c) PROVE x \in {c} \cup Chain(f, s[2])
      <4>1. PICK i \in 1..n : x = s[i]
        BY <1>2
      <4>2. CASE i = 1
        BY <1>3, <4>1, <4>2
      <4>3. CASE i # 1
        <5>1. PICK j : j = i - 1
          OBVIOUS
        <5>2. j \in 1..m /\ t[j] = s[i]
          BY <2>2, <2>3, <4>3, <5>1
        <5> QED
          BY <2>7, <4>1, <5>2
      <4> QED
        BY <4>2, <4>3
    <3>2. c \in Chain(f, c)
      BY <1>2, <1>3
    <3>3. ASSUME NEW x \in Chain(f, s[2]) PROVE x \in Chain(f, c)
      <4>1. PICK i \in 1..m : x = t[i]
        BY <2>7
      <4>2. x = s[i + 1] /\ i + 1 \in 1..n
        BY <2>2, <2>3, <4>1
      <4> QED
        BY <1>2, <4>2
    <3> QED
      BY <3>1, <3>2, <3>3
  <2> QED
    BY <2>1, <2>2, <2>3, <2>6, <2>9, <2>10 DEF Proper
<1> QED
  BY <1>3, <1>4, <1>5

LEMMA ChainOne ==
    ASSUME NEW f, NEW c \in Cluster, f[c] = Eoc
    PROVE  Proper(f, c, 1) /\ Chain(f, c) = {c} /\ Walk(f, c)[1] = c
<1>1. PICK s : s = [i \in 1..1 |-> c]
  OBVIOUS
<1>2. s \in [1..1 -> Cluster] /\ s[1] = c /\ 1 \in 0..(LastCluster - 1)
  BY <1>1, FatBounds
<1>3. IsChain(f, c, 1, s)
  BY <1>2 DEF IsChain
<1>4. Walk(f, c) = s /\ Chain(f, c) = {s[i] : i \in 1..1}
  BY <1>3, WalkIs
<1> QED
  BY <1>2, <1>3, <1>4 DEF Proper

(* A chain gets one cluster more at its end.                               *)
LEMMA ChainAppend ==
    ASSUME NEW f, NEW c, NEW m, Proper(f, c, m), m > 0,
           NEW v \in Cluster, v \notin Chain(f, c), NEW g, g[v] = Eoc, g[Walk(f, c)[m]] = v,
           \A x \in Chain(f, c) : x # Walk(f, c)[m] => g[x] = f[x]
    PROVE  /\ Proper(g, c, m + 1) /\ Chain(g, c) = Chain(f, c) \cup {v} /\ Walk(g, c)[m + 1] = v
<1>1. PICK s : s = Walk(f, c)
  OBVIOUS
<1>2. IsChain(f, c, m, s) /\ Chain(f, c) = {s[i] : i \in 1..m}
  BY <1>1, ProperFacts
<1>3. /\ m \in Nat /\ m < LastCluster /\ LastCluster \in Nat /\ s \in [1..m -> Cluster] /\ s[1] = c
      /\ \A i \in 1..m : i < m => f[s[i]] = s[i + 1]
  BY <1>2, FatBounds DEF IsChain
<1>4. \A i, j \in 1..m : s[i] = s[j] => i = j
  BY <1>2, ChainInjective
<1>5. PICK n, t : n = m + 1 /\ t = [i \in 1..n |-> IF i = n THEN v ELSE s[i]]
  OBVIOUS
<1>6. /\ n \in Nat /\ n > 1 /\ 1..m \subseteq 1..n /\ n \in 1..n /\ n \notin 1..m
      /\ \A i \in 1..n : i # n => i \in 1..m
  BY <1>3, <1>5
<1>7. t \in [1..n -> Cluster] /\ t[n] = v /\ \A i \in 1..m : t[i] = s[i]
  BY <1>3, <1>5, <1>6
<1>8. \A i, j \in 1..n : i # j => t[i] # t[j]
  <2>1. \A i \in 1..m : s[i] # v
    BY <1>2
  <2> QED
    BY <1>4, <1>6, <1>7, <2>1
<1>9. n <= LastCluster - 1
  <2> SUFFICES ASSUME ~(n <= LastCluster - 1) PROVE FALSE
    OBVIOUS
  <2>1. IsFiniteSet(Cluster) /\ Cardinality(Cluster) = LastCluster - 1
    BY ClusterCount
  <2>2. IsFiniteSet(1..n) /\ Cardinality(1..n) = n
    BY <1>6, FS_Interval
  <2>3. PICK S : S = 1..n
    OBVIOUS
  <2>4. Cardinality(Cluster) < Cardinality(S) /\ IsFiniteSet(S) /\ t \in [S -> Cluster]
    BY <1>3, <1>6, <1>7, <2>1, <2>2, <2>3
  <2>5. \E x, y \in S : x # y /\ t[x] = t[y]
    BY <2>1, <2>4, FS_PigeonHole
  <2> QED
    BY <1>8, <2>3, <2>5
<1>10. ASSUME NEW i \in 1..n, i < n PROVE g[t[i]] = t[i + 1]
  <2>1. i \in 1..m /\ t[i] = s[i]
    BY <1>6, <1>7, <1>10
  <2>2. CASE i = m
    <3>1. t[i + 1] = v
      BY <1>5, <1>7, <2>2
    <3> QED
      BY <1>1, <2>1, <2>2, <3>1
  <2>3. CASE i # m
    <3>1. i < m /\ i + 1 \in 1..m /\ m \in 1..m
      BY <1>3, <2>1, <2>3
    <3>2. s[i] # s[m] /\ s[i] \in Chain(f, c)
      BY <1>2, <1>4, <2>1, <2>3, <3>1
    <3>3. g[s[i]] = f[s[i]]
      BY <1>1, <3>2
    <3> QED
      BY <1>3, <1>7, <2>1, <3>1, <3>3
  <2> QED
    BY <2>2, <2>3
<1>11. IsChain(g, c, n, t)
  <2>1. n \in 0..(LastCluster - 1) /\ 1 \in 1..m
    BY <1>3, <1>6, <1>9
  <2>2. t[1] = c
    BY <1>3, <1>7, <2>1
  <2> QED
    BY <1>6, <1>7, <1>10, <2>1, <2>2 DEF IsChain
<1>12. Walk(g, c) = t /\ Chain(g, c) = {t[i] : i \in 1..n}
  BY <1>11, WalkIs
<1>13. {t[i] : i \in 1..n} = {s[i] : i \in 1..m} \cup {v}
  BY <1>6, <1>7
<1> QED
  BY <1>2, <1>5, <1>7, <1>11, <1>12, <1>13 DEF Proper

(* Along a chain                                                           *)
LEMMA ChainNext ==
    ASSUME NEW f, NEW c, NEW n, Proper(f, c, n), NEW i \in 1..n
    PROVE  /\ Walk(f, c)[i] \in Chain(f, c) /\ Walk(f, c)[i] \in Cluster
           /\ i < n => f[Walk(f, c)[i]] = Walk(f, c)[i + 1] /\ f[Walk(f, c)[i]] \in Cluster
           /\ i = n => f[Walk(f, c)[i]] = Eoc
           /\ \A j \in 1..n : Walk(f, c)[i] = Walk(f, c)[j] => i = j
<1>1. PICK s : s = Walk(f, c)
  OBVIOUS
<1>2. n \in Nat /\ IsChain(f, c, n, s) /\ Chain(f, c) = {s[j] : j \in 1..n} /\ s \in [1..n -> Cluster]
  BY <1>1, ProperFacts
<1>3. i < n => f[s[i]] = s[i + 1] /\ i + 1 \in 1..n
  BY <1>2 DEF IsChain
<1>4. i = n => f[s[i]] = Eoc
  BY <1>2 DEF IsChain
<1>5. \A k, j \in 1..n : s[k] = s[j] => k = j
  BY <1>2, ChainInjective
<1> QED
  BY <1>1, <1>2, <1>3, <1>4, <1>5

-----------------------------------------------------------------------------
(* The locals of an operation                                              *)

Ops == {"create", "mkdir", "undo", "rm", "rmdir", "mv"}
FatPc == {"fat_read", "fat_write"}
Pcs == FatPc \cup {"idle", "taken", "slot", "probe", "data", "next", "block", "entry", "save", "find",
                   "check", "free", "erase", "rename"}

Local ==
    [op : Ops, pc : Pcs, nm : Short, k : Nat, v : Val \cup Short \cup {"none"}, slot : Slots \cup {0},
     first : Cluster \cup {0}, prev : Cluster \cup {0}, cl : Cluster \cup {0}, n : Nat,
     tgt : Cluster \cup {0}, value : Cluster \cup {Free, Eoc}, then : Pcs,
     buf : {<<>>} \cup Tables, sec : {<<>>} \cup [Slots -> Entry]]

LEMMA UCutShort == \A nm \in Name : UCut[nm] \in Name /\ UCut[nm] \in Short
BY UCutAssumption DEF Short

LEMMA StartIs ==
    ASSUME NEW op \in Ops, NEW nm \in Short, NEW k \in Nat, NEW v \in Val \cup Short \cup {"none"},
           NEW pc \in Pcs
    PROVE  LET q == Start(op, nm, k, v, pc) IN
           /\ q \in Local /\ q.op = op /\ q.pc = pc /\ q.nm = nm /\ q.k = k /\ q.v = v /\ q.slot = 0
           /\ q.first = 0 /\ q.prev = 0 /\ q.cl = 2 /\ q.n = 0
<1>1. 2 \in Cluster
  BY FatAssumption DEF Cluster
<1> QED
  BY <1>1 DEF Start, Local, Free

LEMMA OpIs ==
    /\ "create" \in Ops /\ "mkdir" \in Ops /\ "undo" \in Ops /\ "rm" \in Ops /\ "rmdir" \in Ops
    /\ "mv" \in Ops
  BY DEF Ops

LEMMA PcIs ==
    /\ "fat_read" \in Pcs /\ "fat_write" \in Pcs /\ "idle" \in Pcs /\ "taken" \in Pcs /\ "slot" \in Pcs
    /\ "probe" \in Pcs /\ "data" \in Pcs /\ "next" \in Pcs /\ "block" \in Pcs /\ "entry" \in Pcs
    /\ "save" \in Pcs /\ "find" \in Pcs /\ "check" \in Pcs /\ "free" \in Pcs /\ "erase" \in Pcs
    /\ "rename" \in Pcs
  BY DEF Pcs, FatPc

(* write_fat_entry is called                                               *)
LEMMA SetFatIs ==
    ASSUME NEW r \in Local,
           NEW cl \in Cluster, NEW value \in Cluster \cup {Free, Eoc}, NEW pc \in Pcs
    PROVE  LET q == SetFat(r, cl, value, pc) IN
           /\ q \in Local /\ q.op = r.op /\ q.pc = "fat_read" /\ q.nm = r.nm /\ q.k = r.k /\ q.v = r.v
           /\ q.slot = r.slot /\ q.first = r.first /\ q.prev = r.prev /\ q.cl = r.cl /\ q.n = r.n
           /\ q.tgt = cl /\ q.value = value /\ q.then = pc /\ q.sec = r.sec
<1>1. PICK q : q = SetFat(r, cl, value, pc)
  OBVIOUS
<1>2. q = [
           op |-> r.op, pc |-> "fat_read", nm |-> r.nm, k |-> r.k, v |-> r.v, slot |->
           r.slot, first |-> r.first, prev |-> r.prev, cl |-> r.cl, n |-> r.n, tgt |->
           cl, value |-> value, then |-> pc, buf |-> r.buf, sec |-> r.sec]
  BY <1>1 DEF Local, SetFat
<1>3. q \in Local
  BY <1>2, PcIs DEF Local, Free
<1> QED
  BY <1>1, <1>2, <1>3

(* and reads the FAT                                                       *)
LEMMA ReadIs ==
    ASSUME NEW t \in Tables, NEW r \in Local
    PROVE  LET q == [r EXCEPT !.pc = "fat_write", !.buf = t] IN
           /\ q \in Local /\ q.op = r.op /\ q.pc = "fat_write" /\ q.nm = r.nm /\ q.k = r.k /\ q.v = r.v
           /\ q.slot = r.slot /\ q.first = r.first /\ q.prev = r.prev /\ q.cl = r.cl /\ q.n = r.n
           /\ q.tgt = r.tgt /\ q.value = r.value /\ q.then = r.then /\ q.sec = r.sec
<1>1. PICK q : q = [r EXCEPT !.pc = "fat_write", !.buf = t]
  OBVIOUS
<1>2. q = [
           op |-> r.op, pc |-> "fat_write", nm |-> r.nm, k |-> r.k, v |-> r.v, slot |->
           r.slot, first |-> r.first, prev |-> r.prev, cl |-> r.cl, n |-> r.n, tgt |->
           r.tgt, value |-> r.value, then |-> r.then, buf |-> t, sec |-> r.sec]
  BY <1>1 DEF Local
<1>3. q \in Local
  BY <1>2, PcIs DEF Local, Free
<1> QED
  BY <1>1, <1>2, <1>3

(* and returns                                                             *)
BackSet(r) == [r EXCEPT !.pc = r.then, !.buf = <<>>, !.tgt = 0, !.value = 0]

LEMMA ResumeIs ==
    ASSUME NEW r \in Local
    PROVE  LET q == BackSet(r) IN
           /\ q \in Local /\ q.op = r.op /\ q.pc = r.then /\ q.nm = r.nm /\ q.k = r.k /\ q.v = r.v
           /\ q.slot = r.slot /\ q.first = r.first /\ q.prev = r.prev /\ q.cl = r.cl /\ q.n = r.n
           /\ q.tgt = 0 /\ q.value = 0 /\ q.then = r.then /\ q.sec = r.sec
<1>1. PICK q : q = BackSet(r)
  OBVIOUS
<1>2. q = [
           op |-> r.op, pc |-> r.then, nm |-> r.nm, k |-> r.k, v |-> r.v, slot |->
           r.slot, first |-> r.first, prev |-> r.prev, cl |-> r.cl, n |-> r.n, tgt |->
           0, value |-> 0, then |-> r.then, buf |-> <<>>, sec |-> r.sec]
  BY <1>1 DEF Local, BackSet
<1>3. q \in Local
  BY <1>2 DEF Local, Free
<1> QED
  BY <1>1, <1>2, <1>3

LEMMA CountedIs ==
    ASSUME NEW r \in Local
    PROVE  LET q == Counted(r) IN
           /\ q \in Local /\ q.op = r.op /\ q.pc = r.pc /\ q.nm = r.nm /\ q.k = r.k /\ q.v = r.v
           /\ q.slot = r.slot /\ q.first = (IF r.first = 0 THEN r.cl ELSE r.first) /\ q.prev = r.cl
           /\ q.cl = r.cl /\ q.n = r.n + 1 /\ q.tgt = r.tgt /\ q.value = r.value /\ q.then = r.then
           /\ q.sec = r.sec
<1>1. PICK q : q = Counted(r)
  OBVIOUS
<1>2. q = [
           op |-> r.op, pc |-> r.pc, nm |-> r.nm, k |-> r.k, v |-> r.v, slot |-> r.slot,
           first |-> IF r.first = 0 THEN r.cl ELSE r.first, prev |-> r.cl, cl |-> r.cl,
           n |-> r.n + 1, tgt |-> r.tgt, value |-> r.value, then |-> r.then, buf |->
           r.buf, sec |-> r.sec]
  BY <1>1 DEF Local, Counted
<1>3. q \in Local
  BY <1>2 DEF Local, Free
<1> QED
  BY <1>1, <1>2, <1>3

(* Only the place in the program changes,                                  *)
LEMMA PcTo ==
    ASSUME NEW r \in Local, NEW pc \in Pcs
    PROVE  LET q == [r EXCEPT !.pc = pc] IN
           /\ q \in Local /\ q.op = r.op /\ q.pc = pc /\ q.nm = r.nm /\ q.k = r.k /\ q.v = r.v
           /\ q.slot = r.slot /\ q.first = r.first /\ q.prev = r.prev /\ q.cl = r.cl /\ q.n = r.n
           /\ q.tgt = r.tgt /\ q.value = r.value /\ q.then = r.then /\ q.sec = r.sec
<1>1. PICK q : q = [r EXCEPT !.pc = pc]
  OBVIOUS
<1>2. q = [
           op |-> r.op, pc |-> pc, nm |-> r.nm, k |-> r.k, v |-> r.v, slot |-> r.slot,
           first |-> r.first, prev |-> r.prev, cl |-> r.cl, n |-> r.n, tgt |-> r.tgt,
           value |-> r.value, then |-> r.then, buf |-> r.buf, sec |-> r.sec]
  BY <1>1 DEF Local
<1>3. q \in Local
  BY <1>2 DEF Local, Free
<1> QED
  BY <1>1, <1>2, <1>3

(* or that and the cluster,                                                *)
ClSet(r, pc, cl) == [r EXCEPT !.pc = pc, !.cl = cl]

LEMMA ClTo ==
    ASSUME NEW r \in Local, NEW pc \in Pcs, NEW cl \in Cluster
    PROVE  LET q == ClSet(r, pc, cl) IN
           /\ q \in Local /\ q.op = r.op /\ q.pc = pc /\ q.nm = r.nm /\ q.k = r.k /\ q.v = r.v
           /\ q.slot = r.slot /\ q.first = r.first /\ q.prev = r.prev /\ q.cl = cl /\ q.n = r.n
           /\ q.tgt = r.tgt /\ q.value = r.value /\ q.then = r.then /\ q.sec = r.sec
<1>1. PICK q : q = ClSet(r, pc, cl)
  OBVIOUS
<1>2. q = [
           op |-> r.op, pc |-> pc, nm |-> r.nm, k |-> r.k, v |-> r.v, slot |-> r.slot,
           first |-> r.first, prev |-> r.prev, cl |-> cl, n |-> r.n, tgt |-> r.tgt,
           value |-> r.value, then |-> r.then, buf |-> r.buf, sec |-> r.sec]
  BY <1>1 DEF Local, ClSet
<1>3. q \in Local
  BY <1>2 DEF Local, Free
<1> QED
  BY <1>1, <1>2, <1>3

(* or the slot.                                                            *)
LEMMA SlotTo ==
    ASSUME NEW r \in Local, NEW pc \in Pcs, NEW slot \in Slots
    PROVE  LET q == [r EXCEPT !.pc = pc, !.slot = slot] IN
           /\ q \in Local /\ q.op = r.op /\ q.pc = pc /\ q.nm = r.nm /\ q.k = r.k /\ q.v = r.v
           /\ q.slot = slot /\ q.first = r.first /\ q.prev = r.prev /\ q.cl = r.cl /\ q.n = r.n
           /\ q.tgt = r.tgt /\ q.value = r.value /\ q.then = r.then /\ q.sec = r.sec
<1>1. PICK q : q = [r EXCEPT !.pc = pc, !.slot = slot]
  OBVIOUS
<1>2. q = [
           op |-> r.op, pc |-> pc, nm |-> r.nm, k |-> r.k, v |-> r.v, slot |-> slot,
           first |-> r.first, prev |-> r.prev, cl |-> r.cl, n |-> r.n, tgt |-> r.tgt,
           value |-> r.value, then |-> r.then, buf |-> r.buf, sec |-> r.sec]
  BY <1>1 DEF Local
<1>3. q \in Local
  BY <1>2 DEF Local, Free
<1> QED
  BY <1>1, <1>2, <1>3

LEMMA ClOnlyTo ==
    ASSUME NEW r \in Local, NEW cl \in Cluster
    PROVE  LET q == [r EXCEPT !.cl = cl] IN
           /\ q \in Local /\ q.op = r.op /\ q.pc = r.pc /\ q.nm = r.nm /\ q.k = r.k /\ q.v = r.v
           /\ q.slot = r.slot /\ q.first = r.first /\ q.prev = r.prev /\ q.cl = cl /\ q.n = r.n
           /\ q.tgt = r.tgt /\ q.value = r.value /\ q.then = r.then /\ q.sec = r.sec
<1>1. PICK q : q = [r EXCEPT !.cl = cl]
  OBVIOUS
<1>2. q = [
           op |-> r.op, pc |-> r.pc, nm |-> r.nm, k |-> r.k, v |-> r.v, slot |-> r.slot,
           first |-> r.first, prev |-> r.prev, cl |-> cl, n |-> r.n, tgt |-> r.tgt,
           value |-> r.value, then |-> r.then, buf |-> r.buf, sec |-> r.sec]
  BY <1>1 DEF Local
<1>3. q \in Local
  BY <1>2 DEF Local, Free
<1> QED
  BY <1>1, <1>2, <1>3

LEMMA UndoIs ==
    ASSUME NEW r \in Local, NEW cl \in Cluster
    PROVE  LET q == [r EXCEPT !.pc = "free", !.cl = cl, !.op = "undo"] IN
           /\ q \in Local /\ q.op = "undo" /\ q.pc = "free" /\ q.nm = r.nm /\ q.k = r.k /\ q.v = r.v
           /\ q.slot = r.slot /\ q.first = r.first /\ q.prev = r.prev /\ q.cl = cl /\ q.n = r.n
           /\ q.tgt = r.tgt /\ q.value = r.value /\ q.then = r.then /\ q.sec = r.sec
<1>1. PICK q : q = [r EXCEPT !.pc = "free", !.cl = cl, !.op = "undo"]
  OBVIOUS
<1>2. q = [
           op |-> "undo", pc |-> "free", nm |-> r.nm, k |-> r.k, v |-> r.v, slot |->
           r.slot, first |-> r.first, prev |-> r.prev, cl |-> cl, n |-> r.n, tgt |->
           r.tgt, value |-> r.value, then |-> r.then, buf |-> r.buf, sec |-> r.sec]
  BY <1>1 DEF Local
<1>3. q \in Local
  BY <1>2, PcIs, OpIs DEF Local, Free
<1> QED
  BY <1>1, <1>2, <1>3

DataSet(r, cl) == [r EXCEPT !.cl = cl, !.n = 0, !.pc = "data"]

LEMMA ContentsFrom ==
    ASSUME NEW r \in Local, NEW cl \in Cluster
    PROVE  LET q == DataSet(r, cl) IN
           /\ q \in Local /\ q.op = r.op /\ q.pc = "data" /\ q.nm = r.nm /\ q.k = r.k /\ q.v = r.v
           /\ q.slot = r.slot /\ q.first = r.first /\ q.prev = r.prev /\ q.cl = cl /\ q.n = 0
           /\ q.tgt = r.tgt /\ q.value = r.value /\ q.then = r.then /\ q.sec = r.sec
<1>1. PICK q : q = DataSet(r, cl)
  OBVIOUS
<1>2. q = [
           op |-> r.op, pc |-> "data", nm |-> r.nm, k |-> r.k, v |-> r.v, slot |->
           r.slot, first |-> r.first, prev |-> r.prev, cl |-> cl, n |-> 0, tgt |->
           r.tgt, value |-> r.value, then |-> r.then, buf |-> r.buf, sec |-> r.sec]
  BY <1>1 DEF Local, DataSet
<1>3. q \in Local
  BY <1>2, PcIs DEF Local, Free
<1> QED
  BY <1>1, <1>2, <1>3

NextSet(r) == [r EXCEPT !.pc = "next", !.n = @ + 1]

LEMMA ContentIs ==
    ASSUME NEW r \in Local
    PROVE  LET q == NextSet(r) IN
           /\ q \in Local /\ q.op = r.op /\ q.pc = "next" /\ q.nm = r.nm /\ q.k = r.k /\ q.v = r.v
           /\ q.slot = r.slot /\ q.first = r.first /\ q.prev = r.prev /\ q.cl = r.cl /\ q.n = r.n + 1
           /\ q.tgt = r.tgt /\ q.value = r.value /\ q.then = r.then /\ q.sec = r.sec
<1>1. PICK q : q = NextSet(r)
  OBVIOUS
<1>2. q = [
           op |-> r.op, pc |-> "next", nm |-> r.nm, k |-> r.k, v |-> r.v, slot |->
           r.slot, first |-> r.first, prev |-> r.prev, cl |-> r.cl, n |-> r.n + 1, tgt
           |-> r.tgt, value |-> r.value, then |-> r.then, buf |-> r.buf, sec |-> r.sec]
  BY <1>1 DEF Local, NextSet
<1>3. q \in Local
  BY <1>2, PcIs DEF Local, Free
<1> QED
  BY <1>1, <1>2, <1>3

LEMMA SecIs ==
    ASSUME NEW r \in Local, NEW ent \in [Slots -> Entry]
    PROVE  LET q == [r EXCEPT !.pc = "save", !.sec = ent] IN
           /\ q \in Local /\ q.op = r.op /\ q.pc = "save" /\ q.nm = r.nm /\ q.k = r.k /\ q.v = r.v
           /\ q.slot = r.slot /\ q.first = r.first /\ q.prev = r.prev /\ q.cl = r.cl /\ q.n = r.n
           /\ q.tgt = r.tgt /\ q.value = r.value /\ q.then = r.then /\ q.sec = ent
<1>1. PICK q : q = [r EXCEPT !.pc = "save", !.sec = ent]
  OBVIOUS
<1>2. q = [
           op |-> r.op, pc |-> "save", nm |-> r.nm, k |-> r.k, v |-> r.v, slot |->
           r.slot, first |-> r.first, prev |-> r.prev, cl |-> r.cl, n |-> r.n, tgt |->
           r.tgt, value |-> r.value, then |-> r.then, buf |-> r.buf, sec |-> ent]
  BY <1>1 DEF Local
<1>3. q \in Local
  BY <1>2, PcIs DEF Local, Free
<1> QED
  BY <1>1, <1>2, <1>3

HitSet(r, i, ent, cl, pc) == [r EXCEPT !.slot = i, !.sec = ent, !.cl = cl, !.pc = pc]

LEMMA FoundIs ==
    ASSUME NEW r \in Local, NEW i \in Slots, NEW ent \in [Slots -> Entry],
           NEW cl \in Cluster \cup {0}, NEW pc \in Pcs
    PROVE  LET q == HitSet(r, i, ent, cl, pc) IN
           /\ q \in Local /\ q.op = r.op /\ q.pc = pc /\ q.nm = r.nm /\ q.k = r.k /\ q.v = r.v
           /\ q.slot = i /\ q.first = r.first /\ q.prev = r.prev /\ q.cl = cl /\ q.n = r.n
           /\ q.tgt = r.tgt /\ q.value = r.value /\ q.then = r.then /\ q.sec = ent
<1>1. PICK q : q = HitSet(r, i, ent, cl, pc)
  OBVIOUS
<1>2. q = [
           op |-> r.op, pc |-> pc, nm |-> r.nm, k |-> r.k, v |-> r.v, slot |-> i, first
           |-> r.first, prev |-> r.prev, cl |-> cl, n |-> r.n, tgt |-> r.tgt, value |->
           r.value, then |-> r.then, buf |-> r.buf, sec |-> ent]
  BY <1>1 DEF Local, HitSet
<1>3. q \in Local
  BY <1>2 DEF Local, Free
<1> QED
  BY <1>1, <1>2, <1>3

-----------------------------------------------------------------------------
(* What a driver is in the middle of, and the clusters B it has in its     *)
(* hands, which no entry leads to                                          *)

Waits(r, cl, value, then) == r.pc \in FatPc /\ r.tgt = cl /\ r.value = value /\ r.then = then
Hit(r) == r.sec[r.slot].cl
Found(r) == /\ r.slot \in Slots /\ r.sec \in [Slots -> Entry] /\ Live(r.sec[r.slot])
            /\ r.sec[r.slot].kind \in Wanted(r.op)

(* The entry in a removing driver's hands: its chain is (partly) freed.    *)
HalfOf(r) ==
    /\ r.pc # "idle" /\ r.op \in {"rm", "rmdir"} /\ r.slot # 0 /\ Hit(r) \in Cluster
    /\ \/ r.pc = "erase"
       \/ r.pc = "free" /\ r.cl # Hit(r)
       \/ r.pc \in FatPc /\ r.tgt # Hit(r)

(* Nothing is taken yet, or nothing is left.                               *)
Searching(r) == /\ r.pc = "find" /\ r.op \in {"rm", "rmdir", "mv"} /\ r.slot = 0
                /\ r.op = "mv" => r.v \in Short
Choosing(r) == /\ r.pc = "slot" /\ r.op = "create" /\ r.first = 0 /\ r.n = 0 /\ r.prev = 0
               /\ r.cl = 2 /\ r.k > 0 /\ r.v \in Val /\ r.slot = 0
Asking(r) == /\ r.op = "mkdir" /\ r.first = 0 /\ r.slot = 0 /\ r.cl \in Cluster
             /\ r.pc = "probe" \/ Waits(r, r.cl, Eoc, "taken")
Naming(r) == r.pc = "rename" /\ r.op = "mv" /\ Found(r) /\ r.v \in Short
Looking(r) == r.pc = "check" /\ r.op = "rmdir" /\ Found(r) /\ r.cl = Hit(r)
Leaving(r) == r.pc = "erase" /\ r.op \in {"rm", "rmdir"} /\ Found(r)
Aiming(r) ==
    /\ r.op \in {"rm", "rmdir"} /\ Found(r) /\ Hit(r) \in Cluster
    /\ \/ r.pc = "free" /\ r.cl = Hit(r)
       \/ Waits(r, Hit(r), Free, "free") /\ r.cl \in Cluster
       \/ Waits(r, Hit(r), Free, "erase") /\ r.cl = Hit(r)
Unladen(r) == \/ Searching(r) \/ Choosing(r) \/ Asking(r) \/ Naming(r) \/ Looking(r) \/ Leaving(r)
              \/ Aiming(r)

(* create, on its way: n clusters from first to e are linked.              *)
Strung(f, c, n, e, B) ==
    \/ n = 0 /\ c = 0 /\ e = 0 /\ B = {}
    \/ n > 0 /\ Proper(f, c, n) /\ Walk(f, c)[n] = e /\ B = Chain(f, c)
Making(r) == r.op = "create" /\ r.k > 0 /\ r.v \in Val /\ r.slot \in Slots
Stringing(f, r, B) ==
    /\ Making(r) /\ Strung(f, r.first, r.n, r.prev, B) /\ r.n < r.k /\ r.cl \in Cluster
    /\ r.pc = "probe" \/ Waits(r, r.cl, Eoc, "taken")
Linking(f, r, B) ==
    /\ Making(r) /\ r.pc \in FatPc /\ r.prev = r.value /\ r.value \in Cluster /\ f[r.value] = Eoc
    /\ \E m \in Nat :
         /\ m > 0 /\ Proper(f, r.first, m) /\ Walk(f, r.first)[m] = r.tgt
         /\ r.value \notin Chain(f, r.first) /\ B = Chain(f, r.first) \cup {r.value}
         /\ \/ r.then = "probe" /\ r.n = m + 1 /\ r.n < r.k /\ r.cl = 2
            \/ r.then = "data" /\ r.k = m + 1 /\ r.n = 0 /\ r.cl = r.first
Filling(f, b, r, B) ==
    /\ Making(r) /\ Proper(f, r.first, r.k) /\ B = Chain(f, r.first)
    /\ r.n <= r.k /\ \A i \in 1..r.n : b[Walk(f, r.first)[i]] = DataBlock(r.v)
    /\ \/ r.pc = "data" /\ r.n < r.k /\ r.cl = Walk(f, r.first)[r.n + 1]
       \/ r.pc = "next" /\ r.n > 0 /\ r.cl = Walk(f, r.first)[r.n]
       \/ r.pc \in {"entry", "save"} /\ r.n = r.k

(* mkdir with its cluster                                                  *)
Blocking(f, b, r, u, B) ==
    /\ r.op = "mkdir" /\ r.cl \in Cluster /\ B = {r.cl} /\ f[r.cl] = Eoc
    /\ \/ r.pc = "block" /\ r.slot = 0
       \/ r.pc = "slot" /\ r.slot = 0 /\ b[r.cl] = DirBlock(u)
       \/ r.pc \in {"entry", "save"} /\ r.slot \in Slots /\ b[r.cl] = DirBlock(u)
       \/ Waits(r, r.cl, Free, "idle") /\ r.slot = 0

(* The rest of a chain is being freed.                                     *)
Back(op) == IF op = "undo" THEN "idle" ELSE "erase"
Freeing(f, r, B) ==
    /\ r.op = "undo" \/ (r.op \in {"rm", "rmdir"} /\ Found(r) /\ Hit(r) \in Cluster /\ Hit(r) \notin B)
    /\ r.cl \in Cluster
    /\ \/ r.pc = "free" /\ B = Chain(f, r.cl) /\ \E m \in Nat : m > 0 /\ Proper(f, r.cl, m)
       \/ /\ Waits(r, r.tgt, Free, "free") /\ r.tgt \in Cluster /\ f[r.tgt] = r.cl
          /\ r.tgt \notin Chain(f, r.cl) /\ B = {r.tgt} \cup Chain(f, r.cl)
          /\ \E m \in Nat : m > 0 /\ Proper(f, r.cl, m)
       \/ Waits(r, r.cl, Free, Back(r.op)) /\ f[r.cl] = Eoc /\ B = {r.cl}

Stage(f, b, r, u, B) ==
    \/ r = Idle /\ B = {}
    \/ r \in Local /\ Unladen(r) /\ B = {}
    \/ r \in Local /\ Stringing(f, r, B)
    \/ r \in Local /\ Linking(f, r, B)
    \/ r \in Local /\ Filling(f, b, r, B)
    \/ r \in Local /\ Blocking(f, b, r, u, B)
    \/ r \in Local /\ Freeing(f, r, B)

(* Nobody else writes on the clusters a driver has in its hands.           *)
LEMMA StageKept ==
    ASSUME NEW f, NEW b, NEW r, NEW u, NEW B, Stage(f, b, r, u, B),
           NEW f2, NEW b2, \A c \in B : f2[c] = f[c] /\ b2[c] = b[c]
    PROVE  Stage(f2, b2, r, u, B)
<1>1. CASE (r = Idle /\ B = {}) \/ (r \in Local /\ Unladen(r) /\ B = {})
  BY <1>1 DEF Stage
<1>2. CASE r \in Local /\ Stringing(f, r, B)
  <2>1. Strung(f2, r.first, r.n, r.prev, B)
    <3>1. CASE r.n = 0 /\ r.first = 0 /\ r.prev = 0 /\ B = {}
      BY <3>1 DEF Strung
    <3>2. CASE r.n > 0 /\ Proper(f, r.first, r.n) /\ Walk(f, r.first)[r.n] = r.prev
               /\ B = Chain(f, r.first)
      <4>1. /\ Proper(f2, r.first, r.n) /\ Walk(f2, r.first) = Walk(f, r.first)
            /\ Chain(f2, r.first) = Chain(f, r.first)
        BY <3>2, ChainKept
      <4> QED
        BY <3>2, <4>1 DEF Strung
    <3> QED
      BY <1>2, <3>1, <3>2 DEF Stringing, Strung
  <2> QED
    BY <1>2, <2>1 DEF Stage, Stringing
<1>3. CASE r \in Local /\ Linking(f, r, B)
  <2>1. PICK m \in Nat :
         /\ m > 0 /\ Proper(f, r.first, m) /\ Walk(f, r.first)[m] = r.tgt
         /\ r.value \notin Chain(f, r.first) /\ B = Chain(f, r.first) \cup {r.value}
         /\ \/ r.then = "probe" /\ r.n = m + 1 /\ r.n < r.k /\ r.cl = 2
            \/ r.then = "data" /\ r.k = m + 1 /\ r.n = 0 /\ r.cl = r.first
    BY <1>3 DEF Linking
  <2>2. /\ Proper(f2, r.first, m) /\ Walk(f2, r.first) = Walk(f, r.first)
        /\ Chain(f2, r.first) = Chain(f, r.first)
    BY <2>1, ChainKept
  <2>3. f2[r.value] = f[r.value]
    BY <2>1
  <2>4. Linking(f2, r, B)
    BY <1>3, <2>1, <2>2, <2>3 DEF Linking
  <2> QED
    BY <1>3, <2>4 DEF Stage
<1>4. CASE r \in Local /\ Filling(f, b, r, B)
  <2>1. Proper(f, r.first, r.k) /\ B = Chain(f, r.first) /\ r.n \in Nat /\ r.k \in Nat /\ r.n <= r.k
    BY <1>4 DEF Filling, Local
  <2>2. /\ Proper(f2, r.first, r.k) /\ Walk(f2, r.first) = Walk(f, r.first)
        /\ Chain(f2, r.first) = Chain(f, r.first)
    BY <2>1, ChainKept
  <2>3. \A i \in 1..r.n : b2[Walk(f, r.first)[i]] = b[Walk(f, r.first)[i]]
    <3>1. \A i \in 1..r.n : i \in 1..r.k
      BY <2>1
    <3>2. \A i \in 1..r.k : Walk(f, r.first)[i] \in B
      BY <2>1, ChainNext
    <3> QED
      BY <3>1, <3>2
  <2>4. Filling(f2, b2, r, B)
    BY <1>4, <2>1, <2>2, <2>3 DEF Filling
  <2> QED
    BY <1>4, <2>4 DEF Stage
<1>5. CASE r \in Local /\ Blocking(f, b, r, u, B)
  <2>1. f2[r.cl] = f[r.cl] /\ b2[r.cl] = b[r.cl]
    BY <1>5 DEF Blocking
  <2>2. Blocking(f2, b2, r, u, B)
    BY <1>5, <2>1 DEF Blocking
  <2> QED
    BY <1>5, <2>2 DEF Stage
<1>6. CASE r \in Local /\ Freeing(f, r, B)
  <2>1. ASSUME NEW m \in Nat, m > 0, Proper(f, r.cl, m), Chain(f, r.cl) \subseteq B
        PROVE  Proper(f2, r.cl, m) /\ Chain(f2, r.cl) = Chain(f, r.cl)
    BY <2>1, ChainKept
  <2>2. Freeing(f2, r, B)
    <3>1. CASE r.pc = "free" /\ B = Chain(f, r.cl) /\ \E m \in Nat : m > 0 /\ Proper(f, r.cl, m)
      <4>1. PICK m \in Nat : m > 0 /\ Proper(f, r.cl, m)
        BY <3>1
      <4>2. Proper(f2, r.cl, m) /\ Chain(f2, r.cl) = Chain(f, r.cl)
        BY <2>1, <3>1, <4>1
      <4> QED
        BY <1>6, <3>1, <4>1, <4>2 DEF Freeing
    <3>2. CASE /\ Waits(r, r.tgt, Free, "free") /\ r.tgt \in Cluster /\ f[r.tgt] = r.cl
               /\ r.tgt \notin Chain(f, r.cl) /\ B = {r.tgt} \cup Chain(f, r.cl)
               /\ \E m \in Nat : m > 0 /\ Proper(f, r.cl, m)
      <4>1. PICK m \in Nat : m > 0 /\ Proper(f, r.cl, m)
        BY <3>2
      <4>2. Proper(f2, r.cl, m) /\ Chain(f2, r.cl) = Chain(f, r.cl) /\ f2[r.tgt] = f[r.tgt]
        BY <2>1, <3>2, <4>1
      <4> QED
        BY <1>6, <3>2, <4>1, <4>2 DEF Freeing
    <3>3. CASE Waits(r, r.cl, Free, Back(r.op)) /\ f[r.cl] = Eoc /\ B = {r.cl}
      <4>1. f2[r.cl] = f[r.cl]
        BY <3>3
      <4> QED
        BY <1>6, <3>3, <4>1 DEF Freeing
    <3> QED
      BY <1>6, <3>1, <3>2, <3>3 DEF Freeing
  <2> QED
    BY <1>6, <2>2 DEF Stage
<1> QED
  BY <1>1, <1>2, <1>3, <1>4, <1>5, <1>6 DEF Stage

(* Where a driver can be at each place in its program                      *)
LEMMA StageAt ==
    ASSUME NEW f, NEW b, NEW r, NEW u, NEW B, Stage(f, b, r, u, B)
    PROVE  /\ r.pc = "idle" => r = Idle /\ B = {}
           /\ r.pc # "idle" => r \in Local
           /\ r.pc = "find" => Searching(r) /\ B = {}
           /\ r.pc = "slot" => (Choosing(r) /\ B = {}) \/ Blocking(f, b, r, u, B)
           /\ r.pc = "probe" => (Asking(r) /\ B = {}) \/ Stringing(f, r, B)
           /\ r.pc \in {"data", "next"} => Filling(f, b, r, B)
           /\ r.pc = "block" => Blocking(f, b, r, u, B)
           /\ r.pc \in {"entry", "save"} => Filling(f, b, r, B) \/ Blocking(f, b, r, u, B)
           /\ r.pc = "check" => Looking(r) /\ B = {}
           /\ r.pc = "rename" => Naming(r) /\ B = {}
           /\ r.pc = "erase" => Leaving(r) /\ B = {}
           /\ r.pc = "free" => (Aiming(r) /\ B = {}) \/ Freeing(f, r, B)
           /\ r.pc \in FatPc => \/ Asking(r) /\ B = {} 
                                \/ Aiming(r) /\ B = {}
                                \/ Stringing(f, r, B) \/ Linking(f, r, B)
                                \/ Blocking(f, b, r, u, B) \/ Freeing(f, r, B)
<1>1. CASE r = Idle /\ B = {}
  BY <1>1 DEF Idle, FatPc
<1>2. CASE r \in Local /\ Unladen(r) /\ B = {}
  <2>1. CASE Searching(r)
    BY <1>2, <2>1 DEF Searching, FatPc
  <2>2. CASE Choosing(r)
    BY <1>2, <2>2 DEF Choosing, FatPc
  <2>3. CASE Asking(r)
    BY <1>2, <2>3 DEF Asking, Waits, FatPc
  <2>4. CASE Naming(r)
    BY <1>2, <2>4 DEF Naming, FatPc
  <2>5. CASE Looking(r)
    BY <1>2, <2>5 DEF Looking, FatPc
  <2>6. CASE Leaving(r)
    BY <1>2, <2>6 DEF Leaving, FatPc
  <2>7. CASE Aiming(r)
    BY <1>2, <2>7 DEF Aiming, Waits, FatPc
  <2> QED
    BY <1>2, <2>1, <2>2, <2>3, <2>4, <2>5, <2>6, <2>7 DEF Unladen
<1>3. CASE r \in Local /\ Stringing(f, r, B)
  <2>1. r.pc \in {"probe", "fat_read", "fat_write"}
    BY <1>3 DEF Stringing, Waits, FatPc
  <2> QED
    BY <1>3, <2>1 DEF FatPc
<1>4. CASE r \in Local /\ Linking(f, r, B)
  <2>1. r.pc \in {"fat_read", "fat_write"}
    BY <1>4 DEF Linking, FatPc
  <2> QED
    BY <1>4, <2>1 DEF FatPc
<1>5. CASE r \in Local /\ Filling(f, b, r, B)
  <2>1. r.pc \in {"data", "next", "entry", "save"}
    BY <1>5 DEF Filling
  <2> QED
    BY <1>5, <2>1 DEF FatPc
<1>6. CASE r \in Local /\ Blocking(f, b, r, u, B)
  <2>1. r.pc \in {"block", "slot", "entry", "save", "fat_read", "fat_write"}
    BY <1>6 DEF Blocking, Waits, FatPc
  <2> QED
    BY <1>6, <2>1 DEF FatPc
<1>7. CASE r \in Local /\ Freeing(f, r, B)
  <2>1. r.pc \in {"free", "fat_read", "fat_write"}
    BY <1>7 DEF Freeing, Waits, FatPc
  <2> QED
    BY <1>7, <2>1 DEF FatPc
<1> QED
  BY <1>1, <1>2, <1>3, <1>4, <1>5, <1>6, <1>7 DEF Stage

(* What a driver has in its hands is what Held says.                       *)
HeldOf(f, r) ==
    IF r.pc = "idle" THEN {}
    ELSE Chain(f, r.first) \cup Chain(f, r.cl) \cup ({r.tgt, r.value} \cap Cluster)

LEMMA StageHeld ==
    ASSUME NEW f, NEW b, NEW r, NEW u, NEW B, Stage(f, b, r, u, B)
    PROVE  B \subseteq HeldOf(f, r)
<1>1. CASE B = {}
  BY <1>1
<1>2. CASE r \in Local /\ Stringing(f, r, B)
  BY <1>2 DEF Stringing, Strung, Waits, FatPc, HeldOf
<1>3. CASE r \in Local /\ Linking(f, r, B)
  BY <1>3 DEF Linking, FatPc, HeldOf
<1>4. CASE r \in Local /\ Filling(f, b, r, B)
  BY <1>4 DEF Filling, HeldOf
<1>5. CASE r \in Local /\ Blocking(f, b, r, u, B)
  <2>1. Chain(f, r.cl) = {r.cl} /\ B = {r.cl}
    BY <1>5, ChainOne DEF Blocking
  <2>2. r.pc # "idle"
    BY <1>5 DEF Blocking, Waits, FatPc
  <2> QED
    BY <2>1, <2>2 DEF HeldOf
<1>6. CASE r \in Local /\ Freeing(f, r, B)
  <2>1. r.pc # "idle" /\ r.cl \in Cluster
    BY <1>6 DEF Freeing, Waits, FatPc
  <2>2. CASE B = Chain(f, r.cl)
    BY <2>1, <2>2 DEF HeldOf
  <2>3. CASE B = {r.tgt} \cup Chain(f, r.cl) /\ r.tgt \in Cluster
    BY <2>1, <2>3 DEF HeldOf
  <2>4. CASE f[r.cl] = Eoc /\ B = {r.cl}
    <3>1. Chain(f, r.cl) = {r.cl}
      BY <2>1, <2>4, ChainOne
    <3> QED
      BY <2>1, <2>4, <3>1 DEF HeldOf
  <2> QED
    BY <1>6, <2>2, <2>3, <2>4 DEF Freeing
<1> QED
  BY <1>1, <1>2, <1>3, <1>4, <1>5, <1>6 DEF Stage

(* Only the removal of an entry is half done.                              *)
LEMMA HalfStage ==
    ASSUME NEW f, NEW b, NEW r, NEW u, NEW B, Stage(f, b, r, u, B)
    PROVE  HalfOf(r) => r \in Local /\ Found(r) /\ r.slot \in Slots
<1>1. CASE r = Idle /\ B = {}
  BY <1>1 DEF Idle, HalfOf
<1>2. CASE r \in Local /\ Unladen(r) /\ B = {}
  BY <1>2 DEF Unladen, Searching, Choosing, Asking, Naming, Looking, Leaving, Aiming, HalfOf, Found
<1>3. CASE r \in Local /\ Stringing(f, r, B)
  BY <1>3 DEF Stringing, Making, HalfOf
<1>4. CASE r \in Local /\ Linking(f, r, B)
  BY <1>4 DEF Linking, Making, HalfOf
<1>5. CASE r \in Local /\ Filling(f, b, r, B)
  BY <1>5 DEF Filling, Making, HalfOf
<1>6. CASE r \in Local /\ Blocking(f, b, r, u, B)
  BY <1>6 DEF Blocking, HalfOf
<1>7. CASE r \in Local /\ Freeing(f, r, B)
  BY <1>7 DEF Freeing, HalfOf, Found
<1> QED
  BY <1>1, <1>2, <1>3, <1>4, <1>5, <1>6, <1>7 DEF Stage

-----------------------------------------------------------------------------
(* The inductive invariant of an intact disk: beside the disk f, b there   *)
(* is a settled volume g, w, and each driver d has the clusters C[d] in its *)
(* hands.  D, U, P are the drivers' locals and directories, k the kernel's *)
(* directory, G who works in a removed one, K what the killed ones had.     *)

DyingOf(D, U) == {<<U[d], D[d].slot>> : d \in {x \in Driver : HalfOf(D[x])}}

(* A free cluster is not read as a directory.                              *)
Bare(f, b) == \A c \in Cluster : f[c] = Free => b[c].is # "dir"

(* What a driver has in its hands is its own,                              *)
Apart(f, g, C) ==
    /\ \A d \in Driver : \A c \in C[d] : f[c] # Free /\ g[c] = Free
    /\ \A d, e \in Driver : d # e => C[d] \cap C[e] = {}

(* and nothing else is taken, but what drivers had that were killed.       *)
Paid(f, g, C, K) ==
    \A c \in Cluster : f[c] # Free /\ g[c] = Free => c \in K \/ \E d \in Driver : c \in C[d]

(* Half removed entries are still in the directory, each with one remover. *)
Halves(b, D, U, L) ==
    /\ \A d \in Driver : HalfOf(D[d]) => /\ U[d] \in L /\ Live(b[U[d]].ent[D[d].slot])
                                         /\ b[U[d]].ent[D[d].slot].cl \in Cluster
    /\ \A d, e \in Driver : HalfOf(D[d]) /\ HalfOf(D[e]) /\ U[d] = U[e] /\ D[d].slot = D[e].slot => d = e

Dwelling(b, U, P, k, G, L) ==
    /\ \A d \in Driver \ G : U[d] \in L /\ (U[d] # Root => P[d] = b[U[d]].up)
    /\ Kernel \notin G => k \in L

(* A new entry goes to a slot that is found by a scan.                     *)
AimedAt(b, r, u) ==
    r.pc # "idle" /\ r.op \in {"create", "mkdir"} /\ r.slot # 0 =>
       \A j \in Slots : j < r.slot => b[u].ent[j].kind # "end"
Aimed(b, D, U, G) == \A d \in Driver \ G : AimedAt(b, D[d], U[d])

Inner(f, b, D, U, P, k, G, K, g, w, C) ==
    /\ f \in Tables /\ b \in [Dirs -> Block] /\ D \in [Driver -> {Idle} \cup Local]
    /\ U \in [Driver -> Dirs] /\ P \in [Driver -> Dirs] /\ k \in Dirs /\ C \in [Driver -> SUBSET Cluster]
    /\ Settled(g, w) /\ Relates(f, b, g, w, DyingOf(D, U)) /\ Bare(f, b)
    /\ \A d \in Driver : Stage(f, b, D[d], U[d], C[d])
    /\ Apart(f, g, C) /\ Paid(f, g, C, K)
    /\ Halves(b, D, U, LiveDirsOf(g, w)) /\ Dwelling(b, U, P, k, G, LiveDirsOf(g, w)) /\ Aimed(b, D, U, G)

(* A step of one driver, or of the kernel, to f2, b2, D2, k2, G2 beside a   *)
(* settled volume g2, w2: the drivers in W stay put, with what they have in *)
(* their hands,                                                            *)
Spared(f, b, C, f2, b2, g2, W) == \A e \in W : \A c \in C[e] : f2[c] = f[c] /\ b2[c] = b[c] /\ g2[c] = Free

(* who moves takes what was free or an entry's, and nothing is forgotten;   *)
Accounted(f, g, C, f2, g2, C2, W) ==
    /\ \A e \in Driver \ W : \A c \in C2[e] : f2[c] # Free /\ g2[c] = Free
       /\ (c \in C[e] \/ f[c] = Free \/ g[c] # Free)
    /\ \A c \in Cluster : f2[c] # Free /\ g2[c] = Free =>
          \/ \E e \in Driver \ W : c \in C2[e]
          \/ f[c] # Free /\ g[c] = Free /\ \A e \in Driver \ W : c \notin C[e]

(* who works in a directory that goes is told (L, L2: the live ones),      *)
Told(U, G, G2, L, L2) == G \subseteq G2 /\ \A e \in Driver \ G2 : U[e] \in L => U[e] \in L2

(* and in those that stay no entry is behind the end mark.                 *)
Marked(b, b2, L, L2) ==
    \A x \in L \cap L2 : /\ b2[x].up = b[x].up
                         /\ \A i \in Slots : b[x].ent[i].kind # "end" => b2[x].ent[i].kind # "end"

LEMMA StepKept ==
    ASSUME NEW f, NEW b, NEW D, NEW U, NEW P, NEW k, NEW G, NEW K, NEW g, NEW w, NEW C,
           Inner(f, b, D, U, P, k, G, K, g, w, C),
           NEW W \in SUBSET Driver, \A e, x \in Driver \ W : e = x,
           NEW f2 \in Tables, NEW b2 \in [Dirs -> Block], NEW D2 \in [Driver -> {Idle} \cup Local],
           NEW k2 \in Dirs, NEW G2, NEW g2, NEW w2, NEW C2 \in [Driver -> SUBSET Cluster],
           \A e \in W : D2[e] = D[e] /\ C2[e] = C[e],
           Spared(f, b, C, f2, b2, g2, W), Accounted(f, g, C, f2, g2, C2, W),
           \A e \in Driver \ W : Stage(f2, b2, D2[e], U[e], C2[e]),
           Settled(g2, w2), Relates(f2, b2, g2, w2, DyingOf(D2, U)), Bare(f2, b2),
           Halves(b2, D2, U, LiveDirsOf(g2, w2)),
           Told(U, G, G2, LiveDirsOf(g, w), LiveDirsOf(g2, w2)),
           Marked(b, b2, LiveDirsOf(g, w), LiveDirsOf(g2, w2)),
           Kernel \notin G2 => k2 \in LiveDirsOf(g2, w2),
           \A e \in Driver \ (W \cup G2) : AimedAt(b2, D2[e], U[e])
    PROVE  Inner(f2, b2, D2, U, P, k2, G2, K, g2, w2, C2)
<1>1. /\ U \in [Driver -> Dirs] /\ P \in [Driver -> Dirs] /\ Apart(f, g, C) /\ Paid(f, g, C, K)
      /\ Dwelling(b, U, P, k, G, LiveDirsOf(g, w)) /\ Aimed(b, D, U, G)
      /\ \A d \in Driver : Stage(f, b, D[d], U[d], C[d])
  BY DEF Inner
<1>2. ASSUME NEW d \in Driver PROVE Stage(f2, b2, D2[d], U[d], C2[d])
  <2>1. CASE d \in W
    <3>1. Stage(f, b, D2[d], U[d], C2[d])
      BY <1>1, <2>1
    <3>2. \A c \in C2[d] : f2[c] = f[c] /\ b2[c] = b[c]
      BY <2>1 DEF Spared
    <3> QED
      BY <3>1, <3>2, StageKept
  <2> QED
    BY <2>1
<1>3. Apart(f2, g2, C2)
  <2>1. ASSUME NEW d \in Driver, NEW c \in C2[d] PROVE f2[c] # Free /\ g2[c] = Free
    BY <1>1 DEF Apart, Spared, Accounted
  <2>2. ASSUME NEW d \in W, NEW e \in Driver \ W, NEW c, c \in C2[d], c \in C2[e] PROVE FALSE
    <3>1. c \in C[d] /\ f[c] # Free /\ g[c] = Free
      BY <1>1, <2>2 DEF Apart
    <3>2. c \in C[e] /\ d # e
      BY <2>2, <3>1 DEF Accounted
    <3> QED
      BY <1>1, <3>1, <3>2 DEF Apart
  <2>3. ASSUME NEW d \in W, NEW e \in W, d # e PROVE C2[d] \cap C2[e] = {}
    BY <1>1, <2>3 DEF Apart
  <2>4. ASSUME NEW d \in Driver, NEW e \in Driver, d # e PROVE C2[d] \cap C2[e] = {}
    BY <2>2, <2>3, <2>4
  <2> QED
    BY <2>1, <2>4 DEF Apart
<1>4. Paid(f2, g2, C2, K)
  <2> SUFFICES ASSUME NEW c \in Cluster, f2[c] # Free, g2[c] = Free, c \notin K
               PROVE  \E d \in Driver : c \in C2[d]
    BY DEF Paid
  <2>1. CASE \E e \in Driver \ W : c \in C2[e]
    BY <2>1
  <2>2. CASE f[c] # Free /\ g[c] = Free /\ \A e \in Driver \ W : c \notin C[e]
    <3>1. PICK d \in Driver : c \in C[d]
      BY <1>1, <2>2 DEF Paid
    <3>2. d \in W
      BY <2>2, <3>1
    <3> QED
      BY <3>1, <3>2
  <2> QED
    BY <2>1, <2>2 DEF Accounted
<1>5. Dwelling(b2, U, P, k2, G2, LiveDirsOf(g2, w2))
  <2>1. ASSUME NEW d \in Driver \ G2
        PROVE  U[d] \in LiveDirsOf(g2, w2) /\ (U[d] # Root => P[d] = b2[U[d]].up)
    <3>1. U[d] \in LiveDirsOf(g, w) /\ (U[d] # Root => P[d] = b[U[d]].up)
      BY <1>1 DEF Dwelling, Told
    <3>2. U[d] \in LiveDirsOf(g2, w2)
      BY <3>1 DEF Told
    <3> QED
      BY <3>1, <3>2 DEF Marked
  <2> QED
    BY <2>1 DEF Dwelling
<1>6. Aimed(b2, D2, U, G2)
  <2> SUFFICES ASSUME NEW d \in Driver \ G2, d \in W PROVE AimedAt(b2, D2[d], U[d])
    BY DEF Aimed
  <2>1. AimedAt(b, D2[d], U[d])
    BY <1>1 DEF Aimed, Told
  <2>2. U[d] \in LiveDirsOf(g, w) /\ U[d] \in LiveDirsOf(g2, w2)
    BY <1>1 DEF Dwelling, Told
  <2>3. \A i \in Slots : b[U[d]].ent[i].kind # "end" => b2[U[d]].ent[i].kind # "end"
    BY <2>2 DEF Marked
  <2> QED
    BY <2>1, <2>3 DEF AimedAt
<1> QED
  BY <1>1, <1>2, <1>3, <1>4, <1>5, <1>6 DEF Inner

LEMMA DyingSame ==
    ASSUME NEW D, NEW D2, NEW U,
           \A e \in Driver : /\ HalfOf(D2[e]) <=> HalfOf(D[e])
                             /\ HalfOf(D2[e]) => D2[e].slot = D[e].slot
    PROVE  DyingOf(D2, U) = DyingOf(D, U)
  BY DEF DyingOf

LEMMA HalvesKept ==
    ASSUME NEW b, NEW D, NEW U, NEW L, Halves(b, D, U, L), NEW D2, NEW b2, NEW L2,
           \A e \in Driver : HalfOf(D2[e]) => HalfOf(D[e]) /\ D2[e].slot = D[e].slot,
           \A e \in Driver : HalfOf(D2[e]) => 
              /\ U[e] \in L2 /\ Live(b2[U[e]].ent[D2[e].slot])
              /\ b2[U[e]].ent[D2[e].slot].cl = b[U[e]].ent[D2[e].slot].cl
    PROVE  Halves(b2, D2, U, L2)
  BY DEF Halves

(* A driver reads: the disk stays, and what the driver has in its hands.   *)
LEMMA ReadKept ==
    ASSUME NEW f, NEW b, NEW D, NEW U, NEW P, NEW k, NEW G, NEW K, NEW g, NEW w, NEW C,
           Inner(f, b, D, U, P, k, G, K, g, w, C),
           NEW d \in Driver, NEW q, Stage(f, b, q, U[d], C[d]),
           HalfOf(q) <=> HalfOf(D[d]), HalfOf(q) => q.slot = D[d].slot,
           d \notin G => AimedAt(b, q, U[d])
    PROVE  Inner(f, b, [D EXCEPT ![d] = q], U, P, k, G, K, g, w, C)
<1>1. PICK D2 : D2 = [D EXCEPT ![d] = q]
  OBVIOUS
<1>2. PICK W : W = Driver \ {d}
  OBVIOUS
<1>3. /\ f \in Tables /\ b \in [Dirs -> Block] /\ D \in [Driver -> {Idle} \cup Local]
      /\ k \in Dirs /\ C \in [Driver -> SUBSET Cluster] /\ Settled(g, w)
      /\ Relates(f, b, g, w, DyingOf(D, U)) /\ Bare(f, b) /\ Apart(f, g, C)
      /\ Halves(b, D, U, LiveDirsOf(g, w))
      /\ Dwelling(b, U, P, k, G, LiveDirsOf(g, w))
  BY DEF Inner
<1>4. q \in {Idle} \cup Local
  BY DEF Stage
<1>5. D2 \in [Driver -> {Idle} \cup Local] /\ D2[d] = q /\ \A e \in W : D2[e] = D[e]
  BY <1>1, <1>2, <1>3, <1>4
<1>6. \A e \in Driver : /\ HalfOf(D2[e]) <=> HalfOf(D[e])
                        /\ HalfOf(D2[e]) => D2[e].slot = D[e].slot
  BY <1>2, <1>5
<1>7. DyingOf(D2, U) = DyingOf(D, U)
  BY <1>6, DyingSame
<1>8. Halves(b, D2, U, LiveDirsOf(g, w))
  <2>1. \A e \in Driver : HalfOf(D2[e]) => U[e] \in LiveDirsOf(g, w) /\ Live(b[U[e]].ent[D2[e].slot])
    BY <1>3, <1>6 DEF Halves
  <2> QED
    BY <1>3, <1>6, <2>1, HalvesKept
<1>9. \A e \in Driver \ W : e = d
  BY <1>2
<1>10. W \in SUBSET Driver /\ \A e, x \in Driver \ W : e = x
  BY <1>2
<1>11. \A e \in Driver \ W : Stage(f, b, D2[e], U[e], C[e])
  BY <1>5, <1>9
<1>12. Spared(f, b, C, f, b, g, W) /\ \A e \in Driver \ (W \cup G) : AimedAt(b, D2[e], U[e])
  BY <1>3, <1>5, <1>9, <1>10 DEF Apart, Spared
<1>13. Accounted(f, g, C, f, g, C, W)
  BY <1>3 DEF Apart, Accounted
<1>14. Kernel \notin G => k \in LiveDirsOf(g, w)
  BY <1>3 DEF Dwelling
<1>15. /\ Told(U, G, G, LiveDirsOf(g, w), LiveDirsOf(g, w))
       /\ Marked(b, b, LiveDirsOf(g, w), LiveDirsOf(g, w))
  BY DEF Told, Marked
<1>16. Inner(f, b, D2, U, P, k, G, K, g, w, C)
  BY <1>3, <1>5, <1>7, <1>8, <1>10, <1>11, <1>12, <1>13, <1>14, <1>15, StepKept
<1> QED
  BY <1>1, <1>16

-----------------------------------------------------------------------------
(* The drivers' steps that read                                            *)

Follows(g, w, C) == Inner(fat, blk, drv, ucwd, uparent, cwd, gone, killed, g, w, C)
Followed == \E g, w, C : Follows(g, w, C)
Promises == UNoSharedCluster /\ ULeakCause /\ UFilesReadBack /\ ParentExact

(* The invariant that is inductive: a damaged disk is not followed.        *)
UIInv == IF Intact THEN Followed ELSE Promises

LEMMA EntIs ==
    ASSUME NEW x \in Block
    PROVE  x.ent \in [Slots -> Entry]
  BY NewEntries DEF Block, Unread, DataBlock, Empty

LEMMA InnerFacts ==
    ASSUME NEW g, NEW w, NEW C, Follows(g, w, C), NEW d \in Driver
    PROVE  /\ fat \in Tables /\ blk \in [Dirs -> Block] /\ ucwd[d] \in Dirs
           /\ blk[ucwd[d]].ent \in [Slots -> Entry]
           /\ Stage(fat, blk, drv[d], ucwd[d], C[d]) /\ C[d] \subseteq Cluster
           /\ \A c \in C[d] : fat[c] # Free /\ g[c] = Free
           /\ d \notin gone => /\ AimedAt(blk, drv[d], ucwd[d])
                               /\ ucwd[d] \in LiveDirsOf(g, w)
  BY EntIs DEF Follows, Inner, Apart, Aimed, Dwelling

LEMMA ReadStep ==
    ASSUME NEW g, NEW w, NEW C, Follows(g, w, C), Intact, NEW d \in Driver, NEW q, Reads(d, q),
           Stage(fat, blk, q, ucwd[d], C[d]),
           HalfOf(q) <=> HalfOf(drv[d]), HalfOf(q) => q.slot = drv[d].slot,
           d \notin gone => AimedAt(blk, q, ucwd[d])
    PROVE  UIInv'
<1>1. PICK D2 : D2 = [drv EXCEPT ![d] = q]
  OBVIOUS
<1>2. Inner(fat, blk, D2, ucwd, uparent, cwd, gone, killed, g, w, C)
  BY <1>1, ReadKept DEF Follows
<1>3. /\ drv' = D2 /\ fat' = fat /\ blk' = blk /\ ucwd' = ucwd /\ uparent' = uparent /\ cwd' = cwd
      /\ gone' = gone /\ killed' = killed /\ Intact'
  BY <1>1 DEF Reads, Goto, Calm, Intact
<1>4. Follows(g, w, C)'
  BY <1>2, <1>3 DEF Follows
<1> QED
  BY <1>3, <1>4 DEF UIInv, Followed

(* Only the slot tells where a new entry is aimed at.                      *)
LEMMA AimedStill ==
    ASSUME NEW b, NEW r, NEW u, AimedAt(b, r, u), r.pc # "idle", NEW q,
           q.slot = 0 \/ q.op \notin {"create", "mkdir"} \/ (q.slot = r.slot /\ q.op = r.op)
    PROVE  AimedAt(b, q, u)
  BY DEF AimedAt

LEMMA IdleIs ==
    /\ Idle.pc = "idle" /\ ~HalfOf(Idle)
    /\ \A b, u : AimedAt(b, Idle, u)
    /\ \A f, b, u : Stage(f, b, Idle, u, {})
  BY DEF Idle, HalfOf, AimedAt, Stage

LEMMA FatReadKept ==
    ASSUME NEW g, NEW w, NEW C, Follows(g, w, C), Intact, NEW d \in Driver, FatRead(d)
    PROVE  UIInv'
<1>1. PICK r, u, B : r = drv[d] /\ u = ucwd[d] /\ B = C[d]
  OBVIOUS
<1>2. PICK q : q = [r EXCEPT !.pc = "fat_write", !.buf = fat]
  OBVIOUS
<1>3. r.pc = "fat_read" /\ Reads(d, q)
  BY <1>1, <1>2 DEF FatRead
<1>4. fat \in Tables /\ Stage(fat, blk, r, u, B) /\ (d \notin gone => AimedAt(blk, r, u))
  BY <1>1, InnerFacts
<1>5. r \in Local /\ r.pc \in FatPc
  BY <1>3, <1>4, StageAt DEF FatPc
<1>6. /\ q \in Local /\ q.op = r.op /\ q.pc = "fat_write" /\ q.nm = r.nm /\ q.k = r.k /\ q.v = r.v
      /\ q.slot = r.slot /\ q.first = r.first /\ q.prev = r.prev /\ q.cl = r.cl /\ q.n = r.n
      /\ q.tgt = r.tgt /\ q.value = r.value /\ q.then = r.then /\ q.sec = r.sec
  BY <1>2, <1>4, <1>5, ReadIs, Zenon
<1>7. /\ "fat_write" \in FatPc
      /\ Hit(q) = Hit(r) /\ (Found(q) <=> Found(r))
      /\ \A cl, value, then : Waits(q, cl, value, then) <=> Waits(r, cl, value, then)
  BY <1>5, <1>6 DEF FatPc, Hit, Found, Waits
<1>8. HalfOf(q) <=> HalfOf(r)
  BY <1>3, <1>6, <1>7 DEF HalfOf, FatPc
<1>9. Stage(fat, blk, q, u, B)
  <2>1. CASE Asking(r) /\ B = {}
    <3>1. Asking(q)
      BY <1>3, <1>6, <1>7, <2>1 DEF Asking
    <3> QED
      BY <1>6, <2>1, <3>1 DEF Stage, Unladen
  <2>2. CASE Aiming(r) /\ B = {}
    <3>1. Aiming(q)
      BY <1>3, <1>6, <1>7, <2>2 DEF Aiming
    <3> QED
      BY <1>6, <2>2, <3>1 DEF Stage, Unladen
  <2>3. CASE Stringing(fat, r, B)
    <3>1. Stringing(fat, q, B)
      BY <1>3, <1>6, <1>7, <2>3 DEF Stringing, Making
    <3> QED
      BY <1>6, <3>1 DEF Stage
  <2>4. CASE Linking(fat, r, B)
    <3>1. Linking(fat, q, B)
      BY <1>6, <1>7, <2>4 DEF Linking, Making
    <3> QED
      BY <1>6, <3>1 DEF Stage
  <2>5. CASE Blocking(fat, blk, r, u, B)
    <3>1. Blocking(fat, blk, q, u, B)
      BY <1>3, <1>6, <1>7, <2>5 DEF Blocking
    <3> QED
      BY <1>6, <3>1 DEF Stage
  <2>6. CASE Freeing(fat, r, B)
    <3>1. Freeing(fat, q, B)
      BY <1>3, <1>6, <1>7, <2>6 DEF Freeing
    <3> QED
      BY <1>6, <3>1 DEF Stage
  <2> QED
    BY <1>4, <1>5, <2>1, <2>2, <2>3, <2>4, <2>5, <2>6, StageAt
<1>10. d \notin gone => AimedAt(blk, q, u)
  BY <1>3, <1>4, <1>6, AimedStill
<1> QED
  BY <1>1, <1>3, <1>6, <1>8, <1>9, <1>10, ReadStep

LEMMA FindSlotKept ==
    ASSUME NEW g, NEW w, NEW C, Follows(g, w, C), Intact, NEW d \in Driver, FindSlot(d)
    PROVE  UIInv'
<1>1. PICK r, u, B : r = drv[d] /\ u = ucwd[d] /\ B = C[d]
  OBVIOUS
<1>2. PICK S, i : S = FreeSlots(blk[u].ent) /\ i = Least(S)
  OBVIOUS
<1>3. /\ r.pc = "slot" /\ Stage(fat, blk, r, u, B) /\ (d \notin gone => AimedAt(blk, r, u))
  BY <1>1, InnerFacts DEF FindSlot
<1>4. r \in Local
  BY <1>3, StageAt
<1>5. S # {} => i \in Slots /\ \A j \in Slots : j < i => blk[u].ent[j].kind # "end"
  BY <1>2, FreeSlot
<1>6. ~HalfOf(r)
  BY <1>3 DEF HalfOf, FatPc
<1>7. CASE Choosing(r) /\ B = {} /\ S # {}
  <2>1. PICK q : q = [r EXCEPT !.pc = "probe", !.slot = i]
    OBVIOUS
  <2>2. r.op = "create" /\ Reads(d, q)
    BY <1>1, <1>2, <1>7, <2>1 DEF FindSlot, Choosing
  <2>3. /\ q \in Local /\ q.op = r.op /\ q.pc = "probe" /\ q.k = r.k /\ q.v = r.v
        /\ q.slot = i /\ q.first = r.first /\ q.prev = r.prev /\ q.cl = r.cl /\ q.n = r.n
    <3>1. "probe" \in Pcs /\ i \in Slots
      BY <1>5, <1>7, PcIs
    <3> QED
      BY <1>4, <2>1, <3>1, SlotTo, ZenonT(60)
  <2>4. Stringing(fat, q, B)
    BY <1>5, <1>7, <2>3, FatBounds DEF Stringing, Making, Strung, Choosing, Cluster
  <2>5. Stage(fat, blk, q, u, B) /\ ~HalfOf(q) /\ AimedAt(blk, q, u)
    BY <1>5, <1>7, <2>2, <2>3, <2>4 DEF Stage, HalfOf, AimedAt
  <2> QED
    BY <1>1, <1>6, <2>2, <2>5, ReadStep
<1>8. CASE Choosing(r) /\ B = {} /\ S = {}
  <2>1. Reads(d, Idle)
    BY <1>1, <1>2, <1>8 DEF FindSlot, Choosing
  <2> QED
    BY <1>1, <1>6, <1>8, <2>1, IdleIs, ReadStep
<1>9. CASE Blocking(fat, blk, r, u, B) /\ S # {}
  <2>1. PICK q : q = [r EXCEPT !.pc = "entry", !.slot = i]
    OBVIOUS
  <2>2. r.op = "mkdir" /\ Reads(d, q)
    BY <1>1, <1>2, <1>9, <2>1 DEF FindSlot, Blocking
  <2>3. q \in Local /\ q.op = r.op /\ q.pc = "entry" /\ q.slot = i /\ q.cl = r.cl
    <3>1. "entry" \in Pcs /\ i \in Slots
      BY <1>5, <1>9, PcIs
    <3> QED
      BY <1>4, <2>1, <3>1, SlotTo, ZenonT(60)
  <2>4. Blocking(fat, blk, q, u, B)
    BY <1>3, <1>5, <1>9, <2>3 DEF Blocking, Waits, FatPc
  <2>5. Stage(fat, blk, q, u, B) /\ ~HalfOf(q) /\ AimedAt(blk, q, u)
    BY <1>5, <1>9, <2>2, <2>3, <2>4 DEF Stage, HalfOf, AimedAt
  <2> QED
    BY <1>1, <1>6, <2>2, <2>5, ReadStep
<1>10. CASE Blocking(fat, blk, r, u, B) /\ S = {}
  <2>1. PICK q : q = SetFat(r, r.cl, Free, "idle")
    OBVIOUS
  <2>2. r.op = "mkdir" /\ r.cl \in Cluster /\ Reads(d, q)
    BY <1>1, <1>2, <1>10, <2>1 DEF FindSlot, Blocking
  <2>3. /\ q \in Local /\ q.op = r.op /\ q.pc = "fat_read" /\ q.slot = r.slot /\ q.cl = r.cl
        /\ q.tgt = r.cl /\ q.value = Free /\ q.then = "idle"
    <3>1. "idle" \in Pcs /\ Free \in Cluster \cup {Free, Eoc}
      BY PcIs
    <3> QED
      BY <1>4, <2>1, <2>2, <3>1, SetFatIs
  <2>4. Blocking(fat, blk, q, u, B)
    BY <1>3, <1>10, <2>3 DEF Blocking, Waits, FatPc
  <2>5. Stage(fat, blk, q, u, B) /\ ~HalfOf(q)
    BY <2>2, <2>3, <2>4 DEF Stage, HalfOf
  <2>6. d \notin gone => AimedAt(blk, q, u)
    BY <1>3, <2>3, AimedStill
  <2> QED
    BY <1>1, <1>6, <2>2, <2>5, <2>6, ReadStep
<1> QED
  BY <1>3, <1>7, <1>8, <1>9, <1>10, StageAt

LEMMA ProbeKept ==
    ASSUME NEW g, NEW w, NEW C, Follows(g, w, C), Intact, NEW d \in Driver, Probe(d)
    PROVE  UIInv'
<1>1. PICK r, u, B : r = drv[d] /\ u = ucwd[d] /\ B = C[d]
  OBVIOUS
<1>3. /\ r.pc = "probe" /\ Stage(fat, blk, r, u, B) /\ (d \notin gone => AimedAt(blk, r, u))
      /\ Reads(d, IF ProbeFree(r.cl) THEN SetFat(r, r.cl, Eoc, "taken")
                  ELSE IF r.cl < LastCluster THEN [r EXCEPT !.cl = r.cl + 1]
                  ELSE IF r.first # 0 THEN [r EXCEPT !.pc = "free", !.cl = r.first, !.op = "undo"]
                  ELSE Idle)
  BY <1>1, InnerFacts DEF Probe
<1>4. r \in Local /\ ((Asking(r) /\ B = {}) \/ Stringing(fat, r, B))
  BY <1>3, StageAt
<1>5. r.cl \in Cluster /\ r.op \in {"create", "mkdir"}
  BY <1>4 DEF Asking, Stringing, Making
<1>6. ~HalfOf(r)
  BY <1>5 DEF HalfOf
<1>7. CASE ProbeFree(r.cl)
  <2>1. PICK q : q = SetFat(r, r.cl, Eoc, "taken")
    OBVIOUS
  <2>2. /\ q \in Local /\ q.op = r.op /\ q.pc = "fat_read" /\ q.slot = r.slot /\ q.cl = r.cl
        /\ q.k = r.k /\ q.v = r.v /\ q.first = r.first /\ q.prev = r.prev /\ q.n = r.n
        /\ q.tgt = r.cl /\ q.value = Eoc /\ q.then = "taken"
    <3>1. "taken" \in Pcs /\ Eoc \in Cluster \cup {Free, Eoc}
      BY PcIs
    <3> QED
      BY <1>4, <1>5, <2>1, <3>1, SetFatIs
  <2>3. Waits(q, q.cl, Eoc, "taken") /\ Reads(d, q)
    BY <1>3, <1>7, <2>1, <2>2 DEF Waits, FatPc
  <2>4. Stage(fat, blk, q, u, B)
    BY <1>4, <2>2, <2>3 DEF Stage, Unladen, Asking, Stringing, Making
  <2>5. ~HalfOf(q)
    BY <1>5, <2>2 DEF HalfOf
  <2>6. d \notin gone => AimedAt(blk, q, u)
    BY <1>3, <2>2, AimedStill
  <2> QED
    BY <1>1, <1>6, <2>3, <2>4, <2>5, <2>6, ReadStep
<1>8. CASE ~ProbeFree(r.cl) /\ r.cl < LastCluster
  <2>1. PICK q : q = [r EXCEPT !.cl = r.cl + 1]
    OBVIOUS
  <2>2. r.cl + 1 \in Cluster /\ Reads(d, q)
    BY <1>3, <1>5, <1>8, <2>1, FatBounds DEF Cluster
  <2>3. /\ q \in Local /\ q.op = r.op /\ q.pc = r.pc /\ q.slot = r.slot /\ q.cl = r.cl + 1
        /\ q.k = r.k /\ q.v = r.v /\ q.first = r.first /\ q.prev = r.prev /\ q.n = r.n
    BY <1>4, <2>1, <2>2, ClOnlyTo
  <2>4. Stage(fat, blk, q, u, B)
    BY <1>3, <1>4, <2>2, <2>3 DEF Stage, Unladen, Asking, Stringing, Making
  <2>5. ~HalfOf(q)
    BY <1>5, <2>3 DEF HalfOf
  <2>6. d \notin gone => AimedAt(blk, q, u)
    BY <1>3, <2>3, AimedStill
  <2> QED
    BY <1>1, <1>6, <2>2, <2>4, <2>5, <2>6, ReadStep
<1>9. CASE ~ProbeFree(r.cl) /\ ~(r.cl < LastCluster) /\ r.first # 0
  <2>1. PICK q : q = [r EXCEPT !.pc = "free", !.cl = r.first, !.op = "undo"]
    OBVIOUS
  <2>2. /\ Stringing(fat, r, B) /\ r.n > 0 /\ Proper(fat, r.first, r.n) /\ B = Chain(fat, r.first)
        /\ r.n \in Nat /\ r.first \in Cluster /\ Reads(d, q)
    BY <1>3, <1>4, <1>9, <2>1 DEF Asking, Stringing, Strung, Local
  <2>3. q \in Local /\ q.op = "undo" /\ q.pc = "free" /\ q.cl = r.first
    BY <1>4, <2>1, <2>2, UndoIs, Zenon
  <2>4. Freeing(fat, q, B)
    BY <2>2, <2>3 DEF Freeing
  <2>5. Stage(fat, blk, q, u, B) /\ ~HalfOf(q)
    BY <2>3, <2>4 DEF Stage, HalfOf
  <2>6. d \notin gone => AimedAt(blk, q, u)
    BY <1>3, <2>3, AimedStill
  <2> QED
    BY <1>1, <1>6, <2>2, <2>5, <2>6, ReadStep
<1>10. CASE ~ProbeFree(r.cl) /\ ~(r.cl < LastCluster) /\ r.first = 0
  <2>1. Reads(d, Idle)
    BY <1>3, <1>10
  <2>2. B = {}
    <3>1. ASSUME Proper(fat, r.first, r.n), r.n > 0 PROVE FALSE
      <4>1. r.first \in Cluster
        BY <3>1, ProperFacts
      <4> QED
        BY <1>10, <4>1, FatBounds
    <3> QED
      BY <1>4, <3>1 DEF Stringing, Strung
  <2> QED
    BY <1>1, <1>6, <2>1, <2>2, IdleIs, ReadStep
<1> QED
  BY <1>7, <1>8, <1>9, <1>10

LEMMA NextDataKept ==
    ASSUME NEW g, NEW w, NEW C, Follows(g, w, C), Intact, NEW d \in Driver, NextData(d)
    PROVE  UIInv'
<1>1. PICK r, u, B, s : r = drv[d] /\ u = ucwd[d] /\ B = C[d] /\ s = Walk(fat, r.first)
  OBVIOUS
<1>2. /\ r.pc = "next" /\ Stage(fat, blk, r, u, B) /\ (d \notin gone => AimedAt(blk, r, u))
      /\ Reads(d, IF fat[r.cl] \in Cluster /\ r.n < r.k THEN [r EXCEPT !.pc = "data", !.cl = fat[r.cl]]
                  ELSE [r EXCEPT !.pc = "entry"])
  BY <1>1, InnerFacts DEF NextData, InChain
<1>3. r \in Local /\ Filling(fat, blk, r, B)
  BY <1>2, StageAt
<1>4. /\ Proper(fat, r.first, r.k) /\ r.op = "create" /\ r.n \in 1..r.k /\ r.n \in Nat /\ r.k \in Nat
      /\ r.cl = s[r.n]
  BY <1>1, <1>2, <1>3 DEF Filling, Making, Local
<1>5. r.n < r.k => fat[r.cl] = s[r.n + 1] /\ fat[r.cl] \in Cluster
  BY <1>1, <1>4, ChainNext
<1>6. ~HalfOf(r)
  BY <1>4 DEF HalfOf
<1>7. "data" \in Pcs /\ "entry" \in Pcs
  BY PcIs
<1>8. CASE r.n < r.k
  <2>1. PICK c, q : c = fat[r.cl] /\ q = ClSet(r, "data", c)
    OBVIOUS
  <2>2. Reads(d, q) /\ c \in Cluster /\ c = s[r.n + 1]
    BY <1>2, <1>5, <1>8, <2>1 DEF ClSet
  <2>3. /\ q \in Local /\ q.op = r.op /\ q.pc = "data" /\ q.slot = r.slot /\ q.cl = c
        /\ q.k = r.k /\ q.v = r.v /\ q.first = r.first /\ q.n = r.n
    <3>1. r \in Local /\ c \in Cluster /\ "data" \in Pcs
      BY <1>3, <1>7, <2>2
    <3> QED
      BY <2>1, <3>1, ClTo
  <2>4. Filling(fat, blk, q, B)
    BY <1>1, <1>3, <1>8, <2>2, <2>3 DEF Filling, Making
  <2>5. Stage(fat, blk, q, u, B) /\ ~HalfOf(q)
    BY <1>4, <2>3, <2>4 DEF Stage, HalfOf
  <2>6. d \notin gone => AimedAt(blk, q, u)
    BY <1>2, <2>3, AimedStill
  <2> QED
    BY <1>1, <1>6, <2>2, <2>5, <2>6, ReadStep
<1>9. CASE ~(r.n < r.k)
  <2>1. PICK q : q = [r EXCEPT !.pc = "entry"]
    OBVIOUS
  <2>2. Reads(d, q) /\ r.n = r.k
    BY <1>2, <1>4, <1>9, <2>1
  <2>3. /\ q \in Local /\ q.op = r.op /\ q.pc = "entry" /\ q.slot = r.slot /\ q.cl = r.cl
        /\ q.k = r.k /\ q.v = r.v /\ q.first = r.first /\ q.n = r.n
    BY <1>3, <1>7, <2>1, PcTo
  <2>4. Filling(fat, blk, q, B)
    BY <1>3, <2>2, <2>3 DEF Filling, Making
  <2>5. Stage(fat, blk, q, u, B) /\ ~HalfOf(q)
    BY <1>4, <2>3, <2>4 DEF Stage, HalfOf
  <2>6. d \notin gone => AimedAt(blk, q, u)
    BY <1>2, <2>3, AimedStill
  <2> QED
    BY <1>1, <1>6, <2>2, <2>5, <2>6, ReadStep
<1> QED
  BY <1>8, <1>9

LEMMA ReadEntryKept ==
    ASSUME NEW g, NEW w, NEW C, Follows(g, w, C), Intact, NEW d \in Driver, ReadEntry(d)
    PROVE  UIInv'
<1>1. PICK r, u, B, ent : r = drv[d] /\ u = ucwd[d] /\ B = C[d] /\ ent = blk[u].ent
  OBVIOUS
<1>2. PICK q : q = [r EXCEPT !.pc = "save", !.sec = ent]
  OBVIOUS
<1>3. /\ r.pc = "entry" /\ Stage(fat, blk, r, u, B) /\ (d \notin gone => AimedAt(blk, r, u))
      /\ Reads(d, q) /\ ent \in [Slots -> Entry]
  BY <1>1, <1>2, InnerFacts DEF ReadEntry
<1>4. r \in Local /\ (Filling(fat, blk, r, B) \/ Blocking(fat, blk, r, u, B))
  BY <1>3, StageAt
<1>5. /\ q \in Local /\ q.op = r.op /\ q.pc = "save" /\ q.slot = r.slot /\ q.cl = r.cl
      /\ q.k = r.k /\ q.v = r.v /\ q.first = r.first /\ q.n = r.n
  <2>1. r \in Local /\ ent \in [Slots -> Entry]
    BY <1>3, <1>4
  <2> QED
    BY <1>2, <2>1, SecIs, ZenonT(60)
<1>6. Filling(fat, blk, r, B) => Filling(fat, blk, q, B)
  BY <1>3, <1>5 DEF Filling, Making
<1>7. Blocking(fat, blk, r, u, B) => Blocking(fat, blk, q, u, B)
  BY <1>3, <1>5 DEF Blocking, Waits, FatPc
<1>8. r.op \in {"create", "mkdir"}
  BY <1>4 DEF Filling, Blocking, Making
<1>9. Stage(fat, blk, q, u, B) /\ ~HalfOf(q) /\ ~HalfOf(r)
  BY <1>4, <1>5, <1>6, <1>7, <1>8 DEF Stage, HalfOf
<1>10. d \notin gone => AimedAt(blk, q, u)
  BY <1>3, <1>5, AimedStill
<1> QED
  BY <1>1, <1>3, <1>9, <1>10, ReadStep

(* The scan finds something with the name it looks for.                    *)
LEMMA Matched ==
    ASSUME NEW ent, NEW nm, NEW ks, NEW M, M = Matches(ent, nm, ks), M # {}
    PROVE  Least(M) \in Slots /\ ent[Least(M)].kind \in ks /\ ent[Least(M)].name = nm
<1>1. M \subseteq Slots /\ M \subseteq Nat /\ \A i \in M : ent[i].kind \in ks /\ ent[i].name = nm
  BY SlotsNat DEF Matches, Scanned
<1>2. Least(M) \in M
  BY <1>1, LeastIs
<1> QED
  BY <1>1, <1>2

LEMMA FindKept ==
    ASSUME NEW g, NEW w, NEW C, Follows(g, w, C), Intact, NEW d \in Driver, Find(d)
    PROVE  UIInv'
<1>1. PICK r, u, B, ent : r = drv[d] /\ u = ucwd[d] /\ B = C[d] /\ ent = blk[u].ent
  OBVIOUS
<1>2. PICK M, i, cl : M = Matches(ent, r.nm, Wanted(r.op)) /\ i = Least(M) /\ cl = ent[i].cl
  OBVIOUS
<1>3. PICK pc : pc = CASE r.op = "mv" -> "rename"
                       [] r.op = "rmdir" -> "check"
                       [] r.op = "rm" -> IF cl \in Cluster THEN "free" ELSE "erase"
  OBVIOUS
<1>4. PICK q : q = HitSet(r, i, ent, cl, pc)
  OBVIOUS
<1>5. /\ r.pc = "find" /\ Stage(fat, blk, r, u, B) /\ (d \notin gone => AimedAt(blk, r, u))
      /\ Reads(d, IF M = {} THEN Idle ELSE q) /\ ent \in [Slots -> Entry]
  <2>1. r.pc = "find" /\ Reads(d, IF M = {} THEN Idle ELSE q)
    BY <1>1, <1>2, <1>3, <1>4, Zenon DEF Find, InChain, HitSet
  <2> QED
    BY <1>1, <2>1, InnerFacts
<1>6. r \in Local /\ Searching(r) /\ B = {}
  BY <1>5, StageAt
<1>7. ~HalfOf(r)
  BY <1>5 DEF HalfOf, FatPc
<1>8. CASE M = {}
  BY <1>1, <1>5, <1>6, <1>7, <1>8, IdleIs, ReadStep
<1>9. CASE M # {}
  <2>1. i \in Slots /\ ent[i].kind \in Wanted(r.op) /\ ent[i] \in Entry
    BY <1>2, <1>5, <1>9, Matched
  <2>2. r.op \in {"rm", "rmdir", "mv"} /\ (r.op = "mv" => r.v \in Short)
    BY <1>6 DEF Searching
  <2>3. Live(ent[i]) /\ cl \in Cluster \cup {0}
    BY <1>2, <2>1, <2>2, EntryFacts DEF Wanted, AnyKind, Live
  <2>4. /\ r.op = "mv" => pc = "rename"
        /\ r.op = "rmdir" => pc = "check"
        /\ r.op = "rm" => pc = IF cl \in Cluster THEN "free" ELSE "erase"
    BY <1>3
  <2>5. pc \in Pcs
    BY <2>2, <2>4, PcIs
  <2>6. q \in Local /\ q.op = r.op /\ q.pc = pc /\ q.v = r.v /\ q.slot = i /\ q.cl = cl /\ q.sec = ent
    <3>1. r \in Local /\ i \in Slots /\ ent \in [Slots -> Entry] /\ cl \in Cluster \cup {0} /\ pc \in Pcs
      BY <1>5, <1>6, <2>1, <2>3, <2>5
    <3> QED
      BY <1>4, <3>1, FoundIs
  <2>7. Found(q) /\ Hit(q) = cl
    BY <1>2, <1>5, <2>1, <2>3, <2>6 DEF Found, Hit
  <2>8. ~HalfOf(q) /\ Unladen(q)
    <3>1. CASE r.op = "mv"
      BY <2>2, <2>4, <2>6, <2>7, <3>1 DEF HalfOf, Unladen, Naming
    <3>2. CASE r.op = "rmdir"
      BY <2>2, <2>4, <2>6, <2>7, <3>2 DEF HalfOf, Unladen, Looking, FatPc
    <3>3. CASE r.op = "rm" /\ cl \in Cluster
      BY <2>2, <2>4, <2>6, <2>7, <3>3 DEF HalfOf, Unladen, Aiming, FatPc
    <3>4. CASE r.op = "rm" /\ cl \notin Cluster
      BY <2>2, <2>4, <2>6, <2>7, <3>4 DEF HalfOf, Unladen, Leaving, FatPc
    <3> QED
      BY <2>2, <3>1, <3>2, <3>3, <3>4
  <2>9. Stage(fat, blk, q, u, B) /\ AimedAt(blk, q, u)
    BY <1>6, <2>2, <2>6, <2>8 DEF Stage, AimedAt
  <2> QED
    BY <1>1, <1>5, <1>7, <1>9, <2>8, <2>9, ReadStep
<1> QED
  BY <1>8, <1>9

LEMMA CheckKept ==
    ASSUME NEW g, NEW w, NEW C, Follows(g, w, C), Intact, NEW d \in Driver, Check(d)
    PROVE  UIInv'
<1>1. PICK r, u, B : r = drv[d] /\ u = ucwd[d] /\ B = C[d]
  OBVIOUS
<1>2. PICK q : q = [r EXCEPT !.pc = "free"]
  OBVIOUS
<1>3. /\ r.pc = "check" /\ Stage(fat, blk, r, u, B) /\ Reads(d, IF HasEntries(r.cl) THEN Idle ELSE q)
  BY <1>1, <1>2, InnerFacts DEF Check
<1>4. r \in Local /\ Looking(r) /\ B = {}
  BY <1>3, StageAt
<1>5. ~HalfOf(r)
  BY <1>3 DEF HalfOf, FatPc
<1>6. CASE HasEntries(r.cl)
  BY <1>1, <1>3, <1>4, <1>5, <1>6, IdleIs, ReadStep
<1>7. CASE ~HasEntries(r.cl)
  <2>1. "free" \in Pcs
    BY PcIs
  <2>2. /\ q \in Local /\ q.op = r.op /\ q.pc = "free" /\ q.slot = r.slot /\ q.cl = r.cl /\ q.sec = r.sec
    BY <1>2, <1>4, <2>1, PcTo
  <2>3. Found(q) /\ Hit(q) = Hit(r) /\ q.op = "rmdir" /\ q.cl = Hit(q)
    BY <1>4, <2>2 DEF Looking, Found, Hit
  <2>4. Hit(q) \in Cluster
    <3>1. q.sec[q.slot] \in Entry /\ q.sec[q.slot].kind = "dir"
      BY <2>3 DEF Found, Wanted
    <3> QED
      BY <3>1, EntryFacts DEF Hit
  <2>5. Unladen(q) /\ ~HalfOf(q)
    BY <2>2, <2>3, <2>4 DEF Unladen, Aiming, HalfOf, FatPc
  <2>6. Stage(fat, blk, q, u, B) /\ AimedAt(blk, q, u)
    BY <1>4, <2>2, <2>3, <2>5 DEF Stage, AimedAt
  <2> QED
    BY <1>1, <1>3, <1>5, <1>7, <2>5, <2>6, ReadStep
<1> QED
  BY <1>6, <1>7

LEMMA SetFreeIs ==
    ASSUME NEW s \in Local, NEW x \in Cluster, NEW then \in Pcs, NEW q, q = SetFat(s, x, Free, then)
    PROVE  /\ q \in Local /\ q.op = s.op /\ q.pc = "fat_read" /\ q.slot = s.slot /\ q.cl = s.cl
           /\ q.tgt = x /\ q.value = Free /\ q.then = then /\ q.sec = s.sec
<1>1. Free \in Cluster \cup {Free, Eoc}
  OBVIOUS
<1> QED
  BY <1>1, SetFatIs

LEMMA FreeNextKept ==
    ASSUME NEW g, NEW w, NEW C, Follows(g, w, C), Intact, NEW d \in Driver, FreeNext(d)
    PROVE  UIInv'
<1>1. PICK r, u, B, nx : r = drv[d] /\ u = ucwd[d] /\ B = C[d] /\ nx = fat[r.cl]
  OBVIOUS
<1>2. PICK s : s = [r EXCEPT !.cl = IF nx \in Cluster THEN nx ELSE r.cl]
  OBVIOUS
<1>3. PICK then : then = IF nx \in Cluster THEN "free" ELSE Back(r.op)
  OBVIOUS
<1>4. PICK q : q = SetFat(s, r.cl, Free, then)
  OBVIOUS
<1>5. /\ r.pc = "free" /\ Stage(fat, blk, r, u, B) /\ (d \notin gone => AimedAt(blk, r, u))
      /\ Reads(d, q) /\ fat \in Tables
  <2>1. r.pc = "free" /\ Reads(d, q)
    BY <1>1, <1>2, <1>3, <1>4 DEF FreeNext, InChain, Back
  <2> QED
    BY <1>1, <2>1, InnerFacts
<1>6. r \in Local /\ ((Aiming(r) /\ B = {}) \/ Freeing(fat, r, B))
  BY <1>5, StageAt
<1>7. r.cl \in Cluster /\ r.op \in {"undo", "rm", "rmdir"}
  BY <1>5, <1>6 DEF Aiming, Freeing, Waits, FatPc
<1>8. then \in Pcs
  BY <1>3, PcIs DEF Back
<1>9. PICK cl \in Cluster : cl = IF nx \in Cluster THEN nx ELSE r.cl
  BY <1>7
<1>10. s \in Local /\ s.op = r.op /\ s.slot = r.slot /\ s.cl = cl /\ s.sec = r.sec
  BY <1>2, <1>6, <1>9, ClOnlyTo
<1>11. /\ q \in Local /\ q.op = r.op /\ q.pc = "fat_read" /\ q.slot = r.slot /\ q.cl = cl
       /\ q.tgt = r.cl /\ q.value = Free /\ q.then = then /\ q.sec = r.sec
  <2>1. s \in Local /\ then \in Pcs
    BY <1>8, <1>10
  <2>2. PICK x \in Cluster : x = r.cl
    BY <1>7
  <2>3. q = SetFat(s, x, Free, then)
    BY <1>4, <2>2
  <2>4. /\ q \in Local /\ q.op = s.op /\ q.pc = "fat_read" /\ q.slot = s.slot /\ q.cl = s.cl
        /\ q.tgt = x /\ q.value = Free /\ q.then = then /\ q.sec = s.sec
    BY <2>1, <2>3, SetFreeIs
  <2> QED
    BY <1>10, <2>2, <2>4
<1>12. Hit(q) = Hit(r) /\ (Found(q) <=> Found(r)) /\ Waits(q, r.cl, Free, then)
  BY <1>11 DEF Hit, Found, Waits, FatPc
<1>13. CASE Aiming(r) /\ B = {}
  <2>1. Found(r) /\ Hit(r) \in Cluster /\ r.cl = Hit(r) /\ r.op \in {"rm", "rmdir"}
    BY <1>5, <1>13 DEF Aiming, Waits, FatPc
  <2>2. Aiming(q)
    BY <1>3, <1>9, <1>11, <1>12, <2>1 DEF Aiming, Back
  <2>3. ~HalfOf(r) /\ ~HalfOf(q)
    BY <1>5, <1>11, <1>12, <2>1 DEF HalfOf, FatPc
  <2>4. Stage(fat, blk, q, u, B) /\ AimedAt(blk, q, u)
    BY <1>11, <1>13, <2>1, <2>2 DEF Stage, Unladen, AimedAt
  <2> QED
    BY <1>1, <1>5, <2>3, <2>4, ReadStep
<1>14. CASE Freeing(fat, r, B)
  <2>1. /\ B = Chain(fat, r.cl)
        /\ r.op = "undo" \/ (r.op \in {"rm", "rmdir"} /\ Found(r) /\ Hit(r) \in Cluster /\ Hit(r) \notin B)
    BY <1>5, <1>14 DEF Freeing, Waits, FatPc
  <2>2. PICK m \in Nat : m > 0 /\ Proper(fat, r.cl, m)
    BY <1>5, <1>14 DEF Freeing, Waits, FatPc
  <2>3. /\ nx \in Cluster =>
             /\ m - 1 \in Nat /\ m - 1 > 0 /\ Proper(fat, nx, m - 1) /\ r.cl \notin Chain(fat, nx)
             /\ Chain(fat, r.cl) = {r.cl} \cup Chain(fat, nx)
        /\ nx \notin Cluster => fat[r.cl] = Eoc /\ Chain(fat, r.cl) = {r.cl}
    BY <1>1, <2>2, ChainTail
  <2>4. r.cl \in B
    BY <2>1, <2>2, ProperFacts
  <2>5. Freeing(fat, q, B)
    <3>1. CASE nx \in Cluster
      <4>1. cl = nx /\ then = "free"
        BY <1>3, <1>9, <3>1
      <4> QED
        BY <1>1, <1>7, <1>11, <1>12, <2>1, <2>3, <3>1, <4>1 DEF Freeing
    <3>2. CASE nx \notin Cluster
      <4>1. cl = r.cl /\ then = Back(r.op)
        BY <1>3, <1>9, <3>2
      <4> QED
        BY <1>7, <1>11, <1>12, <2>1, <2>3, <3>2, <4>1 DEF Freeing
    <3> QED
      BY <3>1, <3>2
  <2>6. HalfOf(q) <=> HalfOf(r)
    BY <1>5, <1>11, <1>12, <2>1, <2>4 DEF HalfOf, FatPc
  <2>7. Stage(fat, blk, q, u, B) /\ AimedAt(blk, q, u)
    BY <1>7, <1>11, <2>5 DEF Stage, AimedAt
  <2> QED
    BY <1>1, <1>5, <1>11, <2>6, <2>7, ReadStep
<1> QED
  BY <1>6, <1>13, <1>14

-----------------------------------------------------------------------------
(* The drivers' steps that write                                           *)

(* What one driver's step to f2, g2, with B2 then in its hands, does to     *)
(* what is taken                                                           *)
Settles(f, g, B, f2, g2, B2) ==
    /\ \A c \in B2 : f2[c] # Free /\ g2[c] = Free /\ (c \in B \/ f[c] = Free \/ g[c] # Free)
    /\ \A c \in Cluster : f2[c] # Free /\ g2[c] = Free =>
          c \in B2 \/ (f[c] # Free /\ g[c] = Free /\ c \notin B)

(* Only one driver's part of an array changes.                             *)
Turned(D, D2, d, q) == D2[d] = q /\ \A e \in Driver \ {d} : D2[e] = D[e]

LEMMA MoveKept ==
    ASSUME NEW f, NEW b, NEW D, NEW U, NEW P, NEW k, NEW G, NEW K, NEW g, NEW w, NEW C,
           Inner(f, b, D, U, P, k, G, K, g, w, C),
           NEW d \in Driver, NEW W, W = Driver \ {d}, NEW q, NEW B2,
           NEW f2 \in Tables, NEW b2 \in [Dirs -> Block], NEW G2, NEW g2, NEW w2,
           NEW D2 \in [Driver -> {Idle} \cup Local], Turned(D, D2, d, q),
           NEW C2 \in [Driver -> SUBSET Cluster], Turned(C, C2, d, B2),
           Spared(f, b, C, f2, b2, g2, W), Settles(f, g, C[d], f2, g2, B2), Stage(f2, b2, q, U[d], B2),
           Settled(g2, w2), Relates(f2, b2, g2, w2, DyingOf(D2, U)), Bare(f2, b2),
           Halves(b2, D2, U, LiveDirsOf(g2, w2)),
           Told(U, G, G2, LiveDirsOf(g, w), LiveDirsOf(g2, w2)),
           Marked(b, b2, LiveDirsOf(g, w), LiveDirsOf(g2, w2)),
           Kernel \notin G2 => k \in LiveDirsOf(g2, w2),
           d \notin G2 => AimedAt(b2, q, U[d])
    PROVE  Inner(f2, b2, D2, U, P, k, G2, K, g2, w2, C2)
<1>1. k \in Dirs
  BY DEF Inner
<1>2. W \in SUBSET Driver /\ d \in Driver \ W /\ \A e \in Driver \ W : e = d
  OBVIOUS
<1>3. \A e, x \in Driver \ W : e = x
  OBVIOUS
<1>4. D2[d] = q /\ C2[d] = B2 /\ \A e \in W : D2[e] = D[e] /\ C2[e] = C[e]
  BY DEF Turned
<1>5. \A e \in Driver \ W : Stage(f2, b2, D2[e], U[e], C2[e])
  BY <1>2, <1>4
<1>6. Accounted(f, g, C, f2, g2, C2, W)
  BY <1>2, <1>4 DEF Settles, Accounted
<1>7. \A e \in Driver \ (W \cup G2) : AimedAt(b2, D2[e], U[e])
  BY <1>2, <1>4
<1> QED
  BY <1>1, <1>2, <1>3, <1>4, <1>5, <1>6, <1>7, StepKept

(* One cluster of the disk changes,                                             *)
Touched(f, b, f2, b2, t) ==
    /\ \A c \in Cluster \ {t} : f2[c] = f[c]
    /\ \A x \in Dirs \ {t} : x = Root \/ f[x] # Free => b2[x] = b[x]
    /\ f2[t] # Free /\ b2[t].is = "dir" => \A i \in Slots : ~Live(b2[t].ent[i])

(* and what the driver has in its hands by that cluster.                   *)
Grips(B, B2, t, f2) == B2 \subseteq B \cup {t} /\ B \subseteq B2 \cup {t} /\ (t \in B2 <=> f2[t] # Free)
SameHalf(r, q) == (HalfOf(q) <=> HalfOf(r)) /\ (HalfOf(q) => q.slot = r.slot)

(* Only cluster t is changed, which is the driver's own or was free.       *)
LEMMA BusyKept ==
    ASSUME NEW f, NEW b, NEW D, NEW U, NEW P, NEW k, NEW G, NEW K, NEW g, NEW w, NEW C,
           Inner(f, b, D, U, P, k, G, K, g, w, C),
           NEW d \in Driver, NEW q, NEW B2, NEW t \in Cluster, t \in C[d] \/ f[t] = Free,
           NEW f2 \in Tables, NEW b2 \in [Dirs -> Block], NEW G2, G \subseteq G2,
           Touched(f, b, f2, b2, t), Bare(f2, b2), Stage(f2, b2, q, U[d], B2), Grips(C[d], B2, t, f2),
           SameHalf(D[d], q), d \notin G => AimedAt(b, q, U[d]),
           NEW D2 \in [Driver -> {Idle} \cup Local], Turned(D, D2, d, q),
           NEW C2 \in [Driver -> SUBSET Cluster], Turned(C, C2, d, B2)
    PROVE  Inner(f2, b2, D2, U, P, k, G2, K, g, w, C2)
<1> USE DEF Turned, Touched, Grips, SameHalf
<1>1. D2[d] = q /\ C2[d] = B2 /\ \A e \in Driver \ {d} : D2[e] = D[e] /\ C2[e] = C[e]
  OBVIOUS
<1>2. /\ D \in [Driver -> {Idle} \cup Local] /\ C \in [Driver -> SUBSET Cluster] /\ U \in [Driver -> Dirs]
      /\ Settled(g, w) /\ Relates(f, b, g, w, DyingOf(D, U)) /\ Apart(f, g, C)
      /\ Halves(b, D, U, LiveDirsOf(g, w))
      /\ Dwelling(b, U, P, k, G, LiveDirsOf(g, w))
  BY DEF Inner
<1>3. /\ \A e \in Driver : \A c \in C[e] : f[c] # Free /\ g[c] = Free
      /\ \A e \in Driver \ {d} : C[e] \cap C[d] = {}
  BY <1>2 DEF Apart
<1>4. \A c \in Cluster : g[c] # Free => f[c] # Free
  BY <1>2 DEF Relates
<1>5. g[t] = Free /\ \A e \in Driver \ {d} : t \notin C[e]
  BY <1>3, <1>4
<1>6. Root \notin Cluster /\ Cluster \subseteq Dirs /\ Root \in Dirs
  BY FatBounds DEF Dirs
<1>7. \A e \in Driver \ {d} : \A c \in C[e] : f2[c] = f[c] /\ b2[c] = b[c] /\ g[c] = Free
  <2> SUFFICES ASSUME NEW e \in Driver \ {d}, NEW c \in C[e]
               PROVE  f2[c] = f[c] /\ b2[c] = b[c] /\ g[c] = Free
    OBVIOUS
  <2>1. c \in Cluster /\ c # t /\ f[c] # Free /\ g[c] = Free
    BY <1>2, <1>3, <1>5
  <2> QED
    BY <1>6, <2>1
<1>8. \A e \in Driver : /\ HalfOf(D2[e]) <=> HalfOf(D[e])
                        /\ HalfOf(D2[e]) => D2[e].slot = D[e].slot
  <2>1. D2[d] = q /\ \A e \in Driver \ {d} : D2[e] = D[e]
    BY <1>1, <1>2
  <2> QED
    BY <2>1
<1>9. DyingOf(D2, U) = DyingOf(D, U)
  BY <1>8, DyingSame
<1>10. /\ \A c \in Cluster : g[c] # Free => f2[c] = f[c] /\ b2[c] = b[c]
       /\ b2[Root] = b[Root]
  <2>1. \A c \in Cluster : g[c] # Free => c # t /\ f[c] # Free
    BY <1>4, <1>5
  <2> QED
    BY <1>6, <2>1
<1>11. \A x \in LiveDirsOf(g, w) : b2[x] = b[x]
  BY <1>10 DEF LiveDirsOf
<1>12. \A c \in Cluster : g[c] = Free /\ f2[c] # Free /\ b2[c].is = "dir" =>
          \A i \in Slots : ~Live(b2[c].ent[i])
  <2> SUFFICES ASSUME NEW c \in Cluster, g[c] = Free, f2[c] # Free, b2[c].is = "dir", c # t
               PROVE  \A i \in Slots : ~Live(b2[c].ent[i])
    OBVIOUS
  <2>1. f[c] # Free /\ b2[c] = b[c]
    BY <1>6
  <2> QED
    BY <1>2, <2>1 DEF Relates
<1>13. Relates(f2, b2, g, w, DyingOf(D2, U))
  BY <1>2, <1>9, <1>10, <1>12, RelatesAside DEF Settled
<1>14. Halves(b2, D2, U, LiveDirsOf(g, w))
  <2>1. \A e \in Driver : HalfOf(D2[e]) =>
           /\ U[e] \in LiveDirsOf(g, w) /\ Live(b[U[e]].ent[D2[e].slot]) /\ b2[U[e]] = b[U[e]]
    BY <1>2, <1>8, <1>11 DEF Halves
  <2> QED
    BY <1>2, <1>8, <2>1, HalvesKept
<1>15. \A c \in B2 : f2[c] # Free /\ g[c] = Free /\ (c \in C[d] \/ f[c] = Free)
  <2> SUFFICES ASSUME NEW c \in B2, c # t PROVE f2[c] # Free /\ g[c] = Free /\ c \in C[d]
    BY <1>5
  <2>1. c \in C[d] /\ c \in Cluster
    BY <1>2
  <2> QED
    BY <1>3, <2>1
<1>16. B2 \in SUBSET Cluster
  BY <1>2
<1>17. \A c \in Cluster : f2[c] # Free /\ g[c] = Free =>
          c \in B2 \/ (f[c] # Free /\ g[c] = Free /\ c \notin C[d])
  <2> SUFFICES ASSUME NEW c \in Cluster, f2[c] # Free, g[c] = Free, c \notin B2
               PROVE  f[c] # Free /\ c \notin C[d]
    OBVIOUS
  <2>1. c # t
    OBVIOUS
  <2> QED
    BY <2>1
<1>18. Kernel \notin G2 => k \in LiveDirsOf(g, w)
  BY <1>2 DEF Dwelling
<1>19. d \notin G2 => AimedAt(b2, q, U[d])
  <2> SUFFICES ASSUME d \notin G2 PROVE AimedAt(b2, q, U[d])
    OBVIOUS
  <2>1. d \notin G /\ AimedAt(b, q, U[d])
    OBVIOUS
  <2>2. b2[U[d]] = b[U[d]]
    BY <1>2, <1>11, <2>1 DEF Dwelling
  <2> QED
    BY <2>1, <2>2 DEF AimedAt
<1> HIDE DEF Turned, Touched, Grips, SameHalf
<1>20. PICK W : W = Driver \ {d}
  OBVIOUS
<1>22. Spared(f, b, C, f2, b2, g, W)
  BY <1>7, <1>20 DEF Spared
<1>23. Settles(f, g, C[d], f2, g, B2)
  BY <1>15, <1>17 DEF Settles
<1>25. Told(U, G, G2, LiveDirsOf(g, w), LiveDirsOf(g, w))
  BY DEF Told
<1>26. Marked(b, b2, LiveDirsOf(g, w), LiveDirsOf(g, w))
  BY <1>11 DEF Marked
<1>27. Settled(g, w)
  BY <1>2
<1> QED
  BY <1>13, <1>14, <1>18, <1>19, <1>20, <1>22, <1>23, <1>25, <1>26, <1>27, MoveKept

(* What damages the disk by a race is out of the model's reach.            *)
LEMMA RaceIs == damage' \in {"race", "stale_cwd"} \cup DotCauses => UIInv'
<1> SUFFICES ASSUME damage' \in {"race", "stale_cwd"} \cup DotCauses PROVE UIInv'
  OBVIOUS
<1>1. Raced' /\ ~Intact'
  BY DEF Raced, Intact, DotCauses
<1>2. UNoSharedCluster' /\ ULeakCause' /\ UFilesReadBack' /\ ParentExact'
  BY <1>1 DEF UNoSharedCluster, ULeakCause, UFilesReadBack, ParentExact
<1> QED
  BY <1>1, <1>2 DEF UIInv, Promises

LEMMA GoodIs ==
    ASSUME Intact', NEW g, NEW w, NEW C,
           Inner(fat', blk', drv', ucwd', uparent', cwd', gone', killed', g, w, C)
    PROVE  UIInv'
<1>1. Follows(g, w, C)'
  BY DEF Follows
<1> QED
  BY <1>1 DEF UIInv, Followed

(* A driver writes, and what it makes of the disk is followed.             *)
LEMMA WriteStep ==
    ASSUME NEW g, NEW w, NEW C, Follows(g, w, C), Intact, NEW d \in Driver, NEW q, NEW f2, NEW b2,
           Writes(d, q, f2, b2), ~OutOfDate(d), NEW D2, D2 = [drv EXCEPT ![d] = q],
           NEW G2, G2 = Lost(f2, b2),
           NEW g2, NEW w2, NEW C2,
           Inner(f2, b2, D2, ucwd, uparent, cwd, G2, killed, g2, w2, C2)
    PROVE  UIInv'
<1>1. /\ drv' = D2 /\ fat' = f2 /\ blk' = b2 /\ ucwd' = ucwd /\ uparent' = uparent /\ cwd' = cwd
      /\ gone' = G2 /\ killed' = killed /\ Intact'
  BY DEF Writes, Goto, Calm, Intact
<1> QED
  BY <1>1, GoodIs

(* What a driver has in its hands changes by cluster t at most.            *)
LEMMA BusyStep ==
    ASSUME NEW g, NEW w, NEW C, Follows(g, w, C), Intact, NEW d \in Driver, NEW q, NEW f2 \in Tables,
           NEW b2 \in [Dirs -> Block], Writes(d, q, f2, b2), ~OutOfDate(d),
           NEW B2, NEW t \in Cluster, t \in C[d] \/ fat[t] = Free,
           Touched(fat, blk, f2, b2, t), Bare(f2, b2), Stage(f2, b2, q, ucwd[d], B2),
           Grips(C[d], B2, t, f2), SameHalf(drv[d], q), d \notin gone => AimedAt(blk, q, ucwd[d])
    PROVE  UIInv'
<1>1. PICK D2, C2, G2 : D2 = [drv EXCEPT ![d] = q] /\ C2 = [C EXCEPT ![d] = B2] /\ G2 = Lost(f2, b2)
  OBVIOUS
<1>2. drv \in [Driver -> {Idle} \cup Local] /\ C \in [Driver -> SUBSET Cluster]
  BY DEF Follows, Inner
<1>3. q \in {Idle} \cup Local /\ B2 \in SUBSET Cluster
  BY <1>2 DEF Stage, Grips
<1>4. /\ D2 \in [Driver -> {Idle} \cup Local] /\ Turned(drv, D2, d, q)
      /\ C2 \in [Driver -> SUBSET Cluster] /\ Turned(C, C2, d, B2)
  BY <1>1, <1>2, <1>3 DEF Turned
<1>5. gone \subseteq G2
  BY <1>1 DEF Lost
<1>6. Inner(f2, b2, D2, ucwd, uparent, cwd, G2, killed, g, w, C2)
  BY <1>4, <1>5, BusyKept DEF Follows
<1> QED
  BY <1>1, <1>6, WriteStep

(* One FAT entry is written.                                               *)
FatEdit(f, b, t, v, f2, b2) ==
    /\ f2 \in Tables /\ b2 \in [Dirs -> Block] /\ Bare(f2, b2)
    /\ f2[t] = v /\ \A c \in Cluster \ {t} : f2[c] = f[c]
    /\ \A x \in Dirs \ {t} : x = Root \/ f[x] # Free => b2[x] = b[x]
    /\ v # Free => b2[t] = b[t]
    /\ v = Free => b2[t] = Unread

LEMMA FatEditIs ==
    ASSUME NEW g, NEW w, NEW C, Follows(g, w, C), NEW d \in Driver, FatWrite(d), ~OutOfDate(d)
    PROVE  /\ drv[d] \in Local /\ drv[d].pc = "fat_write" /\ drv[d].tgt \in Cluster
           /\ \E f2, b2 : /\ FatEdit(fat, blk, drv[d].tgt, drv[d].value, f2, b2)
                          /\ Writes(d, Resume(drv[d]), f2, b2)
<1>1. PICK r, u, B : r = drv[d] /\ u = ucwd[d] /\ B = C[d]
  OBVIOUS
<1>2. r.pc = "fat_write" /\ r.buf = fat
  BY <1>1 DEF FatWrite, OutOfDate
<1>3. fat \in Tables /\ blk \in [Dirs -> Block] /\ Stage(fat, blk, r, u, B)
  BY <1>1, InnerFacts
<1>4. r \in Local /\ r.pc \in FatPc
  BY <1>2, <1>3, StageAt DEF FatPc
<1>5. r.tgt \in Cluster
  <2>1. CASE Asking(r) \/ Aiming(r)
    BY <1>2, <2>1 DEF Asking, Aiming, Waits
  <2>2. CASE Stringing(fat, r, B)
    BY <1>2, <2>2 DEF Stringing, Waits
  <2>3. CASE Linking(fat, r, B)
    <3>1. PICK m \in Nat : m > 0 /\ Proper(fat, r.first, m) /\ Walk(fat, r.first)[m] = r.tgt
      BY <2>3 DEF Linking
    <3> QED
      BY <3>1, ChainNext
  <2>4. CASE Blocking(fat, blk, r, u, B)
    BY <1>2, <2>4 DEF Blocking, Waits
  <2>5. CASE Freeing(fat, r, B)
    BY <1>2, <2>5 DEF Freeing, Waits
  <2> QED
    BY <1>3, <1>4, <2>1, <2>2, <2>3, <2>4, <2>5, StageAt
<1>6. PICK t, v : t = r.tgt /\ v = r.value
  OBVIOUS
<1>7. PICK f2 : f2 = [fat EXCEPT ![t] = v]
  OBVIOUS
<1>8. PICK b2 : b2 = [x \in Dirs |-> IF x # Root /\ f2[x] = Free THEN Unread ELSE blk[x]]
  OBVIOUS
<1>9. Writes(d, Resume(r), f2, b2)
  BY <1>1, <1>2, <1>6, <1>7, <1>8 DEF FatWrite
<1>10. t \in Cluster /\ v \in Cluster \cup {Free, Eoc}
  BY <1>4, <1>5, <1>6 DEF Local
<1>11. f2 \in Tables /\ f2[t] = v /\ \A c \in Cluster \ {t} : f2[c] = fat[c]
  BY <1>3, <1>7, <1>10 DEF Tables
<1>12. b2 \in [Dirs -> Block]
  BY <1>3, <1>8, NewBlocks
<1>13. /\ Root \notin Cluster /\ Cluster \subseteq Dirs /\ Root \in Dirs
       /\ \A x \in Dirs : x # Root => x \in Cluster
  BY FatBounds DEF Dirs
<1>14. Bare(f2, b2)
  BY <1>8, <1>13, NewBlocks DEF Bare
<1>15. \A x \in Dirs \ {t} : x = Root \/ fat[x] # Free => b2[x] = blk[x]
  BY <1>8, <1>11, <1>13
<1>16. (v # Free => b2[t] = blk[t]) /\ (v = Free => b2[t] = Unread)
  BY <1>8, <1>10, <1>11, <1>13
<1>17. FatEdit(fat, blk, t, v, f2, b2)
  BY <1>11, <1>12, <1>14, <1>15, <1>16 DEF FatEdit
<1> QED
  BY <1>1, <1>2, <1>4, <1>5, <1>6, <1>9, <1>17

(* of a cluster that is the driver's own or free                           *)
LEMMA EditStep ==
    ASSUME NEW g, NEW w, NEW C, Follows(g, w, C), Intact, NEW d \in Driver, NEW q, NEW f2, NEW b2,
           NEW t \in Cluster, NEW v, FatEdit(fat, blk, t, v, f2, b2),
           Writes(d, q, f2, b2), ~OutOfDate(d), t \in C[d] \/ fat[t] = Free,
           NEW B2, Stage(f2, b2, q, ucwd[d], B2), Grips(C[d], B2, t, f2), SameHalf(drv[d], q),
           d \notin gone => AimedAt(blk, q, ucwd[d])
    PROVE  UIInv'
<1>1. /\ f2 \in Tables /\ b2 \in [Dirs -> Block] /\ Bare(f2, b2) /\ f2[t] = v
      /\ \A c \in Cluster \ {t} : f2[c] = fat[c]
      /\ \A x \in Dirs \ {t} : x = Root \/ fat[x] # Free => b2[x] = blk[x]
      /\ v # Free => b2[t] = blk[t]
  BY DEF FatEdit
<1>2. f2[t] # Free /\ b2[t].is = "dir" => \A i \in Slots : ~Live(b2[t].ent[i])
  <2> SUFFICES ASSUME v # Free, blk[t].is = "dir" PROVE \A i \in Slots : ~Live(blk[t].ent[i])
    BY <1>1
  <2>1. Bare(fat, blk) /\ Relates(fat, blk, g, w, DyingOf(drv, ucwd)) /\ Apart(fat, g, C)
    BY DEF Follows, Inner
  <2>2. fat[t] # Free
    BY <2>1 DEF Bare
  <2>3. g[t] = Free
    BY <2>1, <2>2 DEF Apart
  <2> QED
    BY <2>1, <2>2, <2>3 DEF Relates
<1>3. Touched(fat, blk, f2, b2, t)
  BY <1>1, <1>2 DEF Touched
<1> QED
  BY <1>1, <1>3, BusyStep

-----------------------------------------------------------------------------
(* Writing a FAT entry                                                     *)

(* A file goes on with its next cluster or with its contents.              *)
LEMMA OnwardIs ==
    ASSUME NEW r \in Local, r.first \in Cluster
    PROVE  LET q == Onward(r) IN
           /\ q \in Local /\ q.op = r.op /\ q.k = r.k /\ q.v = r.v /\ q.slot = r.slot
           /\ q.first = r.first /\ q.prev = r.prev
           /\ r.n < r.k => q.pc = "probe" /\ q.cl = 2 /\ q.n = r.n
           /\ ~(r.n < r.k) => q.pc = "data" /\ q.cl = r.first /\ q.n = 0
<1>1. 2 \in Cluster
  BY FatBounds DEF Cluster
<1>2. CASE r.n < r.k
  <2>1. PICK q : q = Onward(r)
    OBVIOUS
  <2>2. q = [
           op |-> r.op, pc |-> "probe", nm |-> r.nm, k |-> r.k, v |-> r.v, slot |-> r.slot,
           first |-> r.first, prev |-> r.prev, cl |-> 2, n |-> r.n, tgt |-> r.tgt,
           value |-> r.value, then |-> r.then, buf |-> r.buf, sec |-> r.sec]
    BY <1>2, <2>1 DEF Local, Onward
  <2>3. q \in Local
    BY <1>1, <2>2, PcIs DEF Local, Free
  <2> QED
    BY <1>2, <2>1, <2>2, <2>3
<1>3. CASE ~(r.n < r.k)
  <2>1. PICK q : q = Onward(r)
    OBVIOUS
  <2>2. q = [
           op |-> r.op, pc |-> "data", nm |-> r.nm, k |-> r.k, v |-> r.v, slot |-> r.slot,
           first |-> r.first, prev |-> r.prev, cl |-> r.first, n |-> 0, tgt |-> r.tgt,
           value |-> r.value, then |-> r.then, buf |-> r.buf, sec |-> r.sec]
    BY <1>3, <2>1 DEF Local, Onward
  <2>3. q \in Local
    BY <2>2, PcIs DEF Local, Free
  <2> QED
    BY <1>3, <2>1, <2>2, <2>3
<1> QED
  BY <1>2, <1>3

LEMMA ResumeTo ==
    ASSUME NEW r
    PROVE  /\ r.then = "idle" => Resume(r) = Idle
           /\ r.then = "taken" /\ r.op = "mkdir" => Resume(r) = [BackSet(r) EXCEPT !.pc = "block"]
           /\ r.then = "taken" /\ r.op = "create" => Resume(r) = Taken(BackSet(r))
           /\ r.then \notin {"idle", "taken"} => Resume(r) = BackSet(r)
<1>1. r.then = "idle" => Resume(r) = Idle
  BY DEF Resume
<1>2. r.then = "taken" /\ r.op = "mkdir" => Resume(r) = [BackSet(r) EXCEPT !.pc = "block"]
  BY DEF Resume, BackSet
<1>3. r.then = "taken" /\ r.op = "create" => Resume(r) = Taken(BackSet(r))
  BY DEF Resume, BackSet
<1>4. r.then \notin {"idle", "taken"} => Resume(r) = BackSet(r)
  BY DEF Resume, BackSet
<1> QED
  BY <1>1, <1>2, <1>3, <1>4

(* mkdir has its cluster.                                                  *)
LEMMA AskingWritten ==
    ASSUME NEW g, NEW w, NEW C, Follows(g, w, C), Intact, NEW d \in Driver, FatWrite(d), ~OutOfDate(d),
           Asking(drv[d]), C[d] = {}
    PROVE  UIInv'
<1>1. PICK r, u : r = drv[d] /\ u = ucwd[d]
  OBVIOUS
<1>2. PICK f2, b2 : FatEdit(fat, blk, r.tgt, r.value, f2, b2) /\ Writes(d, Resume(r), f2, b2)
  BY <1>1, FatEditIs
<1>3. /\ r \in Local /\ r.pc = "fat_write" /\ r.tgt = r.cl /\ r.value = Eoc /\ r.then = "taken"
      /\ r.op = "mkdir" /\ r.slot = 0 /\ r.cl \in Cluster
  BY <1>1, FatEditIs DEF Asking, Waits
<1>4. fat[r.cl] = Free /\ (d \notin gone => AimedAt(blk, r, u))
  BY <1>1, <1>3, InnerFacts DEF OutOfDate, ProbeFree
<1>5. PICK s, q : s = BackSet(r) /\ q = [s EXCEPT !.pc = "block"]
  OBVIOUS
<1>6. s \in Local /\ s.op = r.op /\ s.slot = r.slot /\ s.cl = r.cl
  BY <1>3, <1>5, ResumeIs
<1>7. q \in Local /\ q.op = "mkdir" /\ q.pc = "block" /\ q.slot = 0 /\ q.cl = r.cl
  BY <1>3, <1>5, <1>6, PcIs, PcTo
<1>8. Resume(r) = q
  BY <1>3, <1>5, ResumeTo
<1>9. f2[r.cl] = Eoc
  BY <1>2, <1>3 DEF FatEdit
<1>10. PICK B2 : B2 = {r.cl}
  OBVIOUS
<1>11. Stage(f2, b2, q, u, B2)
  <2>1. Blocking(f2, b2, q, u, B2)
    BY <1>3, <1>7, <1>9, <1>10 DEF Blocking
  <2> QED
    BY <1>7, <2>1 DEF Stage
<1>12. Grips(C[d], B2, r.cl, f2)
  BY <1>9, <1>10, FatBounds DEF Grips
<1>13. SameHalf(r, q)
  BY <1>3, <1>7 DEF SameHalf, HalfOf
<1>14. d \notin gone => AimedAt(blk, q, u)
  BY <1>4, <1>3, <1>7, AimedStill
<1>15. FatEdit(fat, blk, r.cl, Eoc, f2, b2) /\ Writes(d, q, f2, b2)
  BY <1>2, <1>3, <1>8
<1> QED
  BY <1>1, <1>3, <1>4, <1>11, <1>12, <1>13, <1>14, <1>15, EditStep

(* create has one more.                                                    *)
LEMMA StringingWritten ==
    ASSUME NEW g, NEW w, NEW C, Follows(g, w, C), Intact, NEW d \in Driver, FatWrite(d), ~OutOfDate(d),
           Stringing(fat, drv[d], C[d])
    PROVE  UIInv'
<1>1. PICK r, u, B : r = drv[d] /\ u = ucwd[d] /\ B = C[d]
  OBVIOUS
<1>2. PICK f2, b2 : FatEdit(fat, blk, r.tgt, r.value, f2, b2) /\ Writes(d, Resume(r), f2, b2)
  BY <1>1, FatEditIs
<1>3. /\ r \in Local /\ r.pc = "fat_write" /\ r.tgt = r.cl /\ r.value = Eoc /\ r.then = "taken"
      /\ Making(r) /\ Strung(fat, r.first, r.n, r.prev, B) /\ r.n < r.k /\ r.cl \in Cluster
  BY <1>1, FatEditIs DEF Stringing, Waits
<1>4. /\ fat[r.cl] = Free /\ (d \notin gone => AimedAt(blk, r, u)) /\ fat \in Tables
      /\ \A c \in B : fat[c] # Free
  BY <1>1, <1>3, InnerFacts DEF OutOfDate, ProbeFree
<1>5. /\ r.op = "create" /\ r.k > 0 /\ r.v \in Val /\ r.slot \in Slots /\ r.n \in Nat /\ r.k \in Nat
  BY <1>3 DEF Making, Local
<1>6. PICK c, s, m, o : c = r.cl /\ s = BackSet(r) /\ m = Counted(s) /\ o = Onward(m)
  OBVIOUS
<1>7. /\ s \in Local /\ s.op = r.op /\ s.k = r.k /\ s.v = r.v /\ s.slot = r.slot
      /\ s.first = r.first /\ s.prev = r.prev /\ s.cl = c /\ s.n = r.n
  BY <1>3, <1>6, ResumeIs
<1>8. /\ m \in Local /\ m.op = r.op /\ m.k = r.k /\ m.v = r.v /\ m.slot = r.slot
      /\ m.first = (IF r.first = 0 THEN c ELSE r.first) /\ m.prev = c /\ m.n = r.n + 1
  BY <1>6, <1>7, CountedIs
<1>9. m.first \in Cluster /\ c \in Cluster
  BY <1>3, <1>6, <1>8 DEF Local
<1>10. /\ o \in Local /\ o.op = "create" /\ o.k = r.k /\ o.v = r.v /\ o.slot = r.slot
       /\ o.first = m.first /\ o.prev = c
       /\ r.n + 1 < r.k => o.pc = "probe" /\ o.cl = 2 /\ o.n = r.n + 1
       /\ ~(r.n + 1 < r.k) => o.pc = "data" /\ o.cl = m.first /\ o.n = 0
  BY <1>5, <1>6, <1>8, <1>9, OnwardIs
<1>11. Resume(r) = Taken(s) /\ Making(o) /\ 2 \in Cluster
  BY <1>3, <1>5, <1>6, <1>10, ResumeTo, FatBounds DEF Making, Cluster
<1>12. f2[c] = Eoc /\ (\A x \in Cluster \ {c} : f2[x] = fat[x]) /\ c \notin B
       /\ FatEdit(fat, blk, c, Eoc, f2, b2)
  BY <1>2, <1>3, <1>4, <1>6 DEF FatEdit
<1>13. CASE r.n = 0 /\ r.first = 0 /\ r.prev = 0 /\ B = {}
  <2>1. Writes(d, o, f2, b2)
    BY <1>2, <1>6, <1>7, <1>11, <1>13 DEF Taken
  <2>2. o.first = c
    BY <1>8, <1>10, <1>13
  <2>3. PICK B2 : B2 = {c}
    OBVIOUS
  <2>4. Proper(f2, c, 1) /\ Chain(f2, c) = B2 /\ Walk(f2, c)[1] = c
    BY <1>9, <1>12, <2>3, ChainOne
  <2>5. Stage(f2, b2, o, u, B2)
    <3>1. CASE r.n + 1 < r.k
      <4>1. Strung(f2, o.first, o.n, o.prev, B2)
        BY <1>10, <1>13, <2>2, <2>4, <3>1 DEF Strung
      <4>2. Stringing(f2, o, B2)
        BY <1>5, <1>10, <1>11, <1>13, <3>1, <4>1 DEF Stringing
      <4> QED
        BY <1>10, <4>2 DEF Stage
    <3>2. CASE ~(r.n + 1 < r.k)
      <4>1. r.k = 1
        BY <1>5, <1>13, <3>2
      <4>2. o.pc = "data" /\ o.cl = Walk(f2, o.first)[o.n + 1] /\ o.n = 0 /\ o.k = 1
        BY <1>8, <1>10, <2>2, <2>4, <3>2, <4>1
      <4>3. Filling(f2, b2, o, B2)
        BY <1>11, <2>2, <2>4, <4>2 DEF Filling
      <4> QED
        BY <1>10, <4>3 DEF Stage
    <3> QED
      BY <3>1, <3>2
  <2>6. Grips(B, B2, c, f2)
    BY <1>12, <1>13, <2>3, FatBounds DEF Grips
  <2>7. SameHalf(r, o)
    BY <1>5, <1>10 DEF SameHalf, HalfOf
  <2>8. d \notin gone => AimedAt(blk, o, u)
    BY <1>3, <1>4, <1>5, <1>10, AimedStill
  <2> QED
    BY <1>1, <1>4, <1>6, <1>9, <1>12, <2>1, <2>5, <2>6, <2>7, <2>8, EditStep
<1>14. CASE /\ r.n > 0 /\ Proper(fat, r.first, r.n) /\ Walk(fat, r.first)[r.n] = r.prev
            /\ B = Chain(fat, r.first)
  <2>1. PICK a, p, n : a = r.first /\ p = r.prev /\ n = r.n
    OBVIOUS
  <2>2. p \in Cluster /\ p \in B /\ a \in Cluster
    <3>1. n \in 1..n /\ Proper(fat, a, n)
      BY <1>5, <1>14, <2>1
    <3>2. Walk(fat, a)[n] \in Chain(fat, a) /\ Walk(fat, a)[n] \in Cluster
      BY <3>1, ChainNext
    <3>3. a \in Chain(fat, a) /\ Chain(fat, a) \subseteq Cluster
      BY <1>5, <1>14, <2>1, <3>1, ProperFacts
    <3> QED
      BY <1>14, <2>1, <3>2, <3>3
  <2>3. m.first = a /\ p # 0
    BY <1>8, <2>1, <2>2, FatBounds
  <2>4. PICK q : q = SetFat(o, p, c, o.pc)
    OBVIOUS
  <2>5. Writes(d, q, f2, b2)
    BY <1>2, <1>6, <1>7, <1>11, <2>1, <2>3, <2>4 DEF Taken
  <2>6. /\ q \in Local /\ q.op = o.op /\ q.pc = "fat_read" /\ q.k = o.k /\ q.v = o.v
        /\ q.slot = o.slot /\ q.first = o.first /\ q.prev = o.prev /\ q.cl = o.cl /\ q.n = o.n
        /\ q.tgt = p /\ q.value = c /\ q.then = o.pc
    <3>1. o \in Local /\ p \in Cluster /\ c \in Cluster \cup {Free, Eoc} /\ o.pc \in Pcs
      BY <1>9, <1>10, <2>2 DEF Local
    <3> QED
      BY <2>4, <3>1, SetFatIs
  <2>7. PICK B2 : B2 = B \cup {c}
    OBVIOUS
  <2>8. Proper(f2, a, n) /\ Walk(f2, a) = Walk(fat, a) /\ Chain(f2, a) = B
    <3>1. Proper(fat, a, n) /\ Chain(fat, a) = B /\ B \subseteq Cluster
      BY <1>14, <2>1, ProperFacts
    <3>2. \A x \in Chain(fat, a) : f2[x] = fat[x]
      BY <1>12, <3>1
    <3> QED
      BY <3>1, <3>2, ChainKept
  <2>9. Linking(f2, q, B2)
    <3>1. Making(q) /\ q.pc \in FatPc /\ q.prev = q.value /\ q.value \in Cluster /\ f2[q.value] = Eoc
      BY <1>9, <1>10, <1>11, <1>12, <2>6 DEF Making, FatPc
    <3>2. /\ n \in Nat /\ n > 0 /\ Proper(f2, q.first, n) /\ Walk(f2, q.first)[n] = q.tgt
          /\ q.value \notin Chain(f2, q.first) /\ B2 = Chain(f2, q.first) \cup {q.value}
      BY <1>5, <1>10, <1>12, <1>14, <2>1, <2>3, <2>6, <2>7, <2>8
    <3>3. \/ q.then = "probe" /\ q.n = n + 1 /\ q.n < q.k /\ q.cl = 2
          \/ q.then = "data" /\ q.k = n + 1 /\ q.n = 0 /\ q.cl = q.first
      <4>1. CASE r.n + 1 < r.k
        BY <1>10, <2>1, <2>6, <4>1
      <4>2. CASE ~(r.n + 1 < r.k)
        <5>1. r.k = r.n + 1
          BY <1>3, <1>5, <4>2
        <5> QED
          BY <1>10, <2>1, <2>6, <4>2, <5>1
      <4> QED
        BY <4>1, <4>2
    <3> QED
      BY <3>1, <3>2, <3>3 DEF Linking
  <2>10. Stage(f2, b2, q, u, B2)
    BY <2>6, <2>9 DEF Stage
  <2>11. Grips(B, B2, c, f2)
    BY <1>12, <2>7, FatBounds DEF Grips
  <2>12. SameHalf(r, q)
    BY <1>5, <1>10, <2>6 DEF SameHalf, HalfOf
  <2>13. d \notin gone => AimedAt(blk, q, u)
    BY <1>3, <1>4, <1>5, <1>10, <2>6, AimedStill
  <2> QED
    BY <1>1, <1>4, <1>6, <1>9, <1>12, <2>5, <2>10, <2>11, <2>12, <2>13, EditStep
<1> QED
  BY <1>3, <1>13, <1>14 DEF Strung

(* A file's next cluster is linked behind the one before.                  *)
LEMMA LinkingWritten ==
    ASSUME NEW g, NEW w, NEW C, Follows(g, w, C), Intact, NEW d \in Driver, FatWrite(d), ~OutOfDate(d),
           Linking(fat, drv[d], C[d])
    PROVE  UIInv'
<1>1. PICK r, u, B : r = drv[d] /\ u = ucwd[d] /\ B = C[d]
  OBVIOUS
<1>2. PICK f2, b2 : FatEdit(fat, blk, r.tgt, r.value, f2, b2) /\ Writes(d, Resume(r), f2, b2)
  BY <1>1, FatEditIs
<1>3. /\ r \in Local /\ r.pc = "fat_write" /\ r.tgt \in Cluster /\ r.op = "create"
      /\ r.prev = r.value /\ r.value \in Cluster /\ fat[r.value] = Eoc /\ Making(r)
  BY <1>1, FatEditIs DEF Linking, Making
<1>4. PICK a, v, t : a = r.first /\ v = r.value /\ t = r.tgt
  OBVIOUS
<1>5. PICK m \in Nat :
         /\ m > 0 /\ Proper(fat, a, m) /\ Walk(fat, a)[m] = t
         /\ v \notin Chain(fat, a) /\ B = Chain(fat, a) \cup {v}
         /\ \/ r.then = "probe" /\ r.n = m + 1 /\ r.n < r.k /\ r.cl = 2
            \/ r.then = "data" /\ r.k = m + 1 /\ r.n = 0 /\ r.cl = a
  BY <1>1, <1>4 DEF Linking
<1>6. PICK q : q = BackSet(r)
  OBVIOUS
<1>7. /\ q \in Local /\ q.op = r.op /\ q.pc = r.then /\ q.k = r.k /\ q.v = r.v /\ q.slot = r.slot
      /\ q.first = a /\ q.prev = v /\ q.cl = r.cl /\ q.n = r.n
  BY <1>3, <1>4, <1>6, ResumeIs
<1>8. Writes(d, q, f2, b2)
  BY <1>2, <1>5, <1>6, ResumeTo
<1>9. t \in B /\ t # v /\ v \in B
  <2>1. m \in 1..m /\ Proper(fat, a, m)
    BY <1>5
  <2>2. Walk(fat, a)[m] \in Chain(fat, a)
    BY <2>1, ChainNext
  <2> QED
    BY <1>5, <2>2
<1>10. FatEdit(fat, blk, t, v, f2, b2) /\ f2[t] = v /\ \A c \in Cluster \ {t} : f2[c] = fat[c]
  BY <1>2, <1>4 DEF FatEdit
<1>11. Proper(f2, a, m + 1) /\ Chain(f2, a) = B /\ Walk(f2, a)[m + 1] = v
  <2>1. Chain(fat, a) \subseteq Cluster
    BY <1>5, ProperFacts
  <2>2. v \in Cluster /\ f2[v] = Eoc /\ f2[Walk(fat, a)[m]] = v
    BY <1>3, <1>4, <1>5, <1>9, <1>10
  <2>3. \A x \in Chain(fat, a) : x # Walk(fat, a)[m] => f2[x] = fat[x]
    BY <1>5, <1>10, <2>1
  <2> QED
    BY <1>5, <2>2, <2>3, ChainAppend
<1>12. Stage(f2, b2, q, u, B)
  <2>1. CASE r.then = "probe" /\ r.n = m + 1 /\ r.n < r.k /\ r.cl = 2
    <3>1. 2 \in Cluster /\ r.n > 0
      BY <1>5, <2>1, FatBounds DEF Cluster
    <3>2. Stringing(f2, q, B)
      BY <1>3, <1>7, <1>11, <2>1, <3>1 DEF Stringing, Strung, Making
    <3> QED
      BY <1>7, <3>2 DEF Stage
  <2>2. CASE r.then = "data" /\ r.k = m + 1 /\ r.n = 0 /\ r.cl = a
    <3>1. Walk(f2, a)[1] = a
      <4>1. IsChain(f2, a, m + 1, Walk(f2, a))
        BY <1>11, ProperFacts
      <4> QED
        BY <1>5, <4>1 DEF IsChain
    <3>2. Making(q) /\ Proper(f2, q.first, q.k) /\ B = Chain(f2, q.first) /\ q.n = 0 /\ q.k \in Nat
          /\ q.k > 0
      BY <1>3, <1>5, <1>7, <1>11, <2>2 DEF Making
    <3>3. q.pc = "data" /\ q.n < q.k /\ q.cl = Walk(f2, q.first)[q.n + 1]
      BY <1>7, <2>2, <3>1, <3>2
    <3>4. Filling(f2, b2, q, B)
      BY <3>2, <3>3 DEF Filling
    <3> QED
      BY <1>7, <3>4 DEF Stage
  <2> QED
    BY <1>5, <2>1, <2>2
<1>13. Grips(B, B, t, f2)
  BY <1>3, <1>4, <1>9, <1>10, FatBounds DEF Grips
<1>14. SameHalf(r, q)
  BY <1>3, <1>7 DEF SameHalf, HalfOf
<1>15. d \notin gone => AimedAt(blk, r, u)
  BY <1>1, InnerFacts
<1>16. d \notin gone => AimedAt(blk, q, u)
  BY <1>3, <1>7, <1>15, AimedStill
<1> QED
  BY <1>1, <1>3, <1>4, <1>8, <1>9, <1>10, <1>12, <1>13, <1>14, <1>16, EditStep

(* mkdir found the directory full and gives its cluster back.              *)
LEMMA BlockingWritten ==
    ASSUME NEW g, NEW w, NEW C, Follows(g, w, C), Intact, NEW d \in Driver, FatWrite(d), ~OutOfDate(d),
           Blocking(fat, blk, drv[d], ucwd[d], C[d])
    PROVE  UIInv'
<1>1. PICK r, u, B : r = drv[d] /\ u = ucwd[d] /\ B = C[d]
  OBVIOUS
<1>2. PICK f2, b2 : FatEdit(fat, blk, r.tgt, r.value, f2, b2) /\ Writes(d, Resume(r), f2, b2)
  BY <1>1, FatEditIs
<1>3. r.pc = "fat_write" /\ r.op = "mkdir" /\ r.cl \in Cluster /\ B = {r.cl}
  BY <1>1, FatEditIs DEF Blocking
<1>4. r.tgt = r.cl /\ r.value = Free /\ r.then = "idle"
  BY <1>1, <1>3 DEF Blocking, Waits
<1>5. Resume(r) = Idle
  BY <1>4, ResumeTo
<1>6. FatEdit(fat, blk, r.cl, Free, f2, b2) /\ f2[r.cl] = Free /\ Writes(d, Idle, f2, b2)
  BY <1>2, <1>4, <1>5 DEF FatEdit
<1>7. Stage(f2, b2, Idle, u, {}) /\ AimedAt(blk, Idle, u)
  BY IdleIs
<1>8. Grips(B, {}, r.cl, f2) /\ r.cl \in B
  BY <1>3, <1>6 DEF Grips
<1>9. SameHalf(r, Idle)
  BY <1>3, IdleIs DEF SameHalf, HalfOf
<1>10. r.cl \in Cluster
  BY <1>3
<1> QED
  BY <1>1, <1>10, <1>6, <1>7, <1>8, <1>9, EditStep

(* One more cluster of the rest of a chain is freed.                       *)
LEMMA FreeingWritten ==
    ASSUME NEW g, NEW w, NEW C, Follows(g, w, C), Intact, NEW d \in Driver, FatWrite(d), ~OutOfDate(d),
           Freeing(fat, drv[d], C[d])
    PROVE  UIInv'
<1>1. PICK r, u, B : r = drv[d] /\ u = ucwd[d] /\ B = C[d]
  OBVIOUS
<1>2. PICK f2, b2 : FatEdit(fat, blk, r.tgt, r.value, f2, b2) /\ Writes(d, Resume(r), f2, b2)
  BY <1>1, FatEditIs
<1>3. /\ r \in Local /\ r.pc = "fat_write" /\ r.cl \in Cluster
      /\ r.op = "undo" \/ (r.op \in {"rm", "rmdir"} /\ Found(r) /\ Hit(r) \in Cluster /\ Hit(r) \notin B)
  BY <1>1, FatEditIs DEF Freeing
<1>4. PICK t : t = r.tgt
  OBVIOUS
<1>5. PICK q : q = BackSet(r)
  OBVIOUS
<1>6. /\ q \in Local /\ q.op = r.op /\ q.pc = r.then /\ q.slot = r.slot /\ q.cl = r.cl /\ q.sec = r.sec
  BY <1>3, <1>5, ResumeIs
<1>7. (Found(r) => Found(q)) /\ Hit(q) = Hit(r)
  BY <1>6 DEF Found, Hit
<1>8. d \notin gone => AimedAt(blk, r, u)
  BY <1>1, InnerFacts
<1>9. CASE /\ Waits(r, r.tgt, Free, "free") /\ r.tgt \in Cluster /\ fat[r.tgt] = r.cl
           /\ r.tgt \notin Chain(fat, r.cl) /\ B = {r.tgt} \cup Chain(fat, r.cl)
           /\ \E m \in Nat : m > 0 /\ Proper(fat, r.cl, m)
  <2>1. PICK m \in Nat : m > 0 /\ Proper(fat, r.cl, m)
    BY <1>9
  <2>2. r.value = Free /\ r.then = "free" /\ t \in Cluster /\ t \notin Chain(fat, r.cl)
        /\ B = {t} \cup Chain(fat, r.cl)
    BY <1>4, <1>9 DEF Waits
  <2>3. FatEdit(fat, blk, t, Free, f2, b2) /\ f2[t] = Free /\ \A c \in Cluster \ {t} : f2[c] = fat[c]
    BY <1>2, <1>4, <2>2 DEF FatEdit
  <2>4. PICK B2 : B2 = Chain(fat, r.cl)
    OBVIOUS
  <2>5. Chain(fat, r.cl) \subseteq Cluster /\ r.cl \in Chain(fat, r.cl)
    BY <2>1, ProperFacts
  <2>6. Proper(f2, r.cl, m) /\ Chain(f2, r.cl) = B2
    <3>1. \A x \in Chain(fat, r.cl) : f2[x] = fat[x]
      BY <2>2, <2>3, <2>5
    <3> QED
      BY <2>1, <2>4, <3>1, ChainKept
  <2>7. Writes(d, q, f2, b2)
    BY <1>2, <1>5, <2>2, ResumeTo
  <2>8. Freeing(f2, q, B2)
    <3>1. q.op = "undo" \/ (q.op \in {"rm", "rmdir"} /\ Found(q) /\ Hit(q) \in Cluster /\ Hit(q) \notin B2)
      BY <1>3, <1>6, <1>7, <2>2, <2>4
    <3>2. q.cl \in Cluster /\ q.pc = "free" /\ B2 = Chain(f2, q.cl) /\ Proper(f2, q.cl, m)
      BY <1>3, <1>6, <2>2, <2>6
    <3> QED
      BY <2>1, <3>1, <3>2 DEF Freeing
  <2>9. Stage(f2, b2, q, u, B2)
    BY <1>6, <2>8 DEF Stage
  <2>10. Grips(B, B2, t, f2) /\ t \in B
    BY <2>2, <2>3, <2>4 DEF Grips
  <2>11. SameHalf(r, q)
    <3>1. CASE r.op = "undo"
      BY <1>6, <3>1 DEF SameHalf, HalfOf
    <3>2. CASE r.op \in {"rm", "rmdir"} /\ Found(r) /\ Hit(r) \in Cluster /\ Hit(r) \notin B
      <4>1. r.tgt # Hit(r) /\ q.cl # Hit(q) /\ r.pc \in FatPc /\ q.pc = "free" /\ r.slot # 0
        BY <1>3, <1>4, <1>6, <1>7, <2>2, <2>5, <3>2, FatBounds DEF FatPc, Found, Slots
      <4>2. HalfOf(r)
        BY <3>2, <4>1 DEF HalfOf, FatPc
      <4>3. HalfOf(q)
        BY <1>6, <1>7, <3>2, <4>1 DEF HalfOf
      <4> QED
        BY <1>6, <4>2, <4>3 DEF SameHalf
    <3> QED
      BY <1>3, <3>1, <3>2
  <2>12. d \notin gone => AimedAt(blk, q, u)
    BY <1>3, <1>6, <1>8, AimedStill
  <2>13. t \in Cluster
    BY <2>2
  <2> QED
    BY <1>1, <2>13, <2>3, <2>7, <2>9, <2>10, <2>11, <2>12, EditStep
<1>10. CASE Waits(r, r.cl, Free, Back(r.op)) /\ fat[r.cl] = Eoc /\ B = {r.cl}
  <2>1. r.tgt = r.cl /\ r.value = Free /\ r.then = Back(r.op)
    BY <1>10 DEF Waits
  <2>2. FatEdit(fat, blk, r.cl, Free, f2, b2) /\ f2[r.cl] = Free
    BY <1>2, <2>1 DEF FatEdit
  <2>3. Grips(B, {}, r.cl, f2) /\ r.cl \in B
    BY <1>10, <2>2 DEF Grips
  <2>4. CASE r.op = "undo"
    <3>1. Writes(d, Idle, f2, b2)
      BY <1>2, <2>1, <2>4, ResumeTo DEF Back
    <3>2. Stage(f2, b2, Idle, u, {}) /\ AimedAt(blk, Idle, u)
      BY IdleIs
    <3>3. SameHalf(r, Idle)
      BY <2>4, IdleIs DEF SameHalf, HalfOf
    <3> QED
      BY <1>1, <1>3, <2>2, <2>3, <3>1, <3>2, <3>3, EditStep
  <2>5. CASE r.op \in {"rm", "rmdir"} /\ Found(r) /\ Hit(r) \in Cluster /\ Hit(r) \notin B
    <3>1. r.then = "erase"
      BY <2>1, <2>5 DEF Back
    <3>2. Writes(d, q, f2, b2)
      BY <1>2, <1>5, <3>1, ResumeTo
    <3>3. Leaving(q) /\ q.pc = "erase"
      BY <1>6, <1>7, <2>5, <3>1 DEF Leaving
    <3>4. Stage(f2, b2, q, u, {})
      BY <1>6, <3>3 DEF Stage, Unladen
    <3>5. SameHalf(r, q)
      <4>1. r.tgt # Hit(r) /\ r.pc \in FatPc /\ r.slot # 0
        BY <1>3, <1>10, <2>1, <2>5, FatBounds DEF FatPc, Found, Slots
      <4>2. HalfOf(r)
        BY <2>5, <4>1 DEF HalfOf, FatPc
      <4>3. HalfOf(q)
        BY <1>6, <1>7, <2>5, <3>3, <4>1 DEF HalfOf
      <4> QED
        BY <1>6, <4>2, <4>3 DEF SameHalf
    <3>6. d \notin gone => AimedAt(blk, q, u)
      BY <1>3, <1>6, <1>8, AimedStill
    <3> QED
      BY <1>1, <1>3, <2>2, <2>3, <3>2, <3>4, <3>5, <3>6, EditStep
  <2> QED
    BY <1>3, <2>4, <2>5
<1>11. r.pc = "free" => FALSE
  BY <1>3
<1> QED
  BY <1>1, <1>9, <1>10, <1>11 DEF Freeing

Hollow(b, h) == \A i \in Slots : ~Live(b[h].ent[i])

(* Who works in directory h is known to.                                   *)
Warned(U, k, G, G2, h) == G \subseteq G2 /\ (\A e \in Driver : U[e] = h => e \in G2)
    /\ (k = h => Kernel \in G2)

(* A driver frees the first cluster h of entry p: from here on the entry   *)
(* is half removed, and the rest of its chain is in the driver's hands.    *)
LEMMA UnhookKept ==
    ASSUME NEW f, NEW b, NEW D, NEW U, NEW P, NEW k, NEW G, NEW K, NEW g, NEW w, NEW C,
           Inner(f, b, D, U, P, k, G, K, g, w, C),
           NEW d \in Driver, NEW q, NEW p \in PlacesOf(g, w), p[1] = U[d], p[2] = q.slot,
           NEW h \in Cluster, h = AtOf(w, p).cl, NEW O, O = Owns(g, w, p), C[d] = {},
           AtOf(w, p).kind = "dir" => Hollow(b, h),
           NEW f2, NEW b2, FatEdit(f, b, h, Free, f2, b2),
           NEW B2, B2 = O \ {h}, Stage(f2, b2, q, U[d], B2), HalfOf(q), ~HalfOf(D[d]),
           NEW G2, Warned(U, k, G, G2, h),
           NEW D2 \in [Driver -> {Idle} \cup Local], Turned(D, D2, d, q),
           NEW C2 \in [Driver -> SUBSET Cluster], Turned(C, C2, d, B2)
    PROVE  \E g2, w2 : Inner(f2, b2, D2, U, P, k, G2, K, g2, w2, C2)
<1> USE DEF Hollow, Warned
<1>1. /\ f \in Tables /\ b \in [Dirs -> Block] /\ D \in [Driver -> {Idle} \cup Local]
      /\ U \in [Driver -> Dirs] /\ k \in Dirs /\ C \in [Driver -> SUBSET Cluster]
      /\ Settled(g, w) /\ Relates(f, b, g, w, DyingOf(D, U)) /\ Bare(f, b) /\ Apart(f, g, C)
      /\ Halves(b, D, U, LiveDirsOf(g, w)) /\ Dwelling(b, U, P, k, G, LiveDirsOf(g, w))
      /\ Sound(g, w) /\ Tree(g, w) /\ w \in [Dirs -> Block]
  BY DEF Inner, Settled, Sound
<1>2. PICK L, Z, x, i : L = LiveDirsOf(g, w) /\ Z = DyingOf(D, U) /\ x = p[1] /\ i = p[2]
  OBVIOUS
<1>3. /\ p = <<x, i>> /\ x \in L /\ x \in Dirs /\ i \in Slots
      /\ Proper(g, h, Clusters(AtOf(w, p))) /\ O \subseteq Cluster /\ \A c \in O : g[c] # Free
      /\ AtOf(w, p).kind = "dir" => O = {h} /\ h \in L
      /\ AtOf(w, p).kind = "file" => \A c \in O : w[c] = DataBlock(AtOf(w, p).val)
      /\ AtOf(w, p).kind = "file" => O \cap L = {}
      /\ AtOf(w, p).kind = "file" \/ AtOf(w, p).kind = "dir"
      /\ w[x].is = "dir"
  <2>1. Live(AtOf(w, p))
    BY <1>1, PlaceFacts
  <2>2. AtOf(w, p).kind = "file" \/ AtOf(w, p).kind = "dir"
    BY <2>1 DEF Live
  <2> QED
    BY <1>1, <1>2, <2>2, PlaceFacts
<1>4. /\ p \notin Z /\ AtOf(b, p) = AtOf(w, p) /\ L \subseteq LiveDirsOf(f, b)
      /\ \A c \in Cluster : g[c] # Free => f[c] = g[c] /\ (w[c].is # "dir" => b[c] = w[c])
  <2>1. Relates(f, b, g, w, Z)
    BY <1>1, <1>2
  <2>2. p \notin Z /\ AtOf(b, p) = AtOf(w, p) /\ L \subseteq LiveDirsOf(f, b)
    BY <1>1, <1>2, <2>1, RelatesFacts
  <2> QED
    BY <2>1, <2>2 DEF Relates
<1>5. h \in O /\ x \notin O
  <2>1. Clusters(AtOf(w, p)) > 0
    <3>1. CASE AtOf(w, p).kind = "dir"
      BY <3>1 DEF Clusters
    <3>2. CASE Clusters(AtOf(w, p)) = 0
      BY <1>3, <3>2, ProperFacts, FatBounds
    <3>3. Clusters(AtOf(w, p)) \in Nat
      BY <1>3, ProperFacts
    <3> QED
      BY <3>2, <3>3
  <2>2. h \in O
    BY <1>3, <2>1, ProperFacts DEF Owns
  <2> QED
    BY <1>1, <1>2, <2>2, NotWithin
<1>6. PICK g2 : g2 = Freed(g, h)
  OBVIOUS
<1>7. PICK w2 : w2 = [w EXCEPT ![x] = Edited(w[x], i, Deleted)]
  OBVIOUS
<1>8. EntryGone(g, w, p, g2, w2)
  <2>1. Edited(w[x], i, Deleted) \in Block
    BY <1>1, <1>3, BlockFacts, NewEntries
  <2>2. w2 \in [Dirs -> Block] /\ w2[x] = Edited(w[x], i, Deleted) /\ \A y \in Dirs \ {x} : w2[y] = w[y]
    BY <1>1, <1>3, <1>7, <2>1
  <2> QED
    BY <1>2, <1>6, <2>2 DEF EntryGone
<1>9. AtOf(w, p).kind = "dir" => \A j \in Slots : ~Live(w[h].ent[j])
  <2> SUFFICES ASSUME AtOf(w, p).kind = "dir", NEW j \in Slots PROVE ~Live(w[h].ent[j])
    OBVIOUS
  <2>1. w[h].ent[j] = Deleted \/ w[h].ent[j] = b[h].ent[j]
    BY <1>1, <1>2, <1>3 DEF Relates
  <2> QED
    BY <2>1, NewEntries
<1>10. PICK L2 : L2 = LiveDirsOf(g2, w2)
  OBVIOUS
<1>11. /\ g2 \in Tables /\ L2 = L \ O /\ x \in L2
       /\ \A c \in Cluster : g2[c] = IF c \in O THEN Free ELSE g[c]
       /\ Settled(g2, w2)
  <2>1. AtOf(w, p).kind = "dir" => \A j \in Slots : ~Live(w[AtOf(w, p).cl].ent[j])
    BY <1>9
  <2> QED
    BY <1>1, <1>2, <1>8, <1>10, <2>1, SettledErase
<1>12. /\ f2 \in Tables /\ b2 \in [Dirs -> Block] /\ Bare(f2, b2) /\ f2[h] = Free /\ b2[h] = Unread
       /\ \A c \in Cluster \ {h} : f2[c] = f[c]
       /\ \A y \in Dirs \ {h} : y = Root \/ f[y] # Free => b2[y] = b[y]
  BY DEF FatEdit
<1>13. /\ Root \notin Cluster /\ Cluster \subseteq Dirs /\ Root \in Dirs
       /\ \A y \in Dirs : y # Root => y \in Cluster
  BY FatBounds DEF Dirs
<1>14. \A y \in L : y # h => b2[y] = b[y]
  <2> SUFFICES ASSUME NEW y \in L, y # h PROVE b2[y] = b[y]
    OBVIOUS
  <2>1. y = Root \/ (y \in Cluster /\ f[y] # Free)
    BY <1>4 DEF LiveDirsOf
  <2> QED
    BY <1>12, <1>13, <2>1
<1>15. x # h /\ b2[x] = b[x]
  BY <1>3, <1>5, <1>14
<1>16. D2[d] = q /\ C2[d] = B2 /\ \A e \in Driver \ {d} : D2[e] = D[e] /\ C2[e] = C[e]
  BY DEF Turned
<1>17. PICK Y : Y = DyingOf(D2, U)
  OBVIOUS
<1>18. Y = Z \cup {p}
  <2>1. <<U[d], D2[d].slot>> = p
    BY <1>2, <1>3, <1>16
  <2>2. ASSUME NEW y \in Y PROVE y \in Z \cup {p}
    <3>1. PICK e \in Driver : HalfOf(D2[e]) /\ y = <<U[e], D2[e].slot>>
      BY <1>17 DEF DyingOf
    <3>2. CASE e = d
      BY <2>1, <3>1, <3>2
    <3>3. CASE e # d
      BY <1>2, <1>16, <3>1, <3>3 DEF DyingOf
    <3> QED
      BY <3>2, <3>3
  <2>3. p \in Y
    BY <1>16, <1>17, <2>1 DEF DyingOf
  <2>4. ASSUME NEW y \in Z PROVE y \in Y
    <3>1. PICK e \in Driver : HalfOf(D[e]) /\ y = <<U[e], D[e].slot>>
      BY <1>2 DEF DyingOf
    <3>2. e # d /\ D2[e] = D[e]
      BY <1>16, <3>1
    <3> QED
      BY <1>17, <3>1, <3>2 DEF DyingOf
  <2> QED
    BY <2>2, <2>3, <2>4
<1>19. Relates(f2, b2, g2, w2, Y)
  <2>2. \A c \in Cluster \ Owns(g, w, p) : f2[c] = f[c]
    BY <1>5, <1>12
  <2>3. \A y \in Dirs \ {p[1]} : y = Root \/ f2[y] # Free => b2[y] = b[y]
    <3> SUFFICES ASSUME NEW y \in Dirs, y = Root \/ f2[y] # Free PROVE b2[y] = b[y]
      OBVIOUS
    <3>1. y # h
      BY <1>12, <1>13
    <3>2. y = Root \/ f[y] # Free
      BY <1>12, <1>13, <3>1
    <3> QED
      BY <1>12, <3>1, <3>2
  <2>4. \A c \in Owns(g, w, p) : f2[c] = Free \/ b2[c].is # "dir"
    <3> SUFFICES ASSUME NEW c \in O, c # h PROVE b2[c].is # "dir"
      BY <1>12
    <3>1. AtOf(w, p).kind = "file" /\ c \in Cluster /\ g[c] # Free
      BY <1>3
    <3>2. c \notin L
      BY <1>3, <3>1
    <3>3. w[c].is # "dir"
      BY <1>2, <3>1, <3>2 DEF LiveDirsOf
    <3>4. b[c] = w[c] /\ f[c] # Free
      BY <1>4, <3>1, <3>3
    <3>5. b2[c] = b[c]
      BY <1>12, <1>13, <3>1, <3>4
    <3> QED
      BY <3>3, <3>4, <3>5
  <2>5. b2[p[1]].is = "dir" /\ b2[p[1]].up = b[p[1]].up
    BY <1>1, <1>2, <1>3, <1>15 DEF Relates
  <2>6. \A j \in Slots \ {p[2]} : b2[p[1]].ent[j] = b[p[1]].ent[j]
    BY <1>2, <1>15
  <2>7. ChainGone(f, b, p, O, f2, b2)
    BY <2>2, <2>3, <2>4, <2>5, <2>6 DEF ChainGone
  <2>8. Relates(f, b, g, w, Z) /\ Settled(g, w)
    BY <1>1, <1>2
  <2> QED
    BY <1>8, <1>18, <2>7, <2>8, RelatesErase
<1>20. PICK W : W = Driver \ {d}
  OBVIOUS
<1>22. Spared(f, b, C, f2, b2, g2, W)
  <2> SUFFICES ASSUME NEW e \in Driver, NEW c \in C[e]
               PROVE  f2[c] = f[c] /\ b2[c] = b[c] /\ g2[c] = Free
    BY <1>20 DEF Spared
  <2>1. c \in Cluster /\ f[c] # Free /\ g[c] = Free
    BY <1>1 DEF Apart
  <2>2. c # h
    BY <1>3, <1>5, <2>1
  <2> QED
    BY <1>11, <1>12, <1>13, <2>1, <2>2
<1>23. Settles(f, g, C[d], f2, g2, B2)
  <2>1. \A c \in B2 : f2[c] # Free /\ g2[c] = Free /\ g[c] # Free
    BY <1>3, <1>4, <1>11, <1>12
  <2>2. \A c \in Cluster : f2[c] # Free /\ g2[c] = Free =>
          c \in B2 \/ (f[c] # Free /\ g[c] = Free /\ c \notin C[d])
    <3> SUFFICES ASSUME NEW c \in Cluster, f2[c] # Free, g2[c] = Free, c \notin B2
                 PROVE  f[c] # Free /\ g[c] = Free
      OBVIOUS
    <3>1. c # h /\ c \notin O
      BY <1>12
    <3> QED
      BY <1>11, <1>12, <3>1
  <2> QED
    BY <2>1, <2>2 DEF Settles
<1>24. AimedAt(b2, q, U[d])
  BY DEF HalfOf, AimedAt
<1>25. \A y \in L : y \in L2 \/ (y = h /\ y # Root /\ AtOf(w, p).kind = "dir")
  BY <1>3, <1>5, <1>11, <1>13
<1>26. Halves(b2, D2, U, L2)
  <2>1. ASSUME NEW e \in Driver, HalfOf(D2[e])
        PROVE  U[e] \in L2 /\ Live(b2[U[e]].ent[D2[e].slot]) /\ b2[U[e]].ent[D2[e].slot].cl \in Cluster
    <3>1. CASE e = d
      <4>1. U[e] = x /\ D2[e].slot = i /\ b2[x].ent[i] = AtOf(w, p)
        BY <1>2, <1>4, <1>15, <1>16, <3>1, Zenon DEF AtOf
      <4>2. Live(AtOf(w, p)) /\ AtOf(w, p).cl \in Cluster
        BY <1>1, PlaceFacts
      <4> QED
        BY <1>11, <4>1, <4>2
    <3>2. CASE e # d
      <4>1. /\ D2[e] = D[e] /\ U[e] \in L /\ Live(b[U[e]].ent[D[e].slot])
            /\ b[U[e]].ent[D[e].slot].cl \in Cluster
        BY <1>1, <1>2, <1>16, <2>1, <3>2 DEF Halves
      <4>2. D[e].slot \in Slots
        <5>1. Stage(f, b, D[e], U[e], C[e])
          BY DEF Inner
        <5> QED
          BY <2>1, <4>1, <5>1, HalfStage
      <4>3. U[e] # h \/ AtOf(w, p).kind # "dir"
        BY <4>1, <4>2
      <4>4. U[e] \in L2 /\ U[e] # h
        BY <1>3, <1>5, <1>25, <4>1, <4>3
      <4>5. b2[U[e]] = b[U[e]]
        BY <1>14, <4>1, <4>4
      <4> QED
        BY <4>1, <4>4, <4>5
    <3> QED
      BY <3>1, <3>2
  <2>2. ASSUME NEW e \in Driver, HalfOf(D2[e]), e # d, U[e] = U[d], D2[e].slot = D2[d].slot PROVE FALSE
    <3>1. HalfOf(D[e]) /\ <<U[e], D[e].slot>> = p
      BY <1>2, <1>3, <1>16, <2>2
    <3> QED
      BY <1>2, <1>4, <3>1 DEF DyingOf
  <2>3. ASSUME NEW e \in Driver, NEW y \in Driver, HalfOf(D2[e]), HalfOf(D2[y]), U[e] = U[y],
               D2[e].slot = D2[y].slot
        PROVE  e = y
    <3>1. CASE e = d \/ y = d
      BY <2>2, <2>3, <3>1
    <3>2. CASE e # d /\ y # d
      <4>1. D2[e] = D[e] /\ D2[y] = D[y]
        BY <1>16, <3>2
      <4> QED
        BY <1>1, <2>3, <4>1 DEF Halves
    <3> QED
      BY <3>1, <3>2
  <2> QED
    BY <2>1, <2>3 DEF Halves
<1>27. Told(U, G, G2, L, L2)
  BY <1>25 DEF Told
<1>28. Marked(b, b2, L, L2)
  <2>1. \A y \in L \cap L2 : b2[y] = b[y]
    BY <1>5, <1>11, <1>14
  <2> QED
    BY <2>1 DEF Marked
<1>29. Kernel \notin G2 => k \in L2
  BY <1>1, <1>2, <1>25 DEF Dwelling
<1>30. /\ f2 \in Tables /\ b2 \in [Dirs -> Block] /\ Bare(f2, b2) /\ Settled(g2, w2)
       /\ Relates(f2, b2, g2, w2, DyingOf(D2, U))
  BY <1>11, <1>12, <1>17, <1>19
<1>31. /\ Halves(b2, D2, U, LiveDirsOf(g2, w2)) /\ Told(U, G, G2, LiveDirsOf(g, w), LiveDirsOf(g2, w2))
       /\ Marked(b, b2, LiveDirsOf(g, w), LiveDirsOf(g2, w2))
       /\ Kernel \notin G2 => k \in LiveDirsOf(g2, w2)
  BY <1>2, <1>10, <1>26, <1>27, <1>28, <1>29
<1>32. Inner(f2, b2, D2, U, P, k, G2, K, g2, w2, C2)
  BY <1>20, <1>22, <1>23, <1>24, <1>30, <1>31, MoveKept, ZenonT(60)
<1> QED
  BY <1>32

(* The first cluster of a file or the cluster of a directory is freed.     *)
LEMMA AimingWritten ==
    ASSUME NEW g, NEW w, NEW C, Follows(g, w, C), Intact, NEW d \in Driver, FatWrite(d), ~OutOfDate(d),
           Aiming(drv[d]), C[d] = {}
    PROVE  UIInv'
<1>1. PICK r, u, i, h : r = drv[d] /\ u = ucwd[d] /\ i = r.slot /\ h = Hit(r)
  OBVIOUS
<1>2. PICK f2, b2 : FatEdit(fat, blk, r.tgt, r.value, f2, b2) /\ Writes(d, Resume(r), f2, b2)
  BY <1>1, FatEditIs
<1>3. /\ r \in Local /\ r.pc = "fat_write" /\ r.op \in {"rm", "rmdir"} /\ Found(r) /\ h \in Cluster
      /\ r.tgt = h /\ r.value = Free
      /\ \/ r.then = "free" /\ r.cl \in Cluster
         \/ r.then = "erase" /\ r.cl = h
  BY <1>1, FatEditIs DEF Aiming, Waits
<1>4. /\ i \in Slots /\ i # 0 /\ r.sec \in [Slots -> Entry] /\ Live(r.sec[i])
      /\ r.sec[i].kind \in Wanted(r.op)
      /\ r.sec[i].cl = h
  BY <1>1, <1>3, FatBounds DEF Found, Hit, Slots
<1>5. Removing(d)
  BY <1>1, <1>3, <1>4 DEF Removing, Busy
<1>6. /\ d \notin gone /\ blk[u].ent[i] = r.sec[i]
      /\ r.op = "rmdir" => ~HasEntries(r.cl)
      /\ \A e \in Driver \ {d} : Removing(e) => Place(e) # Place(d)
      /\ r.then = "free" => fat[h] = r.cl
      /\ r.then = "erase" => fat[h] \notin Cluster
  BY <1>1, <1>3, <1>5 DEF OutOfDate
<1>7. /\ Settled(g, w) /\ Sound(g, w) /\ Relates(fat, blk, g, w, DyingOf(drv, ucwd))
      /\ drv \in [Driver -> {Idle} \cup Local] /\ C \in [Driver -> SUBSET Cluster]
      /\ ucwd[d] \in LiveDirsOf(g, w)
      /\ Inner(fat, blk, drv, ucwd, uparent, cwd, gone, killed, g, w, C)
  BY <1>6, InnerFacts DEF Follows, Inner, Settled
<1>8. PICK p : p = <<u, i>>
  OBVIOUS
<1>9. ~HalfOf(r)
  BY <1>1, <1>3 DEF HalfOf, FatPc
<1>10. p \notin DyingOf(drv, ucwd)
  <2> SUFFICES ASSUME NEW e \in Driver, HalfOf(drv[e]), p = <<ucwd[e], drv[e].slot>> PROVE FALSE
    BY DEF DyingOf
  <2>1. e # d
    BY <1>1, <1>9
  <2>2. Removing(e)
    BY DEF HalfOf, Removing, Busy
  <2>3. Place(e) = Place(d)
    BY <1>1, <1>8 DEF Place
  <2> QED
    BY <1>6, <2>1, <2>2, <2>3
<1>11. p \in PlacesOf(g, w) /\ AtOf(w, p) = r.sec[i] /\ p[1] = u /\ p[2] = i
  <2>1. u \in LiveDirsOf(fat, blk)
    BY <1>1, <1>7, RelatesFacts
  <2>2. p \in PlacesOf(fat, blk)
    BY <1>4, <1>6, <1>8, <2>1 DEF PlacesOf
  <2>3. p \in PlacesOf(g, w)
    BY <1>7, <1>10, <2>2, RelatesFacts
  <2>4. AtOf(blk, p) = AtOf(w, p)
    BY <1>7, <2>3, RelatesFacts
  <2> QED
    BY <1>6, <1>8, <2>3, <2>4 DEF AtOf
<1>12. PICK n, O : n = Clusters(AtOf(w, p)) /\ O = Owns(g, w, p)
  OBVIOUS
<1>13. /\ Proper(fat, h, n) /\ O = Chain(fat, h) /\ h \in O /\ n > 0 /\ n \in Nat
       /\ AtOf(w, p).kind = "dir" => n = 1
       /\ \A c \in O : fat[c] # Free /\ c \in Cluster
  <2>1. Proper(g, h, n) /\ \A c \in O : g[c] # Free /\ c \in Cluster
    BY <1>4, <1>7, <1>11, <1>12, PlaceFacts
  <2>2. O = Chain(g, h)
    BY <1>4, <1>11, <1>12 DEF Owns
  <2>3. \A c \in Chain(g, h) : fat[c] = g[c]
    BY <1>7, <2>1, <2>2 DEF Relates
  <2>4. Proper(fat, h, n) /\ Chain(fat, h) = Chain(g, h)
    BY <2>1, <2>3, ChainKept
  <2>5. n # 0
    BY <1>3, <2>4, ProperFacts, FatBounds
  <2>6. n \in Nat /\ h \in Chain(fat, h) /\ n > 0
    <3>1. n \in Nat
      BY <2>4, ProperFacts
    <3> QED
      BY <2>4, <2>5, <3>1, ProperFacts
  <2> QED
    BY <1>12, <2>1, <2>2, <2>3, <2>4, <2>6 DEF Clusters
<1>14. PICK q : q = BackSet(r)
  OBVIOUS
<1>15. /\ q \in Local /\ q.op = r.op /\ q.pc = r.then /\ q.slot = r.slot /\ q.cl = r.cl /\ q.sec = r.sec
  BY <1>3, <1>14, ResumeIs
<1>16. Found(q) /\ Hit(q) = h /\ Writes(d, q, f2, b2)
  BY <1>1, <1>2, <1>3, <1>14, <1>15, ResumeTo DEF Found, Hit
<1>17. /\ FatEdit(fat, blk, h, Free, f2, b2) /\ f2[h] = Free
       /\ \A c \in Cluster \ {h} : f2[c] = fat[c]
  BY <1>2, <1>3 DEF FatEdit
<1>18. PICK B2 : B2 = O \ {h}
  OBVIOUS
<1>19. Stage(f2, b2, q, u, B2) /\ HalfOf(q)
  <2>1. CASE r.then = "free" /\ r.cl \in Cluster
    <3>1. PICK m : m = n - 1
      OBVIOUS
    <3>2. /\ m \in Nat /\ m > 0 /\ Proper(fat, r.cl, m) /\ h \notin Chain(fat, r.cl)
          /\ O = {h} \cup Chain(fat, r.cl)
      BY <1>6, <1>13, <2>1, <3>1, ChainTail
    <3>3. r.cl \in Chain(fat, r.cl) /\ Chain(fat, r.cl) = B2
      BY <1>18, <3>2, ProperFacts
    <3>4. Proper(f2, r.cl, m) /\ Chain(f2, r.cl) = B2
      <4>1. \A c \in Chain(fat, r.cl) : f2[c] = fat[c]
        BY <1>13, <1>17, <3>2
      <4> QED
        BY <3>2, <3>3, <4>1, ChainKept
    <3>5. h \notin B2 /\ r.cl # h
      BY <1>18, <3>2, <3>3
    <3>6. Freeing(f2, q, B2)
      BY <1>3, <1>15, <1>16, <2>1, <3>2, <3>4, <3>5 DEF Freeing
    <3>7. HalfOf(q)
      BY <1>1, <1>3, <1>4, <1>15, <1>16, <2>1, <3>5 DEF HalfOf
    <3> QED
      BY <1>15, <3>6, <3>7 DEF Stage
  <2>2. CASE r.then = "erase" /\ r.cl = h
    <3>1. O = {h}
      BY <1>6, <1>13, <2>2, ChainTail
    <3>2. B2 = {}
      BY <1>18, <3>1
    <3>3. Leaving(q)
      BY <1>3, <1>15, <1>16, <2>2 DEF Leaving
    <3>4. HalfOf(q)
      BY <1>1, <1>3, <1>4, <1>15, <1>16, <2>2 DEF HalfOf
    <3> QED
      BY <1>15, <3>2, <3>3, <3>4 DEF Stage, Unladen
  <2> QED
    BY <1>3, <2>1, <2>2
<1>20. AtOf(w, p).kind = "dir" => Hollow(blk, h)
  <2> SUFFICES ASSUME AtOf(w, p).kind = "dir" PROVE Hollow(blk, h)
    OBVIOUS
  <2>1. r.op = "rmdir"
    BY <1>3, <1>4, <1>11 DEF Wanted
  <2>2. r.cl = h
    <3>1. CASE r.then = "free" /\ r.cl \in Cluster
      <4>1. n = 1 /\ n - 1 > 0
        BY <1>6, <1>13, <3>1, ChainTail
      <4> QED
        BY <4>1
    <3> QED
      BY <1>3, <3>1
  <2> QED
    BY <1>6, <2>1, <2>2 DEF HasEntries, Hollow
<1>21. PICK D2, C2, G2 : D2 = [drv EXCEPT ![d] = q] /\ C2 = [C EXCEPT ![d] = B2] /\ G2 = Lost(f2, b2)
  OBVIOUS
<1>22. /\ D2 \in [Driver -> {Idle} \cup Local] /\ Turned(drv, D2, d, q)
       /\ C2 \in [Driver -> SUBSET Cluster] /\ Turned(C, C2, d, B2)
  <2>1. B2 \in SUBSET Cluster
    BY <1>13, <1>18
  <2> QED
    BY <1>7, <1>15, <1>21, <2>1 DEF Turned
<1>23. Warned(ucwd, cwd, gone, G2, h)
  <2>1. Removed(h, f2, b2)
    BY <1>3, <1>17, FatBounds DEF Removed
  <2> QED
    BY <1>21, <2>1 DEF Lost, Warned
<1>24. \E g2, w2 : Inner(f2, b2, D2, ucwd, uparent, cwd, G2, killed, g2, w2, C2)
  <2>1. p \in PlacesOf(g, w) /\ p[1] = ucwd[d] /\ p[2] = q.slot /\ h = AtOf(w, p).cl /\ ~HalfOf(drv[d])
    BY <1>1, <1>4, <1>9, <1>11, <1>15
  <2>2. Stage(f2, b2, q, ucwd[d], B2) /\ HalfOf(q) /\ h \in Cluster
    BY <1>1, <1>3, <1>19
  <2>3. FatEdit(fat, blk, h, Free, f2, b2)
    BY <1>17
  <2>4. Inner(fat, blk, drv, ucwd, uparent, cwd, gone, killed, g, w, C)
    BY <1>7
  <2> QED
    BY <1>12, <1>18, <1>20, <1>22, <1>23, <2>1, <2>2, <2>3, <2>4, UnhookKept
<1> QED
  BY <1>16, <1>21, <1>24, WriteStep

LEMMA FatWriteKept ==
    ASSUME NEW g, NEW w, NEW C, Follows(g, w, C), Intact, NEW d \in Driver, FatWrite(d)
    PROVE  UIInv'
<1>1. CASE OutOfDate(d)
  <2>1. damage' = "race"
    BY <1>1 DEF FatWrite, Writes
  <2> QED
    BY <2>1, RaceIs
<1>2. CASE ~OutOfDate(d)
  <2>1. PICK r, u, B : r = drv[d] /\ u = ucwd[d] /\ B = C[d]
    OBVIOUS
  <2>2. Stage(fat, blk, r, u, B)
    BY <2>1, InnerFacts
  <2>3. r.pc \in FatPc
    BY <2>1 DEF FatWrite, FatPc
  <2>4. \/ Asking(r) /\ B = {}
        \/ Aiming(r) /\ B = {}
        \/ Stringing(fat, r, B) \/ Linking(fat, r, B)
        \/ Blocking(fat, blk, r, u, B) \/ Freeing(fat, r, B)
    BY <2>2, <2>3, StageAt
  <2>5. CASE Asking(r) /\ B = {}
    BY <1>2, <2>1, <2>5, AskingWritten
  <2>6. CASE Aiming(r) /\ B = {}
    BY <1>2, <2>1, <2>6, AimingWritten
  <2>7. CASE Stringing(fat, r, B)
    BY <1>2, <2>1, <2>7, StringingWritten
  <2>8. CASE Linking(fat, r, B)
    BY <1>2, <2>1, <2>8, LinkingWritten
  <2>9. CASE Blocking(fat, blk, r, u, B)
    BY <1>2, <2>1, <2>9, BlockingWritten
  <2>10. CASE Freeing(fat, r, B)
    BY <1>2, <2>1, <2>10, FreeingWritten
  <2> QED
    BY <2>4, <2>5, <2>6, <2>7, <2>8, <2>9, <2>10
<1> QED
  BY <1>1, <1>2

(* The driver writes a block that nobody reads yet.                        *)
LEMMA BlockStep ==
    ASSUME NEW g, NEW w, NEW C, Follows(g, w, C), Intact, NEW d \in Driver, NEW q, NEW t \in C[d],
           NEW x \in Block, \A i \in Slots : ~Live(x.ent[i]),
           NEW b2, b2 = [blk EXCEPT ![t] = x],
           Writes(d, q, fat, b2), ~OutOfDate(d), Stage(fat, b2, q, ucwd[d], C[d]),
           ~HalfOf(q), ~HalfOf(drv[d]), d \notin gone => AimedAt(blk, q, ucwd[d])
    PROVE  UIInv'
<1>1. /\ fat \in Tables /\ blk \in [Dirs -> Block] /\ C[d] \subseteq Cluster /\ fat[t] # Free
      /\ Bare(fat, blk)
  BY InnerFacts DEF Follows, Inner
<1>2. t \in Cluster /\ t \in Dirs /\ Cluster \subseteq Dirs
  BY <1>1 DEF Dirs
<1>3. b2 \in [Dirs -> Block] /\ b2[t] = x /\ \A y \in Dirs \ {t} : b2[y] = blk[y]
  BY <1>1, <1>2
<1>4. Bare(fat, b2)
  BY <1>1, <1>2, <1>3 DEF Bare
<1>5. Touched(fat, blk, fat, b2, t)
  BY <1>3 DEF Touched
<1>6. Grips(C[d], C[d], t, fat) /\ SameHalf(drv[d], q)
  BY <1>1 DEF Grips, SameHalf
<1> QED
  BY <1>1, <1>2, <1>3, <1>4, <1>5, <1>6, BusyStep

LEMMA WriteDataKept ==
    ASSUME NEW g, NEW w, NEW C, Follows(g, w, C), Intact, NEW d \in Driver, WriteData(d)
    PROVE  UIInv'
<1>1. PICK r, u, B, s : r = drv[d] /\ u = ucwd[d] /\ B = C[d] /\ s = Walk(fat, r.first)
  OBVIOUS
<1>2. PICK q, t, b2 : q = NextSet(r) /\ t = r.cl /\ b2 = [blk EXCEPT ![t] = DataBlock(r.v)]
  OBVIOUS
<1>3. r.pc = "data" /\ Writes(d, q, fat, b2)
  BY <1>1, <1>2 DEF WriteData, NextSet
<1>4. /\ Stage(fat, blk, r, u, B) /\ (d \notin gone => AimedAt(blk, r, u)) /\ blk \in [Dirs -> Block]
  BY <1>1, InnerFacts
<1>5. r \in Local /\ Filling(fat, blk, r, B)
  BY <1>3, <1>4, StageAt
<1>6. /\ Making(r) /\ Proper(fat, r.first, r.k) /\ B = Chain(fat, r.first) /\ r.n \in Nat /\ r.k \in Nat
      /\ r.n < r.k /\ t = s[r.n + 1] /\ r.op = "create" /\ r.v \in Val
      /\ \A i \in 1..r.n : blk[s[i]] = DataBlock(r.v)
  BY <1>1, <1>2, <1>3, <1>5 DEF Filling, Making, Local
<1>7. /\ q \in Local /\ q.op = r.op /\ q.pc = "next" /\ q.k = r.k /\ q.v = r.v /\ q.slot = r.slot
      /\ q.first = r.first /\ q.cl = t /\ q.n = r.n + 1
  BY <1>2, <1>5, ContentIs
<1>8. t \in B /\ t \in Cluster /\ \A j \in 1..r.k : s[j] \in Cluster /\ (s[j] = t => j = r.n + 1)
  <2>1. r.n + 1 \in 1..r.k
    BY <1>6
  <2>2. \A j \in 1..r.k : s[j] \in Cluster /\ s[j] \in Chain(fat, r.first)
    BY <1>1, <1>6, ChainNext
  <2>3. \A j \in 1..r.k : s[r.n + 1] = s[j] => r.n + 1 = j
    BY <1>1, <1>6, <2>1, ChainNext
  <2> QED
    BY <1>6, <2>1, <2>2, <2>3
<1>9. Cluster \subseteq Dirs
  BY DEF Dirs
<1>10. \A i \in 1..q.n : b2[s[i]] = DataBlock(q.v)
  <2> SUFFICES ASSUME NEW i \in 1..(r.n + 1) PROVE b2[s[i]] = DataBlock(r.v)
    BY <1>7
  <2>1. i \in 1..r.k /\ (i = r.n + 1 \/ i \in 1..r.n)
    BY <1>6
  <2>2. CASE i = r.n + 1
    BY <1>2, <1>4, <1>6, <1>8, <1>9, <2>2
  <2>3. CASE i \in 1..r.n
    <3>1. s[i] # t /\ s[i] \in Dirs
      BY <1>6, <1>8, <1>9, <2>1, <2>3
    <3> QED
      BY <1>2, <1>4, <1>6, <2>3, <3>1
  <2> QED
    BY <2>1, <2>2, <2>3
<1>11. Filling(fat, b2, q, B)
  <2>1. Making(q) /\ Proper(fat, q.first, q.k) /\ B = Chain(fat, q.first)
    BY <1>6, <1>7 DEF Making
  <2>2. q.n <= q.k /\ q.n > 0 /\ q.cl = Walk(fat, q.first)[q.n] /\ q.pc = "next"
    BY <1>1, <1>6, <1>7
  <2>3. \A i \in 1..q.n : b2[Walk(fat, q.first)[i]] = DataBlock(q.v)
    BY <1>1, <1>7, <1>10
  <2> QED
    BY <2>1, <2>2, <2>3 DEF Filling
<1>12. Stage(fat, b2, q, u, B) /\ ~HalfOf(q) /\ ~HalfOf(r)
  BY <1>6, <1>7, <1>11 DEF Stage, HalfOf
<1>13. d \notin gone => AimedAt(blk, q, u)
  BY <1>3, <1>4, <1>7, AimedStill
<1>14. PICK x : x = DataBlock(r.v)
  OBVIOUS
<1>15. x \in Block /\ \A i \in Slots : ~Live(x.ent[i])
  BY <1>6, <1>14, NewBlocks, NewEntries DEF DataBlock, Empty
<1>16. b2 = [blk EXCEPT ![t] = x] /\ t \in C[d] /\ ~OutOfDate(d)
  BY <1>1, <1>2, <1>3, <1>8, <1>14 DEF OutOfDate
<1> QED
  BY <1>1, <1>3, <1>12, <1>13, <1>15, <1>16, BlockStep

LEMMA WriteBlockKept ==
    ASSUME NEW g, NEW w, NEW C, Follows(g, w, C), Intact, NEW d \in Driver, WriteBlock(d)
    PROVE  UIInv'
<1>1. PICK r, u, B : r = drv[d] /\ u = ucwd[d] /\ B = C[d]
  OBVIOUS
<1>2. PICK q, t, x, b2 : /\ q = [r EXCEPT !.pc = "slot"] /\ t = r.cl /\ x = DirBlock(u)
                         /\ b2 = [blk EXCEPT ![t] = x]
  OBVIOUS
<1>3. r.pc = "block" /\ Writes(d, q, fat, b2)
  BY <1>1, <1>2 DEF WriteBlock
<1>4. /\ Stage(fat, blk, r, u, B) /\ (d \notin gone => AimedAt(blk, r, u)) /\ blk \in [Dirs -> Block]
      /\ u \in Dirs
  BY <1>1, InnerFacts
<1>5. r \in Local /\ Blocking(fat, blk, r, u, B)
  BY <1>3, <1>4, StageAt
<1>6. r.op = "mkdir" /\ t \in Cluster /\ B = {t} /\ fat[t] = Eoc /\ r.slot = 0
  BY <1>2, <1>3, <1>5 DEF Blocking, Waits, FatPc
<1>7. q \in Local /\ q.op = r.op /\ q.pc = "slot" /\ q.slot = r.slot /\ q.cl = t
  BY <1>2, <1>5, PcIs, PcTo
<1>8. b2[t] = x
  BY <1>2, <1>4, <1>6 DEF Dirs
<1>9. Stage(fat, b2, q, u, B) /\ ~HalfOf(q) /\ ~HalfOf(r)
  <2>1. Blocking(fat, b2, q, u, B)
    BY <1>2, <1>6, <1>7, <1>8 DEF Blocking
  <2> QED
    BY <1>6, <1>7, <2>1 DEF Stage, HalfOf
<1>10. d \notin gone => AimedAt(blk, q, u)
  BY <1>3, <1>4, <1>7, AimedStill
<1>11. x \in Block /\ \A i \in Slots : ~Live(x.ent[i])
  BY <1>2, <1>4, NewBlocks, NewEntries
<1>12. t \in C[d] /\ ~OutOfDate(d)
  BY <1>1, <1>3, <1>6 DEF OutOfDate
<1> QED
  BY <1>1, <1>2, <1>3, <1>9, <1>10, <1>11, <1>12, BlockStep

-----------------------------------------------------------------------------
(* What the invariant says of the properties                               *)

LEMMA HalfIs ==
    ASSUME NEW d
    PROVE  HalfRemoved(d) <=> HalfOf(drv[d])
<1>1. PICK r : r = drv[d]
  OBVIOUS
<1>2. HalfRemoved(d) <=>
        /\ r.pc # "idle" /\ r.op \in {"rm", "rmdir"} /\ r.slot # 0 /\ Hit(r) \in Cluster
        /\ CASE r.pc = "erase" -> TRUE
             [] r.pc = "free" -> r.cl # Hit(r)
             [] r.pc \in {"fat_read", "fat_write"} -> r.tgt # Hit(r)
             [] OTHER -> FALSE
  BY <1>1 DEF HalfRemoved, Removing, Busy, Hit
<1>3. HalfOf(r) <=>
        /\ r.pc # "idle" /\ r.op \in {"rm", "rmdir"} /\ r.slot # 0 /\ Hit(r) \in Cluster
        /\ \/ r.pc = "erase"
           \/ r.pc = "free" /\ r.cl # Hit(r)
           \/ r.pc \in {"fat_read", "fat_write"} /\ r.tgt # Hit(r)
  BY DEF HalfOf, FatPc
<1>4. CASE r.pc = "erase"
  BY <1>1, <1>2, <1>3, <1>4
<1>5. CASE r.pc = "free"
  BY <1>1, <1>2, <1>3, <1>5
<1>6. CASE r.pc \in {"fat_read", "fat_write"}
  BY <1>1, <1>2, <1>3, <1>6
<1>7. CASE r.pc \notin {"erase", "free", "fat_read", "fat_write"}
  BY <1>1, <1>2, <1>3, <1>7
<1> QED
  BY <1>4, <1>5, <1>6, <1>7

LEMMA HeldIs == \A d : Held(d) = HeldOf(fat, drv[d])
BY DEF HeldOf, Held, Busy

LEMMA DyingIs == Dying = DyingOf(drv, ucwd)
<1>1. {x \in Driver : HalfRemoved(x)} = {x \in Driver : HalfOf(drv[x])}
  BY HalfIs
<1> QED
  BY <1>1 DEF Dying, DyingOf, Place

(* What ufs_read_file makes of a file                                      *)
LEMMA ReadWhole ==
    ASSUME NEW d, NEW e, LeadsTo(fat, blk, d, e), e.kind = "file"
    PROVE  ReadFile(e) = [n \in 1..e.size |-> DataBlock(e.val)]
<1>1. PICK n, s : n = e.size /\ s = Walk(fat, e.cl)
  OBVIOUS
<1>2. Proper(fat, e.cl, n) /\ \A c \in Chain(fat, e.cl) : blk[c] = DataBlock(e.val)
  BY <1>1 DEF LeadsTo, Clusters
<1>3. n \in Nat /\ s \in [1..n -> Cluster] /\ Chain(fat, e.cl) = {s[i] : i \in 1..n}
  BY <1>1, <1>2, ProperFacts
<1>4. \A i \in 1..n : blk[s[i]] = DataBlock(e.val)
  BY <1>2, <1>3
<1>5. Len(s) = n
  BY <1>3
<1>6. ReadFile(e) = [i \in 1..n |-> blk[s[i]]]
  BY <1>1, <1>3, <1>5 DEF ReadFile
<1>7. ReadFile(e) = [i \in 1..n |-> DataBlock(e.val)]
  BY <1>4, <1>6
<1> QED
  BY <1>1, <1>7

(* Beside a sound volume every entry that is not half removed is sound.    *)
Clean == \E g, w : Sound(g, w) /\ Relates(fat, blk, g, w, DyingOf(drv, ucwd))

LEMMA CleanFiles == Clean => UNoSharedCluster /\ UFilesReadBack
<1> SUFFICES ASSUME Clean PROVE UNoSharedCluster /\ UFilesReadBack
  OBVIOUS
<1>1. PICK g, w : Sound(g, w) /\ Relates(fat, blk, g, w, DyingOf(drv, ucwd))
  BY DEF Clean
<1>2. /\ PlacesOf(fat, blk) \ DyingOf(drv, ucwd) = PlacesOf(g, w)
      /\ \A p \in PlacesOf(g, w) : /\ Owns(fat, blk, p) = Owns(g, w, p)
                                   /\ LeadsTo(fat, blk, p[1], AtOf(blk, p))
  BY <1>1, RelatesFacts
<1>3. Places \ Dying = PlacesOf(g, w) /\ \A p : At(p) = AtOf(blk, p)
  BY <1>2, DyingIs, SamePlaces
<1>4. ASSUME NEW p \in Places \ Dying, NEW q \in Places \ Dying, p # q
      PROVE  Chain(fat, At(p).cl) \cap Chain(fat, At(q).cl) = {}
  <2>1. Owns(g, w, p) \cap Owns(g, w, q) = {}
    BY <1>1, <1>3, <1>4 DEF Sound
  <2>2. Owns(fat, blk, p) \cap Owns(fat, blk, q) = {}
    BY <1>2, <1>3, <2>1
  <2> QED
    BY <1>3, <2>2 DEF Owns
<1>5. ASSUME NEW p \in Places \ Dying, At(p).kind = "file"
      PROVE  ReadFile(At(p)) = [n \in 1..At(p).size |-> DataBlock(At(p).val)]
  BY <1>2, <1>3, <1>5, ReadWhole
<1>6. UNoSharedCluster
  BY <1>4 DEF UNoSharedCluster
<1>7. UFilesReadBack
  BY <1>5 DEF UFilesReadBack
<1> QED
  BY <1>6, <1>7

(* An entry whose first cluster is free shares nothing, and of the others  *)
(* the same holds as on a clean disk.                                      *)
ClearedAt(p) == At(p).cl \in Cluster /\ fat[At(p).cl] = Free
Cleaned == \E g, w, p : /\ Sound(g, w) /\ Relates(fat, blk, g, w, DyingOf(drv, ucwd) \cup {p})
                        /\ ClearedAt(p)

LEMMA ChainFreed ==
    ASSUME NEW f, NEW c \in Cluster, f[c] = Free
    PROVE  Chain(f, c) = {c}
<1> DEFINE T == [n \in 1..LastCluster |-> IF n = 1 THEN c ELSE Free]
<1>1. Free \notin Cluster /\ LastCluster \in Nat /\ LastCluster >= 2
  BY FatBounds
<1>2. Goes(f, c, T)
  <2>1. ASSUME NEW n \in 1..LastCluster, n # 1 PROVE NextCluster(f, T[n - 1]) = Free
    <3>1. n - 1 \in 1..LastCluster
      BY <1>1, <2>1
    <3>2. T[n - 1] = c \/ T[n - 1] = Free
      BY <3>1
    <3> QED
      BY <1>1, <3>2 DEF NextCluster
  <2> QED
    BY <2>1 DEF Goes
<1>3. PICK t : t = T
  OBVIOUS
<1>4. Turns(f, c) = t
  BY <1>2, <1>3, TurnsAre
<1>5. {i \in 1..LastCluster : t[i] \in Cluster} = {1} /\ t[1] = c
  BY <1>1, <1>3
<1>6. Walk(f, c) = [n \in 1..1 |-> t[n]]
  <2>1. Cardinality({1}) = 1
    BY FS_Singleton
  <2> QED
    BY <1>4, <1>5, <2>1 DEF Walk
<1> QED
  BY <1>5, <1>6 DEF Chain

LEMMA CleanedFiles == Cleaned => UNoSharedCluster /\ (damage \in NoRoom => UFilesReadBack)
<1> SUFFICES ASSUME Cleaned PROVE UNoSharedCluster /\ (damage \in NoRoom => UFilesReadBack)
  OBVIOUS
<1>1. PICK g, w, z : /\ Sound(g, w) /\ Relates(fat, blk, g, w, DyingOf(drv, ucwd) \cup {z})
                     /\ ClearedAt(z)
  BY DEF Cleaned
<1>2. PICK Z : Z = DyingOf(drv, ucwd) \cup {z}
  OBVIOUS
<1>3. /\ PlacesOf(fat, blk) \ Z = PlacesOf(g, w)
      /\ \A p \in PlacesOf(g, w) : /\ Owns(fat, blk, p) = Owns(g, w, p)
                                   /\ LeadsTo(fat, blk, p[1], AtOf(blk, p))
  BY <1>1, <1>2, RelatesFacts
<1>4. (Places \ Dying) \ {z} \subseteq PlacesOf(g, w) /\ \A p : At(p) = AtOf(blk, p)
  BY <1>2, <1>3, DyingIs, SamePlaces
<1>5. Chain(fat, At(z).cl) = {At(z).cl}
  BY <1>1, ChainFreed DEF ClearedAt
<1>6. ASSUME NEW p \in (Places \ Dying) \ {z}
      PROVE  Chain(fat, At(p).cl) \cap Chain(fat, At(z).cl) = {}
  <2>1. LeadsTo(fat, blk, p[1], At(p))
    BY <1>3, <1>4
  <2>2. \A x \in Chain(fat, At(p).cl) : fat[x] # Free
    BY <2>1, ProperFacts DEF LeadsTo
  <2> QED
    BY <1>1, <1>5, <2>2 DEF ClearedAt
<1>7. ASSUME NEW p \in Places \ Dying, NEW q \in Places \ Dying, p # q
      PROVE  Chain(fat, At(p).cl) \cap Chain(fat, At(q).cl) = {}
  <2>1. CASE p # z /\ q # z
    <3>1. Owns(g, w, p) \cap Owns(g, w, q) = {}
      BY <1>1, <1>4, <1>7, <2>1 DEF Sound
    <3>2. Owns(fat, blk, p) \cap Owns(fat, blk, q) = {}
      BY <1>3, <1>4, <2>1, <3>1
    <3> QED
      BY <1>4, <3>2 DEF Owns
  <2>2. CASE p = z
    BY <1>6, <1>7, <2>2
  <2>3. CASE q = z
    BY <1>6, <1>7, <2>3
  <2> QED
    BY <2>1, <2>2, <2>3
<1>8. UNoSharedCluster
  BY <1>7 DEF UNoSharedCluster
<1>9. ASSUME damage \in NoRoom, NEW p \in Places \ Dying, At(p).kind = "file", ~Emptied(p)
      PROVE  ReadFile(At(p)) = [n \in 1..At(p).size |-> DataBlock(At(p).val)]
  <2>1. p # z
    BY <1>1, <1>9 DEF ClearedAt, Emptied
  <2>2. LeadsTo(fat, blk, p[1], At(p))
    BY <1>3, <1>4, <2>1
  <2> QED
    BY <1>9, <2>2, ReadWhole
<1>10. ASSUME damage \in NoRoom PROVE UFilesReadBack
  BY <1>9, <1>10 DEF UFilesReadBack
<1> QED
  BY <1>8, <1>10

(* Every cluster that is taken is an entry's or in a driver's hands, or    *)
(* was in those of one that was killed.                                    *)
Settling(Z) ==
    /\ DyingOf(drv, ucwd) \subseteq Z
    /\ \E g, w, C : /\ Settled(g, w) /\ Relates(fat, blk, g, w, Z) /\ Paid(fat, g, C, killed)
                    /\ \A d \in Driver : Stage(fat, blk, drv[d], ucwd[d], C[d])
PaidFor == \E Z : Settling(Z)

(* What no entry leads to is not taken on the settled volume.              *)
LEMMA UnownedFree ==
    ASSUME NEW g, NEW w, NEW Z, DyingOf(drv, ucwd) \subseteq Z, Settled(g, w),
           Relates(fat, blk, g, w, Z), NEW c \in Unowned
    PROVE  c \in Cluster /\ fat[c] # Free /\ g[c] = Free
<1>1. c \in Cluster /\ fat[c] # Free /\ \A p \in Places \ Dying : c \notin Chain(fat, At(p).cl)
  BY DEF Unowned
<1>2. SUFFICES ASSUME g[c] # Free PROVE FALSE
  BY <1>1
<1>3. PICK p \in PlacesOf(g, w) : c \in Owns(g, w, p)
  BY <1>1, <1>2 DEF Settled, Covered
<1>4. p \in PlacesOf(fat, blk) /\ p \notin Z /\ Owns(fat, blk, p) = Owns(g, w, p)
  BY <1>3, RelatesFacts DEF Settled
<1>5. p \in Places \ Dying /\ c \in Chain(fat, At(p).cl)
  BY <1>3, <1>4, SamePlaces, DyingIs DEF Owns
<1> QED
  BY <1>1, <1>5

(* And what is taken beside it, nobody but a removed entry leads to.       *)
LEMMA FreeUnowned ==
    ASSUME NEW g, NEW w, Settled(g, w), Relates(fat, blk, g, w, DyingOf(drv, ucwd)),
           NEW c \in Cluster, fat[c] # Free, g[c] = Free
    PROVE  c \in Unowned
<1> SUFFICES ASSUME NEW p \in Places \ Dying, c \in Chain(fat, At(p).cl) PROVE FALSE
  BY DEF Unowned
<1>1. PICK Z : Z = DyingOf(drv, ucwd)
  OBVIOUS
<1>2. Sound(g, w) /\ Relates(fat, blk, g, w, Z)
  BY <1>1 DEF Settled
<1>3. p \in PlacesOf(fat, blk) \ Z /\ At(p) = AtOf(blk, p)
  BY <1>1, SamePlaces, DyingIs
<1>4. p \in PlacesOf(g, w) /\ Owns(fat, blk, p) = Owns(g, w, p)
  BY <1>2, <1>3, RelatesFacts
<1>5. c \in Owns(g, w, p)
  BY <1>3, <1>4 DEF Owns
<1>6. \A x \in Owns(g, w, p) : g[x] # Free
  BY <1>2, <1>4, PlaceFacts
<1> QED
  BY <1>5, <1>6

LEMMA PaidLeaks == PaidFor => ULeakCause
<1> SUFFICES ASSUME PaidFor, NEW c \in Unowned, c \notin killed
             PROVE  c \in UNION {Held(d) : d \in Driver}
  BY DEF ULeakCause
<1>1. PICK g, w, C, Z : /\ DyingOf(drv, ucwd) \subseteq Z /\ Settled(g, w)
                        /\ Relates(fat, blk, g, w, Z) /\ Paid(fat, g, C, killed)
                        /\ \A d \in Driver : Stage(fat, blk, drv[d], ucwd[d], C[d])
  BY DEF PaidFor, Settling
<1>2. c \in Cluster /\ fat[c] # Free /\ g[c] = Free
  BY <1>1, UnownedFree
<1>4. PICK d \in Driver : c \in C[d]
  BY <1>1, <1>2 DEF Paid
<1>5. c \in HeldOf(fat, drv[d])
  BY <1>1, <1>4, StageHeld
<1>6. c \in Held(d)
  BY <1>5, HeldIs
<1> QED
  BY <1>6

(* Where the drivers work                                                  *)
Lodged == \E L : L \subseteq LiveDirsOf(fat, blk) /\ Dwelling(blk, ucwd, uparent, cwd, gone, L)

LEMMA LodgedParents == Lodged => ParentExact
<1> SUFFICES ASSUME Lodged, NEW d \in Driver \ gone, ucwd[d] # Root
             PROVE  ucwd[d] \in LiveDirs /\ uparent[d] = blk[ucwd[d]].up
  BY DEF ParentExact
<1>1. PICK L : L \subseteq LiveDirsOf(fat, blk) /\ Dwelling(blk, ucwd, uparent, cwd, gone, L)
  BY DEF Lodged
<1> QED
  BY <1>1, SamePlaces DEF Dwelling

LEMMA FollowedWell ==
    ASSUME NEW f, NEW b, NEW D, NEW U, NEW P, NEW k, NEW G, NEW K, NEW g, NEW w, NEW C,
           Inner(f, b, D, U, P, k, G, K, g, w, C)
    PROVE  /\ Settled(g, w) /\ Sound(g, w) /\ Relates(f, b, g, w, DyingOf(D, U)) /\ Paid(f, g, C, K)
           /\ \A d \in Driver : Stage(f, b, D[d], U[d], C[d])
           /\ LiveDirsOf(g, w) \subseteq LiveDirsOf(f, b) /\ Dwelling(b, U, P, k, G, LiveDirsOf(g, w))
<1>1. Settled(g, w) /\ Relates(f, b, g, w, DyingOf(D, U))
  BY DEF Inner
<1>2. Sound(g, w)
  BY <1>1 DEF Settled
<1> QED
  BY <1>1, <1>2, RelatesFacts DEF Inner

LEMMA Promised == Followed => Promises
<1> SUFFICES ASSUME Followed PROVE Promises
  OBVIOUS
<1>1. PICK g, w, C : Inner(fat, blk, drv, ucwd, uparent, cwd, gone, killed, g, w, C)
  BY DEF Followed, Follows
<1>2. /\ Settled(g, w) /\ Sound(g, w) /\ Relates(fat, blk, g, w, DyingOf(drv, ucwd))
      /\ Paid(fat, g, C, killed)
      /\ \A d \in Driver : Stage(fat, blk, drv[d], ucwd[d], C[d])
      /\ LiveDirsOf(g, w) \subseteq LiveDirsOf(fat, blk)
      /\ Dwelling(blk, ucwd, uparent, cwd, gone, LiveDirsOf(g, w))
  BY <1>1, FollowedWell
<1>3. Clean
  BY <1>2 DEF Clean
<1>4. PaidFor
  BY <1>2 DEF PaidFor, Settling
<1>5. Lodged
  BY <1>2 DEF Lodged
<1> QED
  BY <1>3, <1>4, <1>5, CleanFiles, PaidLeaks, LodgedParents DEF Promises

(* A step that keeps everything in order                                   *)
LEMMA FollowedIs ==
    ASSUME NEW g, NEW w, NEW C,
           Inner(fat', blk', drv', ucwd', uparent', cwd', gone', killed', g, w, C)
    PROVE  UIInv'
<1>1. Followed'
  BY DEF Followed, Follows
<1>2. Followed' => Promises'
  BY Promised, PTL
<1> QED
  BY <1>1, <1>2 DEF UIInv

-----------------------------------------------------------------------------
(* New entries and new names                                               *)

(* A slot the scan for a free one can end at                               *)
Spot(b, u, i) ==
    ~Live(b[u].ent[i]) /\ \A j \in Slots : j < i => b[u].ent[j].kind # "end"

(* Entry e, which leads to clusters N, comes to slot i of directory u.     *)
EntryAdded(f, b, u, i, e, N, f2, b2) ==
    /\ DiskGrown(f, b, u, i, e, N, f2, b2) /\ N = Chain(f2, e.cl) /\ LeadsTo(f2, b2, u, e)
    /\ e.kind = "dir" => \A j \in Slots : b2[e.cl].ent[j] = End

Vacant(g, N) == \A x \in N : g[x] = Free
Sheltered(e, Z, L) == e.kind = "dir" => \A x, j : <<x, j>> \in Z => x \in L
Within(Z, L) == \A x, j : <<x, j>> \in Z => x \in L

LEMMA AddedOn ==
    ASSUME NEW f, NEW b, NEW g, NEW w, NEW Z, Sound(g, w), Relates(f, b, g, w, Z),
           NEW u \in LiveDirsOf(g, w), NEW i \in Slots, Spot(b, u, i), <<u, i>> \notin Z,
           NEW N, Vacant(g, N), NEW e \in Entry, Live(e), Sheltered(e, Z, LiveDirsOf(g, w)),
           NEW f2 \in Tables, NEW b2 \in [Dirs -> Block],
           EntryAdded(f, b, u, i, e, N, f2, b2)
    PROVE  \E g2, w2 :
              /\ Sound(g2, w2) /\ (Settled(g, w) => Settled(g2, w2)) /\ Relates(f2, b2, g2, w2, Z)
              /\ LiveDirsOf(g, w) \subseteq LiveDirsOf(g2, w2)
              /\ e.kind # "dir" => LiveDirsOf(g2, w2) = LiveDirsOf(g, w)
              /\ \A x \in Cluster : g2[x] = IF x \in N THEN f2[x] ELSE g[x]
<1>1. /\ Sound(g, w) /\ g \in Tables /\ w \in [Dirs -> Block]
      /\ \A x \in LiveDirsOf(g, w) :
            \A j \in Slots : w[x].ent[j] = IF <<x, j>> \in Z THEN Deleted ELSE b[x].ent[j]
  BY DEF Sound, Relates
<1>2. /\ \A x \in Cluster \ N : f2[x] = f[x]
      /\ \A x \in Dirs \ {u} : x \notin N /\ (x = Root \/ f2[x] # Free) => b2[x] = b[x]
      /\ b2[u].is = "dir" /\ b2[u].up = b[u].up /\ b2[u].ent[i] = e
      /\ \A j \in Slots \ {i} : b2[u].ent[j] = b[u].ent[j]
      /\ N = Chain(f2, e.cl) /\ LeadsTo(f2, b2, u, e)
      /\ e.kind = "dir" => \A j \in Slots : b2[e.cl].ent[j] = End
  BY DEF EntryAdded, DiskGrown
<1>3. PICK c, n : c = e.cl /\ n = Clusters(e)
  OBVIOUS
<1>4. Proper(f2, c, n) /\ N = Chain(f2, c) /\ N \subseteq Cluster /\ \A x \in N : f2[x] # Free
  <2>1. Proper(f2, c, n)
    BY <1>2, <1>3 DEF LeadsTo
  <2>2. Chain(f2, c) \subseteq Cluster /\ \A x \in Chain(f2, c) : f2[x] # Free
    BY <2>1, ProperFacts
  <2>3. N = Chain(f2, c)
    BY <1>2, <1>3
  <2> QED
    BY <2>1, <2>2, <2>3
<1>5. PICK g2 : g2 = [x \in Cluster |-> IF x \in N THEN f2[x] ELSE g[x]]
  OBVIOUS
<1>6. PICK w2 : w2 = [x \in Dirs |-> IF x = u THEN Edited(w[u], i, e) ELSE IF x \in N THEN b2[x] ELSE w[x]]
  OBVIOUS
<1>7. /\ u \in Dirs /\ w[u].is = "dir" /\ u \notin N /\ Edited(w[u], i, e) \in Block
      /\ Cluster \subseteq Dirs
  <2>1. u \in Dirs /\ w[u].is = "dir" /\ (u = Root \/ g[u] # Free) /\ Cluster \subseteq Dirs
    BY <1>1 DEF LiveDirsOf, Dirs, Sound
  <2>2. u \notin N
    BY <1>4, <2>1, FatBounds DEF Vacant
  <2>3. w[u] \in Block
    BY <1>1, <2>1
  <2>4. Edited(w[u], i, e) \in Block
    BY <2>1, <2>3, BlockFacts
  <2> QED
    BY <2>1, <2>2, <2>4
<1>8. /\ g2 \in Tables /\ \A x \in Cluster : g2[x] = IF x \in N THEN f2[x] ELSE g[x]
  BY <1>1, <1>5 DEF Tables
<1>9. /\ w2 \in [Dirs -> Block] /\ w2[u] = Edited(w[u], i, e)
      /\ \A x \in Dirs \ {u} : x \notin N => w2[x] = w[x]
      /\ \A x \in N : w2[x] = b2[x]
  BY <1>1, <1>4, <1>6, <1>7
<1>10. Proper(g2, c, n) /\ Chain(g2, c) = Chain(f2, c)
  <2>1. \A x \in Chain(f2, c) : g2[x] = f2[x]
    BY <1>4, <1>8
  <2> QED
    BY <1>4, <2>1, ChainKept
<1>11. LeadsTo(g2, w2, u, e)
  <2>1. e.kind = "file" => \A x \in Chain(g2, e.cl) : w2[x] = DataBlock(e.val)
    BY <1>2, <1>3, <1>9, <1>10 DEF LeadsTo
  <2>2. e.kind = "dir" => w2[e.cl].is = "dir" /\ w2[e.cl].up = u
    <3>1. e.kind = "dir" => e.cl \in N
      BY <1>2, <1>3, <1>4, ProperFacts DEF Clusters
    <3> QED
      BY <1>2, <1>9, <3>1 DEF LeadsTo
  <2> QED
    BY <1>3, <1>10, <2>1, <2>2 DEF LeadsTo
<1>12. e.kind = "dir" => e.cl \in N
  BY <1>2, <1>3, <1>4, ProperFacts DEF Clusters
<1>13. /\ ~Live(w[u].ent[i]) /\ \A j \in Slots : j < i => w[u].ent[j].kind # "end"
  <2>1. \A j \in Slots : w[u].ent[j] = Deleted \/ w[u].ent[j] = b[u].ent[j]
    BY <1>1
  <2>2. ~Live(b[u].ent[i]) /\ \A j \in Slots : j < i => b[u].ent[j].kind # "end"
    BY DEF Spot
  <2>3. ~Live(Deleted) /\ Deleted.kind # "end"
    BY NewEntries
  <2> QED
    BY <2>1, <2>2, <2>3
<1>14. /\ Sound(g2, w2) /\ (Settled(g, w) => Settled(g2, w2))
       /\ LiveDirsOf(g2, w2) = LiveDirsOf(g, w) \cup (IF e.kind = "dir" THEN {e.cl} ELSE {})
  <2>1. N = Chain(g2, e.cl)
    BY <1>2, <1>3, <1>10
  <2>2. \A x \in N : g[x] = Free
    BY DEF Vacant
  <2>3. \A x \in Cluster \ N : g2[x] = g[x]
    BY <1>8
  <2>4. e.kind = "dir" => \A j \in Slots : w2[e.cl].ent[j] = End
    BY <1>2, <1>9, <1>12
  <2> QED
    BY <1>8, <1>9, <1>11, <1>13, <2>1, <2>2, <2>3, <2>4, SettledAdd
<1>15. Relates(f2, b2, g2, w2, Z)
  <2>1. \A x \in N : g[x] = Free /\ g2[x] # Free
    BY <1>4, <1>8 DEF Vacant
  <2>2. \A x \in Cluster \ N : g2[x] = g[x]
    BY <1>8
  <2>4. \A x \in N : f2[x] = g2[x] /\ b2[x] = w2[x]
    BY <1>4, <1>8, <1>9
  <2>5. DiskGrown(f, b, u, i, e, N, f2, b2)
    BY DEF EntryAdded
  <2>6. SettledGrown(g, w, u, i, e, N, g2, w2)
    BY <1>4, <1>9, <1>12, <1>14, <2>1, <2>2 DEF SettledGrown
  <2>7. Alike(N, f2, b2, g2, w2)
    BY <2>4 DEF Alike
  <2>8. Outside(e, Z, N)
    <3>1. \A x \in N : x \notin LiveDirsOf(g, w)
      BY <1>4, <2>1, FatBounds DEF LiveDirsOf
    <3> QED
      BY <3>1, Zenon DEF Outside, Sheltered
  <2>9. Sound(g, w)
    BY <1>1
  <2> QED
    BY <2>5, <2>6, <2>7, <2>8, <2>9, RelatesAdd
<1>16. /\ LiveDirsOf(g, w) \subseteq LiveDirsOf(g2, w2)
       /\ e.kind # "dir" => LiveDirsOf(g2, w2) = LiveDirsOf(g, w)
  BY <1>14
<1> QED
  BY <1>8, <1>14, <1>15, <1>16

(* One entry of directory u changes.                                       *)
OneEdit(b, u, i, b2) ==
    /\ b2[u].is = "dir" /\ b2[u].up = b[u].up /\ b2[u].ent[i].kind # "end"
    /\ \A j \in Slots \ {i} : b2[u].ent[j] = b[u].ent[j]
    /\ \A x \in Dirs \ {u} : b2[x] = b[x]

(* A half removed entry stays, whoever changes its name.                   *)
Unmoved(b, b2, D, U, u, i) ==
    \A e \in Driver : HalfOf(D[e]) /\ U[e] = u /\ D[e].slot = i =>
       Live(b2[u].ent[i]) /\ b2[u].ent[i].cl = b[u].ent[i].cl

(* What a driver had in its hands is an entry's from here on.              *)
Gained(g, B, f, g2) == \A c \in Cluster : g2[c] = IF c \in B THEN f[c] ELSE g[c]

(* A driver writes its directory and has done.                             *)
LEMMA DoneKept ==
    ASSUME NEW f, NEW b, NEW D, NEW U, NEW P, NEW k, NEW G, NEW K, NEW g, NEW w, NEW C,
           Inner(f, b, D, U, P, k, G, K, g, w, C), NEW G2, G \subseteq G2,
           NEW d \in Driver, NEW u, u = U[d], NEW i \in Slots, u \in LiveDirsOf(g, w),
           NEW b2 \in [Dirs -> Block], OneEdit(b, u, i, b2),
           NEW D2 \in [Driver -> {Idle} \cup Local], Turned(D, D2, d, Idle), Unmoved(b, b2, D2, U, u, i),
           NEW g2, NEW w2, Settled(g2, w2), Relates(f, b2, g2, w2, DyingOf(D2, U)),
           LiveDirsOf(g, w) \subseteq LiveDirsOf(g2, w2), Gained(g, C[d], f, g2)
    PROVE  \E C2 : Inner(f, b2, D2, U, P, k, G2, K, g2, w2, C2)
<1>1. /\ f \in Tables /\ b \in [Dirs -> Block] /\ D \in [Driver -> {Idle} \cup Local]
      /\ C \in [Driver -> SUBSET Cluster] /\ Bare(f, b) /\ Apart(f, g, C)
      /\ Relates(f, b, g, w, DyingOf(D, U))
      /\ Halves(b, D, U, LiveDirsOf(g, w)) /\ Dwelling(b, U, P, k, G, LiveDirsOf(g, w))
  BY DEF Inner
<1>2. PICK L, L2, W, C2 : /\ L = LiveDirsOf(g, w) /\ L2 = LiveDirsOf(g2, w2) /\ W = Driver \ {d}
                          /\ C2 = [C EXCEPT ![d] = {}]
  OBVIOUS
<1>3. /\ b2[u].is = "dir" /\ b2[u].up = b[u].up /\ b2[u].ent[i].kind # "end"
      /\ \A j \in Slots \ {i} : b2[u].ent[j] = b[u].ent[j]
      /\ \A x \in Dirs \ {u} : b2[x] = b[x]
  BY DEF OneEdit
<1>4. /\ u = Root \/ (u \in Cluster /\ g[u] # Free /\ f[u] # Free)
      /\ Cluster \subseteq Dirs /\ Root \notin Cluster /\ L \subseteq Dirs
  <2>1. u = Root \/ (u \in Cluster /\ g[u] # Free)
    BY DEF LiveDirsOf
  <2>2. \A c \in Cluster : g[c] # Free => f[c] # Free
    BY <1>1 DEF Relates
  <2> QED
    BY <1>2, <2>1, <2>2, FatBounds DEF LiveDirsOf, Dirs
<1>5. /\ D2 \in [Driver -> {Idle} \cup Local] /\ Turned(D, D2, d, Idle)
      /\ C2 \in [Driver -> SUBSET Cluster] /\ Turned(C, C2, d, {})
  BY <1>1, <1>2 DEF Turned
<1>6. \A e \in Driver \ {d} : \A c \in C[e] : c \in Cluster /\ c \notin C[d] /\ g[c] = Free
  BY <1>1 DEF Apart
<1>7. Spared(f, b, C, f, b2, g2, W)
  <2> SUFFICES ASSUME NEW e \in Driver \ {d}, NEW c \in C[e] PROVE b2[c] = b[c] /\ g2[c] = Free
    BY <1>2 DEF Spared
  <2>1. c \in Cluster /\ c # u /\ c \notin C[d] /\ g[c] = Free
    BY <1>4, <1>6
  <2> QED
    BY <1>3, <1>4, <2>1 DEF Gained
<1>8. Settles(f, g, C[d], f, g2, {})
  BY DEF Settles, Gained
<1>9. Stage(f, b2, Idle, U[d], {}) /\ AimedAt(b2, Idle, U[d]) /\ ~HalfOf(Idle)
  BY IdleIs
<1>10. Bare(f, b2)
  <2> SUFFICES ASSUME NEW c \in Cluster, f[c] = Free PROVE b2[c].is # "dir"
    BY DEF Bare
  <2>1. c # u /\ c \in Dirs
    BY <1>4
  <2> QED
    BY <1>1, <1>3, <2>1 DEF Bare
<1>11. Halves(b2, D2, U, L2)
  <2>1. \A e \in Driver : HalfOf(D2[e]) => HalfOf(D[e]) /\ D2[e].slot = D[e].slot
    BY <1>5, <1>9 DEF Turned
  <2>2. ASSUME NEW e \in Driver, HalfOf(D2[e])
        PROVE  /\ U[e] \in L2 /\ Live(b2[U[e]].ent[D2[e].slot])
               /\ b2[U[e]].ent[D2[e].slot].cl = b[U[e]].ent[D2[e].slot].cl
    <3>1. PICK x, j : x = U[e] /\ j = D2[e].slot
      OBVIOUS
    <3>2. x \in L /\ Live(b[x].ent[j])
      BY <1>1, <1>2, <2>1, <2>2, <3>1 DEF Halves
    <3>3. j \in Slots
      <4>1. Stage(f, b, D[e], U[e], C[e])
        BY DEF Inner
      <4> QED
        BY <2>1, <2>2, <3>1, <4>1, HalfStage
    <3>4. CASE x = u /\ j = i
      BY <1>2, <2>2, <3>1, <3>2, <3>4 DEF Unmoved
    <3>5. CASE x = u /\ j # i
      <4>1. b2[x].ent[j] = b[x].ent[j]
        BY <1>3, <3>3, <3>5
      <4> QED
        BY <1>2, <3>1, <3>2, <4>1
    <3>6. CASE x # u
      <4>1. b2[x] = b[x]
        BY <1>3, <1>4, <3>2, <3>6
      <4> QED
        BY <1>2, <3>1, <3>2, <4>1
    <3> QED
      BY <3>4, <3>5, <3>6
  <2>3. ASSUME NEW e \in Driver, HalfOf(D2[e]) PROVE b2[U[e]].ent[D2[e].slot].cl \in Cluster
    <3>1. b[U[e]].ent[D2[e].slot].cl \in Cluster
      BY <1>1, <2>1, <2>3 DEF Halves
    <3>2. b2[U[e]].ent[D2[e].slot].cl = b[U[e]].ent[D2[e].slot].cl
      BY <2>2, <2>3
    <3> QED
      BY <3>1, <3>2
  <2>4. ASSUME NEW e \in Driver, NEW x \in Driver, HalfOf(D2[e]), HalfOf(D2[x]), U[e] = U[x],
               D2[e].slot = D2[x].slot
        PROVE  e = x
    <3>1. HalfOf(D[e]) /\ HalfOf(D[x]) /\ D[e].slot = D[x].slot
      BY <2>1, <2>4
    <3> QED
      BY <1>1, <2>4, <3>1 DEF Halves
  <2> QED
    BY <2>2, <2>3, <2>4 DEF Halves
<1>12. Told(U, G, G2, L, L2)
  BY <1>2 DEF Told
<1>13. Marked(b, b2, L, L2)
  <2>1. ASSUME NEW x \in L, NEW j \in Slots, b[x].ent[j].kind # "end" PROVE b2[x].ent[j].kind # "end"
    BY <1>3, <1>4, <2>1
  <2>2. \A x \in L : b2[x].up = b[x].up
    BY <1>3, <1>4
  <2> QED
    BY <2>1, <2>2 DEF Marked
<1>14. Kernel \notin G2 => k \in L2
  BY <1>1, <1>2 DEF Dwelling
<1>15. /\ Halves(b2, D2, U, LiveDirsOf(g2, w2)) /\ Told(U, G, G2, LiveDirsOf(g, w), LiveDirsOf(g2, w2))
       /\ Marked(b, b2, LiveDirsOf(g, w), LiveDirsOf(g2, w2))
       /\ Kernel \notin G2 => k \in LiveDirsOf(g2, w2)
  BY <1>2, <1>11, <1>12, <1>13, <1>14
<1>16. Inner(f, b2, D2, U, P, k, G2, K, g2, w2, C2)
  <2>1. PICK B2 : B2 = {}
    OBVIOUS
  <2>2. Turned(C, C2, d, B2) /\ Settles(f, g, C[d], f, g2, B2) /\ Stage(f, b2, Idle, U[d], B2)
    BY <1>5, <1>8, <1>9, <2>1
  <2>3. /\ W = Driver \ {d} /\ C2 \in [Driver -> SUBSET Cluster] /\ f \in Tables
        /\ Spared(f, b, C, f, b2, g2, W) /\ Bare(f, b2) /\ AimedAt(b2, Idle, U[d])
    BY <1>1, <1>2, <1>5, <1>7, <1>9, <1>10
  <2> QED
    BY <1>15, <2>2, <2>3, MoveKept
<1> QED
  BY <1>16

(* The same, of the specification's step                                   *)
LEMMA DoneStep ==
    ASSUME NEW g, NEW w, NEW C, Follows(g, w, C), NEW d \in Driver, d \notin gone,
           Calm, fat' = fat, NEW G2, gone' = G2, gone \subseteq G2, NEW b2 \in [Dirs -> Block], blk' = b2,
           NEW i \in Slots, OneEdit(blk, ucwd[d], i, b2),
           NEW D2 \in [Driver -> {Idle} \cup Local], drv' = D2, Turned(drv, D2, d, Idle),
           Unmoved(blk, b2, D2, ucwd, ucwd[d], i),
           NEW g2, NEW w2, Settled(g2, w2), Relates(fat, b2, g2, w2, DyingOf(D2, ucwd)),
           LiveDirsOf(g, w) \subseteq LiveDirsOf(g2, w2), Gained(g, C[d], fat, g2)
    PROVE  UIInv'
<1>1. PICK u : u = ucwd[d]
  OBVIOUS
<1>2. /\ Inner(fat, blk, drv, ucwd, uparent, cwd, gone, killed, g, w, C) /\ u \in LiveDirsOf(g, w)
      /\ OneEdit(blk, u, i, b2) /\ Unmoved(blk, b2, D2, ucwd, u, i)
  BY <1>1, InnerFacts DEF Follows
<1>3. \E C2 : Inner(fat, b2, D2, ucwd, uparent, cwd, G2, killed, g2, w2, C2)
  BY <1>1, <1>2, DoneKept
<1>4. /\ ucwd' = ucwd /\ uparent' = uparent /\ cwd' = cwd /\ killed' = killed
  BY DEF Calm
<1> QED
  BY <1>3, <1>4, FollowedIs

(* What is half removed when driver d is done with it, or was never at it   *)
LEMMA IdleDying ==
    ASSUME NEW D, NEW d \in Driver, NEW D2, Turned(D, D2, d, Idle), NEW U
    PROVE  /\ ~HalfOf(D[d]) => DyingOf(D2, U) = DyingOf(D, U)
           /\ DyingOf(D2, U) \subseteq DyingOf(D, U)
           /\ \A b, L : Halves(b, D, U, L) /\ HalfOf(D[d]) =>
                 DyingOf(D2, U) = DyingOf(D, U) \ {<<U[d], D[d].slot>>}
<1>1. D2[d] = Idle /\ \A e \in Driver \ {d} : D2[e] = D[e]
  BY DEF Turned
<1>2. ~HalfOf(D2[d])
  BY <1>1, IdleIs
<1>3. DyingOf(D2, U) \subseteq DyingOf(D, U)
  BY <1>1, <1>2 DEF DyingOf
<1>4. ASSUME NEW p \in DyingOf(D, U), p # <<U[d], D[d].slot>> PROVE p \in DyingOf(D2, U)
  BY <1>1, <1>4 DEF DyingOf
<1>5. ASSUME ~HalfOf(D[d]), NEW p \in DyingOf(D, U) PROVE p \in DyingOf(D2, U)
  BY <1>1, <1>5 DEF DyingOf
<1>6. ASSUME NEW b, NEW L, Halves(b, D, U, L), HalfOf(D[d]), <<U[d], D[d].slot>> \in DyingOf(D2, U)
      PROVE  FALSE
  <2>1. PICK e \in Driver : HalfOf(D2[e]) /\ <<U[d], D[d].slot>> = <<U[e], D2[e].slot>>
    BY <1>6 DEF DyingOf
  <2>2. e # d /\ D2[e] = D[e]
    BY <1>1, <1>2, <2>1
  <2>3. HalfOf(D[e]) /\ U[d] = U[e] /\ D[d].slot = D[e].slot
    BY <2>1, <2>2
  <2> QED
    BY <1>6, <2>2, <2>3 DEF Halves
<1> QED
  BY <1>3, <1>4, <1>5, <1>6

LEMMA StillThere ==
    ASSUME NEW b, NEW b2, NEW D, NEW U, NEW u, NEW i, <<u, i>> \notin DyingOf(D, U)
    PROVE  Unmoved(b, b2, D, U, u, i)
  BY DEF Unmoved, DyingOf

(* What is half removed is in a live directory and still looks alive.      *)
LEMMA DyingLive ==
    ASSUME NEW b, NEW D, NEW U, NEW L, Halves(b, D, U, L)
    PROVE  /\ Within(DyingOf(D, U), L)
           /\ \A x, j : <<x, j>> \in DyingOf(D, U) => Live(b[x].ent[j]) /\ b[x].ent[j].cl \in Cluster
<1>1. ASSUME NEW x, NEW j, <<x, j>> \in DyingOf(D, U)
      PROVE  x \in L /\ Live(b[x].ent[j]) /\ b[x].ent[j].cl \in Cluster
  <2>1. PICK e \in Driver : HalfOf(D[e]) /\ x = U[e] /\ j = D[e].slot
    BY <1>1 DEF DyingOf
  <2> QED
    BY <2>1 DEF Halves
<1> QED
  BY <1>1 DEF Within

(* write_curdir_sector: the sector goes back but for one entry.            *)
SectorWith(b, u, i, e) == [b EXCEPT ![u].ent = [b[u].ent EXCEPT ![i] = e]]

LEMMA SectorBack ==
    ASSUME NEW b \in [Dirs -> Block], NEW u \in Dirs, b[u].is = "dir", NEW i \in Slots,
           NEW e \in Entry, e.kind # "end", NEW b2,
           b2 = SectorWith(b, u, i, e)
    PROVE  /\ b2 \in [Dirs -> Block] /\ OneEdit(b, u, i, b2) /\ b2[u].ent[i] = e
           /\ b2[u] = Edited(b[u], i, e)
<1>1. b[u] \in Block
  OBVIOUS
<1>2. PICK x : x = Edited(b[u], i, e)
  OBVIOUS
<1>3. /\ b[u].ent \in [Slots -> Entry] /\ x \in Block /\ x.is = "dir" /\ x.up = b[u].up
      /\ x.ent = [b[u].ent EXCEPT ![i] = e]
  BY <1>1, <1>2, BlockFacts
<1>4. b2 = [b EXCEPT ![u] = x]
  BY <1>2 DEF Edited, SectorWith
<1>5. b2 \in [Dirs -> Block] /\ b2[u] = x /\ \A y \in Dirs \ {u} : b2[y] = b[y]
  BY <1>3, <1>4
<1>6. x.ent[i] = e /\ \A j \in Slots \ {i} : x.ent[j] = b[u].ent[j]
  BY <1>3
<1> QED
  BY <1>2, <1>3, <1>5, <1>6 DEF OneEdit

SameOn(B, b, b2) == \A c \in B : b2[c] = b[c]

Blank(b, e) == e.kind = "dir" => \A j \in Slots : b[e.cl].ent[j] = End
Loaded(f, b, r, u, B) == Filling(f, b, r, B) \/ Blocking(f, b, r, u, B)

(* The new entry of create or mkdir, and what it leads to                  *)
LEMMA NewEntryLeads ==
    ASSUME NEW f \in Tables, NEW b, NEW r \in Local, NEW u, NEW B, r.pc = "save",
           Loaded(f, b, r, u, B), NEW b2, SameOn(B, b, b2)
    PROVE  /\ r.op \in {"create", "mkdir"} /\ r.slot \in Slots
           /\ NewEntry(r) \in Entry /\ Live(NewEntry(r)) /\ B = Chain(f, NewEntry(r).cl)
           /\ LeadsTo(f, b2, u, NewEntry(r))
           /\ Blank(b2, NewEntry(r))
           /\ NewEntry(r).kind = "dir" => NewEntry(r).cl \in B
<1>1. PICK e : e = NewEntry(r)
  OBVIOUS
<1>2. r.nm \in Short /\ r.k \in Nat /\ r.first \in Cluster \cup {0}
  BY DEF Local
<1>3. CASE Filling(f, b, r, B)
  <2>1. /\ r.op = "create" /\ r.k > 0 /\ r.v \in Val /\ r.slot \in Slots /\ Proper(f, r.first, r.k)
        /\ B = Chain(f, r.first) /\ r.n = r.k
        /\ \A i \in 1..r.n : b[Walk(f, r.first)[i]] = DataBlock(r.v)
    BY <1>3 DEF Filling, Making
  <2>2. /\ e \in Entry /\ Live(e) /\ e.kind = "file" /\ e.cl = r.first /\ e.size = r.k /\ e.val = r.v
    <3>1. PICK nm, c, k, v : nm = r.nm /\ c = r.first /\ k = r.k /\ v = r.v
      OBVIOUS
    <3>2. e = FileEntry(nm, c, k, v)
      BY <1>1, <2>1, <3>1 DEF NewEntry
    <3>3. nm \in Short /\ c \in Cluster \cup {0} /\ k \in Nat /\ v \in Val /\ k # 0
      BY <1>2, <2>1, <3>1
    <3>4. /\ FileEntry(nm, c, k, v) \in Entry /\ Live(FileEntry(nm, c, k, v))
          /\ FileEntry(nm, c, k, v).kind = "file" /\ FileEntry(nm, c, k, v).cl = c
          /\ FileEntry(nm, c, k, v).size = k /\ FileEntry(nm, c, k, v).val = v
      BY <3>3, NewEntries
    <3> QED
      BY <3>1, <3>2, <3>4
  <2>3. \A c \in B : b2[c] = DataBlock(r.v)
    <3>1. B = {Walk(f, r.first)[i] : i \in 1..r.k}
      BY <2>1, ProperFacts
    <3> QED
      BY <2>1, <3>1 DEF SameOn
  <2>4. LeadsTo(f, b2, u, e)
    BY <2>1, <2>2, <2>3 DEF LeadsTo, Clusters
  <2> QED
    BY <1>1, <2>1, <2>2, <2>4 DEF Blank
<1>4. CASE Blocking(f, b, r, u, B)
  <2>1. /\ r.op = "mkdir" /\ r.cl \in Cluster /\ B = {r.cl} /\ f[r.cl] = Eoc /\ r.slot \in Slots
        /\ b[r.cl] = DirBlock(u)
    BY <1>4 DEF Blocking, Waits, FatPc
  <2>2. /\ e \in Entry /\ Live(e) /\ e.kind = "dir" /\ e.cl = r.cl
    <3>1. e = DirEntry(r.nm, r.cl)
      BY <1>1, <2>1 DEF NewEntry
    <3> QED
      BY <1>2, <2>1, <3>1, NewEntries
  <2>3. Proper(f, e.cl, 1) /\ Chain(f, e.cl) = B
    BY <2>1, <2>2, ChainOne
  <2>4. b2[e.cl] = DirBlock(u)
    BY <2>1, <2>2 DEF SameOn
  <2>5. LeadsTo(f, b2, u, e) /\ \A j \in Slots : b2[e.cl].ent[j] = End
    BY <2>2, <2>3, <2>4 DEF LeadsTo, Clusters, DirBlock, Empty
  <2> QED
    BY <1>1, <2>1, <2>2, <2>3, <2>5 DEF Blank
<1> QED
  BY <1>3, <1>4 DEF Loaded

LEMMA SaveEntryKept ==
    ASSUME NEW g, NEW w, NEW C, Follows(g, w, C), Intact, NEW d \in Driver, SaveEntry(d)
    PROVE  UIInv'
<1>1. CASE OutOfDate(d)
  BY <1>1, RaceIs DEF SaveEntry
<1>2. CASE ~OutOfDate(d)
  <2>1. PICK r, u, B, i, e : r = drv[d] /\ u = ucwd[d] /\ B = C[d] /\ i = r.slot /\ e = NewEntry(r)
    OBVIOUS
  <2>2. r.pc = "save" /\ d \notin gone /\ r.sec = blk[u].ent /\ ~Live(blk[u].ent[i])
    BY <1>2, <2>1 DEF SaveEntry, OutOfDate
  <2>3. /\ fat \in Tables /\ blk \in [Dirs -> Block] /\ u \in Dirs /\ Stage(fat, blk, r, u, B)
        /\ B \subseteq Cluster /\ \A c \in B : fat[c] # Free /\ g[c] = Free
    BY <2>1, InnerFacts
  <2>16. AimedAt(blk, r, u) /\ u \in LiveDirsOf(g, w)
    BY <2>1, <2>2, InnerFacts
  <2>4. /\ Settled(g, w) /\ Relates(fat, blk, g, w, DyingOf(drv, ucwd))
        /\ Halves(blk, drv, ucwd, LiveDirsOf(g, w)) /\ drv \in [Driver -> {Idle} \cup Local]
    BY DEF Follows, Inner
  <2>5. blk[u].is = "dir" /\ u \notin B
    <3>1. u = Root \/ g[u] # Free
      BY <2>16 DEF LiveDirsOf
    <3> QED
      BY <2>3, <2>4, <2>16, <3>1, FatBounds DEF Relates
  <2>6. r \in Local /\ Loaded(fat, blk, r, u, B)
    BY <2>2, <2>3, StageAt DEF Loaded
  <2>7. PICK b2 : b2 = SectorWith(blk, u, i, e)
    OBVIOUS
  <2>8. r.op \in {"create", "mkdir"} /\ i \in Slots /\ e \in Entry /\ Live(e) /\ B = Chain(fat, e.cl)
    <3>1. SameOn(B, blk, blk)
      BY DEF SameOn
    <3>2. fat \in Tables /\ r \in Local /\ r.pc = "save"
      BY <2>2, <2>3, <2>6
    <3>3. /\ r.op \in {"create", "mkdir"} /\ r.slot \in Slots /\ NewEntry(r) \in Entry
          /\ Live(NewEntry(r)) /\ B = Chain(fat, NewEntry(r).cl)
      BY <2>6, <3>1, <3>2, NewEntryLeads
    <3> QED
      BY <2>1, <3>3
  <2>9. /\ b2 \in [Dirs -> Block] /\ OneEdit(blk, u, i, b2) /\ b2[u].ent[i] = e
    <3>1. e.kind # "end"
      BY <2>8 DEF Live
    <3>2. blk \in [Dirs -> Block] /\ u \in Dirs /\ blk[u].is = "dir" /\ i \in Slots /\ e \in Entry
      BY <2>3, <2>5, <2>8
    <3> QED
      BY <2>7, <3>1, <3>2, SectorBack
  <2>10. LeadsTo(fat, b2, u, e) /\ Blank(b2, e)
    <3>1. SameOn(B, blk, b2)
      BY <2>3, <2>5, <2>9 DEF OneEdit, Dirs, SameOn
    <3>2. fat \in Tables /\ r \in Local /\ r.pc = "save"
      BY <2>2, <2>3, <2>6
    <3>3. /\ LeadsTo(fat, b2, u, NewEntry(r))
          /\ Blank(b2, NewEntry(r))
      BY <2>6, <3>1, <3>2, NewEntryLeads
    <3> QED
      BY <2>1, <3>3
  <2>11. EntryAdded(fat, blk, u, i, e, B, fat, b2)
    <3>1. DiskGrown(fat, blk, u, i, e, B, fat, b2)
      BY <2>9 DEF OneEdit, DiskGrown
    <3> QED
      BY <2>8, <2>10, <3>1 DEF EntryAdded, Blank
  <2>12. PICK Z : Z = DyingOf(drv, ucwd)
    OBVIOUS
  <2>13. <<u, i>> \notin Z /\ Within(Z, LiveDirsOf(g, w)) /\ Vacant(g, B) /\ Spot(blk, u, i)
    <3>1. i # 0 /\ r.pc # "idle"
      BY <2>2, <2>8, FatBounds DEF Slots
    <3>2. Spot(blk, u, i)
      BY <2>1, <2>2, <2>8, <2>16, <3>1 DEF Spot, AimedAt
    <3> QED
      BY <2>2, <2>3, <2>4, <2>12, <3>2, DyingLive DEF Vacant
  <2>14. PICK g2, w2 :
              /\ Settled(g2, w2) /\ Relates(fat, b2, g2, w2, Z)
                 /\ LiveDirsOf(g, w) \subseteq LiveDirsOf(g2, w2)
              /\ \A x \in Cluster : g2[x] = IF x \in B THEN fat[x] ELSE g[x]
    <3>1. Relates(fat, blk, g, w, Z) /\ Sound(g, w) /\ Sheltered(e, Z, LiveDirsOf(g, w))
      BY <2>4, <2>12, <2>13 DEF Settled, Sheltered, Within
    <3> QED
      BY <2>3, <2>4, <2>8, <2>9, <2>11, <2>13, <2>16, <3>1, AddedOn
  <2>15. PICK D2 : D2 = drv'
    OBVIOUS
  <2>17. D2 \in [Driver -> {Idle} \cup Local] /\ Turned(drv, D2, d, Idle)
    BY <2>4, <2>15 DEF SaveEntry, Goto, Turned
  <2>18. ~HalfOf(r)
    BY <2>8 DEF HalfOf
  <2>19. DyingOf(D2, ucwd) = Z
    BY <2>1, <2>12, <2>17, <2>18, IdleDying
  <2>20. Unmoved(blk, b2, D2, ucwd, ucwd[d], i) /\ OneEdit(blk, ucwd[d], i, b2)
    BY <2>1, <2>9, <2>13, <2>19, StillThere
  <2>21. Relates(fat, b2, g2, w2, DyingOf(D2, ucwd)) /\ Gained(g, C[d], fat, g2)
    BY <2>1, <2>14, <2>19 DEF Gained
  <2>22. blk' = b2
    BY <2>1, <2>2, <2>7 DEF SaveEntry, SectorWith
  <2>23. PICK G2 : gone' = G2 /\ gone \subseteq G2
    BY DEF SaveEntry
  <2>24. Calm /\ fat' = fat
    BY DEF SaveEntry
  <2> QED
    BY <2>2, <2>8, <2>9, <2>14, <2>15, <2>17, <2>20, <2>21, <2>22, <2>23, <2>24, DoneStep
<1> QED
  BY <1>1, <1>2

(* An entry with clusters O is gone from the disk, or begins to go, so it  *)
(* is gone from the settled volume.                                        *)
Shown(b, p, Z, Y) == (p \in Y \/ b[p[1]].ent[p[2]] = Deleted) /\ (Y = Z \/ Y = Z \cup {p})
Erased(g, w, p, O, g2, w2) ==
    /\ Sound(g2, w2) /\ g2 \in Tables
    /\ LiveDirsOf(g2, w2) = LiveDirsOf(g, w) \ O /\ p[1] \in LiveDirsOf(g2, w2)
    /\ \A x \in Cluster : g2[x] = IF x \in O THEN Free ELSE g[x]
NoneIn(b, e) == e.kind = "dir" => \A j \in Slots : ~Live(b[e.cl].ent[j])

LEMMA ErasedOn ==
    ASSUME NEW f, NEW b, NEW g, NEW w, NEW Z, Settled(g, w), Relates(f, b, g, w, Z),
           NEW p \in PlacesOf(g, w), NEW O, O = Owns(g, w, p),
           NEW f2, NEW b2, ChainGone(f, b, p, O, f2, b2), NEW Y, Shown(b2, p, Z, Y)
    PROVE  \E g2, w2 : /\ Erased(g, w, p, O, g2, w2) /\ Relates(f2, b2, g2, w2, Y)
                       /\ NoneIn(w, AtOf(w, p)) => Settled(g2, w2)
<1>1. Sound(g, w) /\ w \in [Dirs -> Block]
  BY DEF Settled, Sound
<1>2. p[1] \in Dirs /\ p[2] \in Slots /\ w[p[1]].is = "dir"
  BY <1>1, PlaceFacts
<1>3. PICK g2, w2 : g2 = Freed(g, AtOf(w, p).cl) /\ w2 = SectorWith(w, p[1], p[2], Deleted)
  OBVIOUS
<1>4. EntryGone(g, w, p, g2, w2)
  <2>1. PICK u, i : u = p[1] /\ i = p[2]
    OBVIOUS
  <2>2. Deleted \in Entry /\ Deleted.kind # "end" /\ w2 = SectorWith(w, u, i, Deleted)
    BY <1>3, <2>1, NewEntries
  <2>3. /\ w2 \in [Dirs -> Block] /\ OneEdit(w, u, i, w2) /\ w2[u] = Edited(w[u], i, Deleted)
    BY <1>1, <1>2, <2>1, <2>2, SectorBack
  <2>4. \A x \in Dirs \ {u} : w2[x] = w[x]
    BY <2>3 DEF OneEdit
  <2> QED
    BY <1>3, <2>1, <2>3, <2>4 DEF EntryGone
<1>5. /\ Erased(g, w, p, O, g2, w2)
      /\ NoneIn(w, AtOf(w, p)) => Settled(g2, w2)
  BY <1>4, SettledErase DEF Erased, NoneIn
<1>6. Relates(f2, b2, g2, w2, Y)
  <2>1. /\ ChainGone(f, b, p, Owns(g, w, p), f2, b2)
        /\ p \in Y \/ b2[p[1]].ent[p[2]] = Deleted
        /\ Y = Z \/ Y = Z \cup {p}
    BY DEF Shown
  <2> QED
    BY <1>4, <2>1, RelatesErase
<1> QED
  BY <1>5, <1>6

(* A live entry that is not half removed is one of the settled volume.     *)
LEMMA PlaceSettled ==
    ASSUME NEW f, NEW b, NEW g, NEW w, NEW Z, Relates(f, b, g, w, Z),
           NEW u \in LiveDirsOf(g, w), NEW i \in Slots, <<u, i>> \notin Z, Live(b[u].ent[i])
    PROVE  <<u, i>> \in PlacesOf(g, w) /\ AtOf(w, <<u, i>>) = b[u].ent[i]
  BY DEF Relates, PlacesOf, AtOf

(* A file without clusters                                                 *)
LEMMA OwnsNothing ==
    ASSUME NEW g, NEW w, Sound(g, w), NEW p \in PlacesOf(g, w), AtOf(w, p).cl \notin Cluster
    PROVE  Owns(g, w, p) = {} /\ AtOf(w, p).kind # "dir"
<1>1. /\ Proper(g, AtOf(w, p).cl, Clusters(AtOf(w, p)))
      /\ AtOf(w, p).kind = "dir" => AtOf(w, p).cl \in Cluster
  BY PlaceFacts
<1>2. PICK c, n : c = AtOf(w, p).cl /\ n = Clusters(AtOf(w, p))
  OBVIOUS
<1>3. Proper(g, c, n)
  BY <1>1, <1>2
<1>4. n \in Nat /\ Chain(g, c) \subseteq Cluster /\ (n > 0 => c \in Chain(g, c))
      /\ (n = 0 => Chain(g, c) = {})
  BY <1>3, ProperFacts
<1> QED
  BY <1>1, <1>2, <1>4 DEF Owns

(* rm and rmdir end: the entry is marked deleted.                          *)
LEMMA EraseKept ==
    ASSUME NEW g, NEW w, NEW C, Follows(g, w, C), Intact, NEW d \in Driver, Erase(d)
    PROVE  UIInv'
<1>1. CASE OutOfDate(d)
  BY <1>1, RaceIs DEF Erase, Writes
<1>2. CASE ~OutOfDate(d)
  <2>1. PICK r, u, i, b2, D2 : /\ r = drv[d] /\ u = ucwd[d] /\ i = r.slot /\ D2 = drv'
                               /\ b2 = SectorWith(blk, u, i, Deleted)
    OBVIOUS
  <2>2. r.pc = "erase" /\ d \notin gone /\ r.sec = blk[u].ent
    BY <1>2, <2>1 DEF Erase, OutOfDate
  <2>3. /\ fat \in Tables /\ blk \in [Dirs -> Block] /\ u \in Dirs /\ Stage(fat, blk, r, u, C[d])
        /\ u \in LiveDirsOf(g, w)
    BY <2>1, <2>2, InnerFacts
  <2>4. /\ Settled(g, w) /\ Sound(g, w) /\ Relates(fat, blk, g, w, DyingOf(drv, ucwd))
        /\ Halves(blk, drv, ucwd, LiveDirsOf(g, w)) /\ drv \in [Driver -> {Idle} \cup Local]
    BY DEF Follows, Inner, Settled
  <2>5. r.op \in {"rm", "rmdir"} /\ i \in Slots /\ Live(blk[u].ent[i]) /\ C[d] = {}
    BY <2>1, <2>2, <2>3, StageAt DEF Leaving, Found
  <2>6. blk[u].is = "dir"
    BY <2>3, <2>4 DEF Relates
  <2>7. b2 \in [Dirs -> Block] /\ OneEdit(blk, u, i, b2) /\ b2[u].ent[i] = Deleted
    <3>1. Deleted \in Entry /\ Deleted.kind # "end"
      BY NewEntries
    <3> QED
      BY <2>1, <2>3, <2>5, <2>6, <3>1, SectorBack
  <2>8. D2 \in [Driver -> {Idle} \cup Local] /\ Turned(drv, D2, d, Idle)
    BY <2>1, <2>4 DEF Erase, Writes, Goto, Turned
  <2>9. Calm /\ fat' = fat /\ blk' = b2
    BY <2>1, <2>2 DEF Erase, Writes, SectorWith
  <2>10. PICK G2 : gone' = G2 /\ gone \subseteq G2
    BY DEF Erase, Writes, Lost
  <2>11. PICK Z, Y : Z = DyingOf(drv, ucwd) /\ Y = DyingOf(D2, ucwd)
    OBVIOUS
  <2>12. i # 0
    BY <2>5, FatBounds DEF Slots
  <2>13. CASE Hit(r) \in Cluster
    <3>1. HalfOf(r)
      BY <2>1, <2>2, <2>5, <2>12, <2>13 DEF HalfOf
    <3>2. Y = Z \ {<<u, i>>}
      BY <2>1, <2>4, <2>8, <2>11, <3>1, IdleDying
    <3>3. <<u, i>> \in Z
      BY <2>1, <2>11, <3>1 DEF DyingOf
    <3>4. Relates(fat, b2, g, w, Y)
      <4>1. /\ \A x \in Dirs \ {u} : x = Root \/ fat[x] # Free => b2[x] = blk[x]
            /\ b2[u].is = "dir" /\ b2[u].up = blk[u].up
            /\ \A j \in Slots \ {i} : b2[u].ent[j] = blk[u].ent[j]
        BY <2>7 DEF OneEdit
      <4>2. Relates(fat, blk, g, w, Z) /\ (Y = Z \/ (Y = Z \ {<<u, i>>} /\ b2[u].ent[i] = Deleted))
        BY <2>4, <2>7, <2>11, <3>2
      <4> QED
        BY <2>3, <2>4, <2>5, <3>3, <4>1, <4>2, RelatesDying
    <3>5. Unmoved(blk, b2, D2, ucwd, ucwd[d], i) /\ OneEdit(blk, ucwd[d], i, b2)
      BY <2>1, <2>7, <2>11, <3>2, StillThere
    <3>6. /\ Relates(fat, b2, g, w, DyingOf(D2, ucwd)) /\ Gained(g, C[d], fat, g)
          /\ LiveDirsOf(g, w) \subseteq LiveDirsOf(g, w)
      BY <2>5, <2>11, <3>4 DEF Gained
    <3> QED
      BY <2>1, <2>2, <2>4, <2>5, <2>7, <2>8, <2>9, <2>10, <3>5, <3>6, DoneStep
  <2>14. CASE Hit(r) \notin Cluster
    <3>1. ~HalfOf(r)
      BY <2>14 DEF HalfOf
    <3>2. Y = Z
      BY <2>1, <2>8, <2>11, <3>1, IdleDying
    <3>3. blk[u].ent[i].cl \notin Cluster
      BY <2>1, <2>2, <2>14 DEF Hit
    <3>4. <<u, i>> \notin Z
      BY <2>4, <2>11, <3>3, DyingLive
    <3>5. PICK p : p = <<u, i>>
      OBVIOUS
    <3>6. p \in PlacesOf(g, w) /\ AtOf(w, p) = blk[u].ent[i] /\ Relates(fat, blk, g, w, Z)
      BY <2>3, <2>4, <2>5, <2>11, <3>4, <3>5, PlaceSettled
    <3>7. PICK O : O = Owns(g, w, p)
      OBVIOUS
    <3>8. O = {} /\ AtOf(w, p).kind # "dir"
      BY <2>4, <3>3, <3>6, <3>7, OwnsNothing
    <3>9. ChainGone(fat, blk, p, O, fat, b2) /\ Shown(b2, p, Z, Y)
      <4>1. p[1] = u /\ p[2] = i
        BY <3>5
      <4> QED
        BY <2>7, <3>2, <3>8, <4>1 DEF ChainGone, Shown, OneEdit
    <3>10. PICK g2, w2 : /\ Erased(g, w, p, O, g2, w2) /\ Relates(fat, b2, g2, w2, Y)
                         /\ NoneIn(w, AtOf(w, p)) => Settled(g2, w2)
      BY <2>4, <3>6, <3>7, <3>9, ErasedOn
    <3>11. Settled(g2, w2)
      BY <3>8, <3>10 DEF NoneIn
    <3>12. /\ Relates(fat, b2, g2, w2, DyingOf(D2, ucwd)) /\ Gained(g, C[d], fat, g2)
           /\ LiveDirsOf(g, w) \subseteq LiveDirsOf(g2, w2)
      BY <2>5, <2>11, <3>8, <3>10 DEF Gained, Erased
    <3>13. Unmoved(blk, b2, D2, ucwd, ucwd[d], i) /\ OneEdit(blk, ucwd[d], i, b2)
      BY <2>1, <2>7, <2>11, <3>2, <3>4, StillThere
    <3> QED
      BY <2>1, <2>2, <2>5, <2>7, <2>8, <2>9, <2>10, <3>11, <3>12, <3>13, DoneStep
  <2> QED
    BY <2>13, <2>14
<1> QED
  BY <1>1, <1>2

(* One entry of directory u changes on the disk with table f.              *)
EditOn(f, b, u, i, b2) ==
    /\ \A x \in Dirs \ {u} : x = Root \/ f[x] # Free => b2[x] = b[x]
    /\ b2[u].is = "dir" /\ b2[u].up = b[u].up
    /\ \A j \in Slots \ {i} : b2[u].ent[j] = b[u].ent[j]

(* An entry e of the disk is given name nm.                                *)
LEMMA RenamedOn ==
    ASSUME NEW f, NEW b, NEW g, NEW w, NEW Z, Settled(g, w), Relates(f, b, g, w, Z),
           NEW u \in LiveDirsOf(g, w), NEW i \in Slots, Live(b[u].ent[i]), NEW nm \in Short,
           NEW e, e = Renamed(b[u].ent[i], nm), NEW b2, EditOn(f, b, u, i, b2), b2[u].ent[i] = e
    PROVE  \E w2 : Settled(g, w2) /\ LiveDirsOf(g, w2) = LiveDirsOf(g, w) /\ Relates(f, b2, g, w2, Z)
<1>1. Sound(g, w) /\ w \in [Dirs -> Block] /\ u \in Dirs
  BY DEF Settled, Sound, LiveDirsOf, Dirs
<1>2. /\ \A x \in Dirs \ {u} : x = Root \/ f[x] # Free => b2[x] = b[x]
      /\ b2[u].is = "dir" /\ b2[u].up = b[u].up
      /\ \A j \in Slots \ {i} : b2[u].ent[j] = b[u].ent[j]
  BY DEF EditOn
<1>3. CASE <<u, i>> \in Z
  <2>1. Relates(f, b2, g, w, Z)
    BY <1>1, <1>2, <1>3, RelatesDying
  <2> QED
    BY <2>1
<1>4. CASE <<u, i>> \notin Z
  <2>1. PICK p : p = <<u, i>>
    OBVIOUS
  <2>2. p \in PlacesOf(g, w) /\ AtOf(w, p) = b[u].ent[i] /\ p[1] = u /\ p[2] = i
    BY <1>4, <2>1, PlaceSettled
  <2>3. e \in Entry /\ e.kind # "end" /\ w[u].is = "dir"
    <3>1. PICK e1 : e1 = AtOf(w, p)
      OBVIOUS
    <3>2. e1 \in Entry /\ Live(e1) /\ w[p[1]].is = "dir"
      BY <1>1, <2>2, <3>1, PlaceFacts
    <3>3. e = Renamed(e1, nm)
      BY <2>2, <3>1
    <3>4. e \in Entry /\ e.kind = e1.kind
      BY <3>2, <3>3, EntryFacts
    <3> QED
      BY <2>2, <3>2, <3>4 DEF Live
  <2>4. PICK w2 : w2 = SectorWith(w, u, i, e)
    OBVIOUS
  <2>5. w2 \in [Dirs -> Block] /\ OneEdit(w, u, i, w2) /\ w2[u] = Edited(w[u], i, e)
    BY <1>1, <2>3, <2>4, SectorBack
  <2>6. /\ w2[p[1]] = Edited(w[p[1]], p[2], Renamed(AtOf(w, p), nm))
        /\ \A x \in Dirs \ {p[1]} : w2[x] = w[x]
    BY <2>2, <2>5 DEF OneEdit
  <2>7. /\ \A x \in Dirs \ {p[1]} : x = Root \/ f[x] # Free => b2[x] = b[x]
        /\ b2[p[1]].is = "dir" /\ b2[p[1]].up = b[p[1]].up
        /\ b2[p[1]].ent[p[2]] = Renamed(AtOf(w, p), nm)
        /\ \A j \in Slots \ {p[2]} : b2[p[1]].ent[j] = b[p[1]].ent[j]
    BY <1>2, <2>2
  <2>8. Settled(g, w2) /\ LiveDirsOf(g, w2) = LiveDirsOf(g, w) /\ Relates(f, b2, g, w2, Z)
    BY <2>2, <2>5, <2>6, <2>7, RelatesRename
  <2> QED
    BY <2>8
<1> QED
  BY <1>3, <1>4

(* mv ends: the entry has its new name.                                    *)
LEMMA SaveNameKept ==
    ASSUME NEW g, NEW w, NEW C, Follows(g, w, C), Intact, NEW d \in Driver, SaveName(d)
    PROVE  UIInv'
<1>1. CASE OutOfDate(d)
  BY <1>1, RaceIs DEF SaveName
<1>2. CASE ~OutOfDate(d)
  <2>1. PICK r, u, i, e, b2, D2 : /\ r = drv[d] /\ u = ucwd[d] /\ i = r.slot /\ D2 = drv'
                                  /\ e = Renamed(blk[u].ent[i], r.v) /\ b2 = SectorWith(blk, u, i, e)
    OBVIOUS
  <2>2. r.pc = "rename" /\ d \notin gone /\ r.sec = blk[u].ent
    BY <1>2, <2>1 DEF SaveName, OutOfDate
  <2>3. /\ fat \in Tables /\ blk \in [Dirs -> Block] /\ u \in Dirs /\ Stage(fat, blk, r, u, C[d])
        /\ u \in LiveDirsOf(g, w) /\ blk[u].ent \in [Slots -> Entry]
    BY <2>1, <2>2, InnerFacts
  <2>4. /\ Settled(g, w) /\ Sound(g, w) /\ Relates(fat, blk, g, w, DyingOf(drv, ucwd))
        /\ drv \in [Driver -> {Idle} \cup Local]
    BY DEF Follows, Inner, Settled
  <2>5. r.op = "mv" /\ i \in Slots /\ Live(blk[u].ent[i]) /\ C[d] = {} /\ r.v \in Short
    BY <2>1, <2>2, <2>3, StageAt, SMTT(30) DEF Naming, Found
  <2>6. blk[u].is = "dir"
    BY <2>3, <2>4 DEF Relates
  <2>7. e \in Entry /\ Live(e) /\ e.cl = blk[u].ent[i].cl /\ e.kind # "end"
    <3>1. PICK e1, nm : e1 = blk[u].ent[i] /\ nm = r.v
      OBVIOUS
    <3>2. e1 \in Entry /\ Live(e1) /\ nm \in Short /\ e = Renamed(e1, nm)
      BY <2>1, <2>3, <2>5, <3>1
    <3>3. e \in Entry /\ e.kind = e1.kind /\ e.cl = e1.cl
      BY <3>2, EntryFacts
    <3> QED
      BY <3>1, <3>2, <3>3 DEF Live
  <2>8. b2 \in [Dirs -> Block] /\ OneEdit(blk, u, i, b2) /\ b2[u].ent[i] = e
    <3>1. blk \in [Dirs -> Block] /\ u \in Dirs /\ i \in Slots /\ b2 = SectorWith(blk, u, i, e)
      BY <2>1, <2>3, <2>5
    <3> QED
      BY <2>6, <2>7, <3>1, SectorBack
  <2>9. D2 \in [Driver -> {Idle} \cup Local] /\ Turned(drv, D2, d, Idle)
    BY <2>1, <2>4 DEF SaveName, Goto, Turned
  <2>10. blk' = b2
    BY <2>1, <2>2, Zenon DEF SaveName, SectorWith, Renamed
  <2>11. Calm /\ fat' = fat
    BY DEF SaveName
  <2>12. PICK G2 : gone' = G2 /\ gone \subseteq G2
    BY DEF SaveName
  <2>13. PICK Z : Z = DyingOf(D2, ucwd)
    OBVIOUS
  <2>14. Relates(fat, blk, g, w, Z)
    <3>1. ~HalfOf(r)
      BY <2>5 DEF HalfOf
    <3> QED
      BY <2>1, <2>4, <2>9, <2>13, <3>1, IdleDying
  <2>15. PICK w2 : Settled(g, w2) /\ LiveDirsOf(g, w2) = LiveDirsOf(g, w) /\ Relates(fat, b2, g, w2, Z)
    <3>1. PICK nm : nm = r.v
      OBVIOUS
    <3>2. u \in LiveDirsOf(g, w) /\ i \in Slots /\ Live(blk[u].ent[i]) /\ nm \in Short
      BY <2>3, <2>5, <3>1
    <3>3. e = Renamed(blk[u].ent[i], nm) /\ b2[u].ent[i] = e
      BY <2>1, <2>8, <3>1, Zenon
    <3>4. Settled(g, w) /\ EditOn(fat, blk, u, i, b2)
      BY <2>4, <2>8 DEF OneEdit, EditOn
    <3> QED
      BY <2>14, <3>2, <3>3, <3>4, RenamedOn
  <2>16. Unmoved(blk, b2, D2, ucwd, ucwd[d], i) /\ OneEdit(blk, ucwd[d], i, b2)
    BY <2>1, <2>7, <2>8, Zenon DEF Unmoved
  <2>17. /\ Relates(fat, b2, g, w2, DyingOf(D2, ucwd)) /\ Gained(g, C[d], fat, g)
         /\ LiveDirsOf(g, w) \subseteq LiveDirsOf(g, w2)
    BY <2>5, <2>13, <2>15 DEF Gained
  <2> QED
    BY <2>1, <2>2, <2>5, <2>8, <2>9, <2>10, <2>11, <2>12, <2>15, <2>16, <2>17, DoneStep, Zenon
<1> QED
  BY <1>1, <1>2

-----------------------------------------------------------------------------
(* Operations begin and end, drivers move                                  *)

LEMMA Begun ==
    ASSUME NEW g, NEW w, NEW C, Follows(g, w, C), NEW d \in Driver, NEW q, Begin(d, q),
           q \in Local, Unladen(q), q.slot = 0
    PROVE  UIInv'
<1>1. PICK D2 : D2 = [drv EXCEPT ![d] = q]
  OBVIOUS
<1>2. /\ drv' = D2 /\ fat' = fat /\ blk' = blk /\ ucwd' = ucwd /\ uparent' = uparent /\ cwd' = cwd
      /\ gone' = gone /\ killed' = killed /\ drv[d].pc = "idle"
  BY <1>1 DEF Begin, Goto, Busy
<1>3. Stage(fat, blk, drv[d], ucwd[d], C[d])
  BY InnerFacts
<1>4. drv[d] = Idle /\ C[d] = {}
  BY <1>2, <1>3, StageAt
<1>5. Stage(fat, blk, q, ucwd[d], C[d])
  BY <1>4 DEF Stage
<1>6. ~HalfOf(q) /\ ~HalfOf(drv[d]) /\ AimedAt(blk, q, ucwd[d])
  BY <1>4, IdleIs DEF HalfOf, AimedAt
<1>7. Inner(fat, blk, D2, ucwd, uparent, cwd, gone, killed, g, w, C)
  BY <1>1, <1>5, <1>6, ReadKept DEF Follows
<1> QED
  BY <1>2, <1>7, FollowedIs

LEMMA BeginKept ==
    ASSUME NEW g, NEW w, NEW C, Follows(g, w, C), NEW d \in Driver, NEW nm \in Name
    PROVE  /\ UMkdir(d, nm) \/ Rm(d, nm) \/ URmdir(d, nm) => UIInv'
           /\ \A k \in Sizes, v \in Val : Create(d, nm, k, v) => UIInv'
           /\ \A new \in Name : Mv(d, nm, new) => UIInv'
<1>0. PICK s : s = UCut[nm] /\ s \in Short
  BY UCutShort
<1>1. Sizes \subseteq Nat /\ 2 \in Cluster /\ 0 \in Nat
  BY FatBounds DEF Cluster
<1>2. ASSUME UMkdir(d, nm) PROVE UIInv'
  <2>0. PICK o, k, z, pc : o = "mkdir" /\ k = 1 /\ z = "none" /\ pc = "probe"
    OBVIOUS
  <2>1. PICK q : q = Start(o, s, k, z, pc)
    OBVIOUS
  <2>2. q \in Local /\ q.op = "mkdir" /\ q.pc = "probe" /\ q.slot = 0 /\ q.first = 0 /\ q.cl = 2
    <3>1. o \in Ops /\ k \in Nat /\ pc \in Pcs /\ z \in Val \cup Short \cup {"none"}
      BY <1>1, <2>0, OpIs, PcIs
    <3>2. q \in Local /\ q.op = o /\ q.pc = pc /\ q.slot = 0 /\ q.first = 0 /\ q.cl = 2
      BY <1>0, <2>1, <3>1, StartIs
    <3> QED
      BY <2>0, <3>2
  <2>3. Unladen(q)
    BY <1>1, <2>2 DEF Unladen, Asking
  <2> QED
    BY <1>0, <1>2, <2>0, <2>1, <2>2, <2>3, Begun DEF UMkdir
<1>3. ASSUME Rm(d, nm) PROVE UIInv'
  <2>0. PICK o, k, z, pc : o = "rm" /\ k = 0 /\ z = "none" /\ pc = "find"
    OBVIOUS
  <2>1. PICK q : q = Start(o, s, k, z, pc)
    OBVIOUS
  <2>2. q \in Local /\ q.op = "rm" /\ q.pc = "find" /\ q.slot = 0
    <3>1. o \in Ops /\ k \in Nat /\ pc \in Pcs /\ z \in Val \cup Short \cup {"none"}
      BY <1>1, <2>0, OpIs, PcIs
    <3>2. q \in Local /\ q.op = o /\ q.pc = pc /\ q.slot = 0 /\ q.first = 0 /\ q.cl = 2
      BY <1>0, <2>1, <3>1, StartIs
    <3> QED
      BY <2>0, <3>2
  <2>3. Unladen(q)
    BY <2>2 DEF Unladen, Searching
  <2> QED
    BY <1>0, <1>3, <2>0, <2>1, <2>2, <2>3, Begun DEF Rm
<1>4. ASSUME URmdir(d, nm) PROVE UIInv'
  <2>0. PICK o, k, z, pc : o = "rmdir" /\ k = 0 /\ z = "none" /\ pc = "find"
    OBVIOUS
  <2>1. PICK q : q = Start(o, s, k, z, pc)
    OBVIOUS
  <2>2. q \in Local /\ q.op = "rmdir" /\ q.pc = "find" /\ q.slot = 0
    <3>1. o \in Ops /\ k \in Nat /\ pc \in Pcs /\ z \in Val \cup Short \cup {"none"}
      BY <1>1, <2>0, OpIs, PcIs
    <3>2. q \in Local /\ q.op = o /\ q.pc = pc /\ q.slot = 0 /\ q.first = 0 /\ q.cl = 2
      BY <1>0, <2>1, <3>1, StartIs
    <3> QED
      BY <2>0, <3>2
  <2>3. Unladen(q)
    BY <2>2 DEF Unladen, Searching
  <2> QED
    BY <1>0, <1>4, <2>0, <2>1, <2>2, <2>3, Begun DEF URmdir
<1>5. ASSUME NEW k \in Sizes, NEW v \in Val, Create(d, nm, k, v) PROVE UIInv'
  <2>1. PICK q : q = Start("create", s, k, v, "slot")
    OBVIOUS
  <2>2. /\ q \in Local /\ q.op = "create" /\ q.pc = "slot" /\ q.slot = 0 /\ q.first = 0 /\ q.n = 0
        /\ q.prev = 0 /\ q.cl = 2 /\ q.k = k /\ q.v = v
    <3>1. "create" \in Ops /\ k \in Nat /\ "slot" \in Pcs /\ v \in Val \cup Short \cup {"none"}
      BY <1>1, OpIs, PcIs
    <3> QED
      BY <1>0, <2>1, <3>1, StartIs
  <2>3. Unladen(q)
    BY <1>5, <2>2 DEF Unladen, Choosing, Create
  <2> QED
    BY <1>0, <1>5, <2>1, <2>2, <2>3, Begun DEF Create
<1>6. ASSUME NEW new \in Name, Mv(d, nm, new) PROVE UIInv'
  <2>0. PICK s2 : s2 = UCut[new] /\ s2 \in Short
    BY <1>6, UCutShort
  <2>1. PICK q : q = Start("mv", s, 0, s2, "find")
    OBVIOUS
  <2>2. q \in Local /\ q.op = "mv" /\ q.pc = "find" /\ q.slot = 0 /\ q.v = s2
    <3>1. "mv" \in Ops /\ 0 \in Nat /\ "find" \in Pcs /\ s2 \in Val \cup Short \cup {"none"}
      BY <1>1, <2>0, OpIs, PcIs
    <3> QED
      BY <1>0, <2>1, <3>1, StartIs
  <2>3. Unladen(q)
    BY <2>0, <2>2 DEF Unladen, Searching
  <2> QED
    BY <1>0, <1>6, <2>0, <2>1, <2>2, <2>3, Begun DEF Mv
<1> QED
  BY <1>2, <1>3, <1>4, <1>5, <1>6

(* Driver d is in directory x from here on, with y as its parent.          *)
Settler(b, x, y, L) == x \in L /\ (x # Root => y = b[x].up)
Reminded(G, G2, d) == G \ {d} \subseteq G2 /\ (Kernel \in G => Kernel \in G2)

LEMMA DwellMoved ==
    ASSUME NEW b, NEW U, NEW P, NEW k, NEW G, NEW L, Dwelling(b, U, P, k, G, L),
           NEW d \in Driver, NEW x, NEW y, NEW U2, NEW P2, Turned(U, U2, d, x), Turned(P, P2, d, y),
           NEW G2, d \in G2 \/ Settler(b, x, y, L), Reminded(G, G2, d)
    PROVE  Dwelling(b, U2, P2, k, G2, L)
<1>1. ASSUME NEW e \in Driver \ G2 PROVE U2[e] \in L /\ (U2[e] # Root => P2[e] = b[U2[e]].up)
  <2>1. CASE e = d
    BY <2>1 DEF Turned, Settler
  <2>2. CASE e # d
    BY <2>2 DEF Turned, Reminded, Dwelling
  <2> QED
    BY <2>1, <2>2
<1> QED
  BY <1>1 DEF Dwelling, Reminded

LEMMA MovedKept ==
    ASSUME NEW f, NEW b, NEW D, NEW U, NEW P, NEW k, NEW G, NEW K, NEW g, NEW w, NEW C,
           Inner(f, b, D, U, P, k, G, K, g, w, C),
           NEW d \in Driver, ~HalfOf(D[d]),
           NEW D2 \in [Driver -> {Idle} \cup Local], Turned(D, D2, d, Idle),
           NEW C2 \in [Driver -> SUBSET Cluster], Turned(C, C2, d, {}),
           NEW x, NEW y, NEW U2 \in [Driver -> Dirs], Turned(U, U2, d, x),
           NEW P2 \in [Driver -> Dirs], Turned(P, P2, d, y),
           NEW G2, d \in G2 \/ Settler(b, x, y, LiveDirsOf(g, w)), Reminded(G, G2, d),
           NEW K2, Paid(f, g, C2, K2)
    PROVE  Inner(f, b, D2, U2, P2, k, G2, K2, g, w, C2)
<1>1. /\ f \in Tables /\ b \in [Dirs -> Block] /\ k \in Dirs /\ Settled(g, w)
      /\ Relates(f, b, g, w, DyingOf(D, U)) /\ Bare(f, b) /\ Apart(f, g, C)
      /\ \A e \in Driver : Stage(f, b, D[e], U[e], C[e])
      /\ Halves(b, D, U, LiveDirsOf(g, w))
      /\ Dwelling(b, U, P, k, G, LiveDirsOf(g, w)) /\ Aimed(b, D, U, G)
  BY DEF Inner
<1>2. /\ D2[d] = Idle /\ C2[d] = {} /\ U2[d] = x
      /\ \A e \in Driver \ {d} : D2[e] = D[e] /\ C2[e] = C[e] /\ U2[e] = U[e]
  BY DEF Turned
<1>3. ~HalfOf(D2[d])
  BY <1>2, IdleIs
<1>4. DyingOf(D2, U2) = DyingOf(D, U)
  BY <1>2, <1>3 DEF DyingOf
<1>5. ASSUME NEW e \in Driver PROVE Stage(f, b, D2[e], U2[e], C2[e])
  <2>1. CASE e = d
    BY <1>2, <2>1, IdleIs
  <2>2. CASE e # d
    BY <1>1, <1>2, <2>2
  <2> QED
    BY <2>1, <2>2
<1>6. Apart(f, g, C2)
  <2>1. \A e \in Driver : C2[e] \subseteq C[e]
    BY <1>2
  <2> QED
    BY <1>1, <2>1 DEF Apart
<1>7. Halves(b, D2, U2, LiveDirsOf(g, w))
  <2>1. \A e \in Driver : HalfOf(D2[e]) => e # d
    BY <1>3
  <2>2. \A e \in Driver : HalfOf(D2[e]) => HalfOf(D[e]) /\ D2[e] = D[e] /\ U2[e] = U[e]
    BY <1>2, <2>1
  <2>3. ASSUME NEW e \in Driver, HalfOf(D2[e])
        PROVE  /\ U2[e] \in LiveDirsOf(g, w) /\ Live(b[U2[e]].ent[D2[e].slot])
               /\ b[U2[e]].ent[D2[e].slot].cl \in Cluster
    BY <1>1, <2>2, <2>3 DEF Halves
  <2>4. ASSUME NEW e \in Driver, NEW z \in Driver, HalfOf(D2[e]), HalfOf(D2[z]), U2[e] = U2[z],
               D2[e].slot = D2[z].slot
        PROVE  e = z
    <3>1. HalfOf(D[e]) /\ HalfOf(D[z]) /\ U[e] = U[z] /\ D[e].slot = D[z].slot
      BY <2>2, <2>4
    <3> QED
      BY <1>1, <3>1 DEF Halves
  <2> QED
    BY <2>3, <2>4 DEF Halves
<1>8. Dwelling(b, U2, P2, k, G2, LiveDirsOf(g, w))
  BY <1>1, DwellMoved
<1>9. Aimed(b, D2, U2, G2)
  <2> SUFFICES ASSUME NEW e \in Driver \ G2 PROVE AimedAt(b, D2[e], U2[e])
    BY DEF Aimed
  <2>1. CASE e = d
    BY <1>2, <2>1, IdleIs
  <2>2. CASE e # d
    BY <1>1, <1>2, <2>2 DEF Aimed, Reminded
  <2> QED
    BY <2>1, <2>2
<1> QED
  BY <1>1, <1>4, <1>5, <1>6, <1>7, <1>8, <1>9 DEF Inner

(* Where the drivers work on a disk that is not followed any further       *)
LEMMA LodgedAfter ==
    ASSUME NEW L, L \subseteq LiveDirsOf(fat', blk'),
           Dwelling(blk', ucwd', uparent', cwd', gone', L)
    PROVE  ParentExact'
<1>1. Lodged'
  BY DEF Lodged
<1>2. Lodged' => ParentExact'
  BY LodgedParents, PTL
<1> QED
  BY <1>1, <1>2

LEMMA KillKept ==
    ASSUME NEW g, NEW w, NEW C, Follows(g, w, C), Intact, NEW d \in Driver, Kill(d)
    PROVE  UIInv'
<1>1. PICK D2, U2, P2, G2, K2, C2 :
         /\ D2 = drv' /\ U2 = ucwd' /\ P2 = uparent' /\ G2 = gone' /\ K2 = killed'
         /\ C2 = [C EXCEPT ![d] = {}]
  OBVIOUS
<1>2. /\ drv \in [Driver -> {Idle} \cup Local] /\ C \in [Driver -> SUBSET Cluster]
      /\ ucwd \in [Driver -> Dirs] /\ uparent \in [Driver -> Dirs] /\ Root \in Dirs
      /\ Stage(fat, blk, drv[d], ucwd[d], C[d]) /\ Paid(fat, g, C, killed)
      /\ Dwelling(blk, ucwd, uparent, cwd, gone, LiveDirsOf(g, w))
      /\ LiveDirsOf(g, w) \subseteq LiveDirsOf(fat, blk)
  BY FollowedWell DEF Follows, Inner, Dirs
<1>3. /\ D2 \in [Driver -> {Idle} \cup Local] /\ Turned(drv, D2, d, Idle)
      /\ C2 \in [Driver -> SUBSET Cluster] /\ Turned(C, C2, d, {})
      /\ U2 \in [Driver -> Dirs] /\ Turned(ucwd, U2, d, Root)
      /\ P2 \in [Driver -> Dirs] /\ Turned(uparent, P2, d, Root)
      /\ G2 = gone \ {d} /\ K2 = killed \cup (Held(d) \cap Unowned) /\ ~HalfOf(drv[d])
  BY <1>1, <1>2, HalfIs DEF Kill, Turned
<1>4. fat' = fat /\ blk' = blk /\ cwd' = cwd
  BY DEF Kill
<1>5. Settler(blk, Root, Root, LiveDirsOf(g, w)) /\ Reminded(gone, G2, d)
  BY <1>3, DriverAssumption DEF Settler, LiveDirsOf, Reminded
<1>6. Settled(g, w) /\ Relates(fat, blk, g, w, DyingOf(drv, ucwd))
  BY DEF Follows, Inner
<1>7. Paid(fat, g, C2, K2)
  <2> SUFFICES ASSUME NEW c \in Cluster, fat[c] # Free, g[c] = Free, c \notin K2
               PROVE  \E e \in Driver : c \in C2[e]
    BY DEF Paid
  <2>1. PICK e \in Driver : c \in C[e]
    BY <1>2, <1>3 DEF Paid
  <2>2. c \in Unowned
    BY <1>6, FreeUnowned
  <2>3. e # d
    <3> SUFFICES ASSUME c \in C[d] PROVE FALSE
      BY <2>1
    <3>1. c \in HeldOf(fat, drv[d])
      BY <1>2, StageHeld
    <3>2. c \in Held(d)
      BY <3>1, HeldIs
    <3> QED
      BY <1>3, <2>2, <3>2
  <2> QED
    BY <1>3, <2>1, <2>3 DEF Turned
<1>8. Inner(fat, blk, drv, ucwd, uparent, cwd, gone, killed, g, w, C)
  BY DEF Follows
<1>9. Inner(fat, blk, D2, U2, P2, cwd, G2, K2, g, w, C2)
  BY <1>3, <1>5, <1>7, <1>8, MovedKept
<1> QED
  BY <1>1, <1>4, <1>9, FollowedIs

(* Where nothing changes the properties hold on; a kill over a half        *)
(* removed file is the last thing that is followed.                        *)
LEMMA Repeats ==
    ASSUME UNCHANGED <<fat, blk, drv, ucwd, uparent, gone, killed>>, damage' = damage \/ Intact, Promises
    PROVE  Promises'
<1>1. UNoSharedCluster /\ ULeakCause /\ UFilesReadBack /\ ParentExact
  BY DEF Promises
<1>2. LiveDirs' = LiveDirs /\ Places' = Places /\ \A p : At(p)' = At(p)
  BY DEF LiveDirs, Places, At
<1>3. Dying' = Dying
  BY DEF Dying, HalfRemoved, Removing, Busy, Place
<1>4. CASE damage' = damage
  <2>1. Raced' = Raced
    BY <1>4 DEF Raced
  <2>2. UNoSharedCluster'
    BY <1>1, <1>2, <1>3, <2>1 DEF UNoSharedCluster
  <2>3. ULeakCause'
    <3>1. Unowned' = Unowned
      BY <1>2, <1>3 DEF Unowned
    <3>2. \A d \in Driver : Held(d)' = Held(d)
      BY DEF Held, Busy
    <3> QED
      BY <1>1, <1>4, <2>1, <3>1, <3>2 DEF ULeakCause
  <2>4. UFilesReadBack'
    <3>1. \A e : ReadFile(e)' = ReadFile(e)
      BY DEF ReadFile
    <3>2. \A p : Emptied(p)' = Emptied(p)
      BY <1>2, <1>4 DEF Emptied
    <3> QED
      BY <1>1, <1>2, <1>3, <2>1, <3>1, <3>2 DEF UFilesReadBack
  <2>5. ParentExact'
    BY <1>1, <1>2, <1>4, <2>1 DEF ParentExact
  <2> QED
    BY <2>2, <2>3, <2>4, <2>5 DEF Promises
<1>5. CASE Intact
  <2>1. ~Raced /\ damage \notin TakesDir \cup {"mkdir_full"} /\ \A p : ~Emptied(p)
    BY <1>5 DEF Intact, Raced, DotCauses, TakesDir, Emptied, NoRoom
  <2>2. UNoSharedCluster'
    BY <1>1, <1>2, <1>3, <2>1 DEF UNoSharedCluster
  <2>3. ULeakCause'
    <3>1. Unowned' = Unowned
      BY <1>2, <1>3 DEF Unowned
    <3>2. \A d \in Driver : Held(d)' = Held(d)
      BY DEF Held, Busy
    <3> QED
      BY <1>1, <2>1, <3>1, <3>2 DEF ULeakCause
  <2>4. UFilesReadBack'
    <3>1. \A e : ReadFile(e)' = ReadFile(e)
      BY DEF ReadFile
    <3> QED
      BY <1>1, <1>2, <1>3, <2>1, <3>1 DEF UFilesReadBack
  <2>5. ParentExact'
    BY <1>1, <1>2, <2>1 DEF ParentExact
  <2> QED
    BY <2>2, <2>3, <2>4, <2>5 DEF Promises
<1> QED
  BY <1>4, <1>5

LEMMA KillRemovingKept ==
    ASSUME Followed, NEW d, KillRemoving(d)
    PROVE  UIInv'
<1>1. Intact /\ UNCHANGED <<fat, blk, drv, ucwd, uparent, gone, killed>> /\ ~Intact'
  BY DEF KillRemoving, Intact
<1>2. Promises'
  BY <1>1, Promised, Repeats
<1> QED
  BY <1>1, <1>2 DEF UIInv

(* An idle driver goes to directory x.                                     *)
LEMMA WentTo ==
    ASSUME NEW g, NEW w, NEW C, Follows(g, w, C), NEW d \in Driver, ~Busy(d),
           UNCHANGED <<fat, blk, cwd, drv, killed>>, NEW x \in Dirs, NEW y \in Dirs,
           ucwd' = [ucwd EXCEPT ![d] = x], uparent' = [uparent EXCEPT ![d] = y],
           NEW G2, gone' = G2, Reminded(gone, G2, d),
           Settler(blk, x, y, LiveDirsOf(g, w))
    PROVE  UIInv'
<1>1. /\ drv \in [Driver -> {Idle} \cup Local] /\ C \in [Driver -> SUBSET Cluster]
      /\ ucwd \in [Driver -> Dirs] /\ uparent \in [Driver -> Dirs]
      /\ Stage(fat, blk, drv[d], ucwd[d], C[d]) /\ Paid(fat, g, C, killed)
  BY DEF Follows, Inner
<1>2. PICK U2, P2 : U2 = ucwd' /\ P2 = uparent'
  OBVIOUS
<1>3. drv[d] = Idle /\ C[d] = {} /\ ~HalfOf(drv[d])
  BY <1>1, StageAt, IdleIs DEF Busy
<1>4. /\ U2 \in [Driver -> Dirs] /\ Turned(ucwd, U2, d, x)
      /\ P2 \in [Driver -> Dirs] /\ Turned(uparent, P2, d, y)
  BY <1>1, <1>2 DEF Turned
<1>5. Turned(drv, drv, d, Idle) /\ Turned(C, C, d, {})
  BY <1>3 DEF Turned
<1>6. Inner(fat, blk, drv, ucwd, uparent, cwd, gone, killed, g, w, C)
  BY DEF Follows
<1>7. Inner(fat, blk, drv, U2, P2, cwd, G2, killed, g, w, C)
  BY <1>1, <1>3, <1>4, <1>5, <1>6, MovedKept
<1> QED
  BY <1>2, <1>7, FollowedIs

LEMMA UCdKept ==
    ASSUME NEW g, NEW w, NEW C, Follows(g, w, C), NEW d \in Driver, NEW nm \in Name, UCd(d, nm)
    PROVE  UIInv'
<1>1. PICK u, S, i, x, G2 :
         /\ u = ucwd[d] /\ S = Matches(blk[u].ent, UCut[nm], {"dir"}) /\ i = Least(S) /\ x = blk[u].ent[i].cl
         /\ G2 = gone'
  OBVIOUS
<1>2. /\ ~Busy(d) /\ d \notin gone /\ S # {} /\ UNCHANGED <<fat, blk, cwd, drv, killed>>
      /\ uparent' = [uparent EXCEPT ![d] = u] /\ ucwd' = [ucwd EXCEPT ![d] = x]
      /\ G2 = gone \cup {z \in {d} : Removed(x, fat, blk)}
      /\ <<u, i>> \in Dying => damage' = "race"
  BY <1>1 DEF UCd
<1>3. CASE <<u, i>> \in Dying
  BY <1>2, <1>3, RaceIs
<1>4. CASE <<u, i>> \notin Dying
  <2>1. u \in LiveDirsOf(g, w) /\ u \in Dirs
    BY <1>1, <1>2, InnerFacts
  <2>2. Sound(g, w) /\ Relates(fat, blk, g, w, DyingOf(drv, ucwd))
    BY DEF Follows, Inner, Settled
  <2>3. i \in S /\ i \in Slots /\ blk[u].ent[i].kind = "dir"
    <3>1. S \subseteq Nat
      BY <1>1, SlotsNat, Zenon DEF Matches, Scanned
    <3>2. i \in S
      BY <1>1, <1>2, <3>1, LeastIs
    <3> QED
      BY <1>1, <3>2, Zenon DEF Matches, Scanned
  <2>4. PICK Z, p : Z = DyingOf(drv, ucwd) /\ p = <<u, i>>
    OBVIOUS
  <2>5. p \in PlacesOf(g, w) /\ AtOf(w, p) = blk[u].ent[i] /\ p[1] = u
    <3>1. Relates(fat, blk, g, w, Z) /\ <<u, i>> \notin Z /\ Live(blk[u].ent[i])
      BY <1>4, <2>2, <2>3, <2>4, DyingIs DEF Live
    <3> QED
      BY <2>1, <2>3, <2>4, <3>1, PlaceSettled
  <2>6. x \in Cluster /\ x \in LiveDirsOf(g, w) /\ w[x].up = u
    BY <1>1, <2>2, <2>3, <2>5, PlaceFacts, SMTT(30)
  <2>7. blk[x].up = u
    BY <2>2, <2>6 DEF Relates
  <2>8. Settler(blk, x, u, LiveDirsOf(g, w)) /\ Reminded(gone, G2, d) /\ x \in Dirs
    BY <1>2, <2>6, <2>7 DEF Settler, Reminded, Dirs
  <2> QED
    BY <1>1, <1>2, <2>1, <2>8, WentTo, Zenon
<1> QED
  BY <1>3, <1>4

LEMMA UCdUpKept ==
    ASSUME NEW g, NEW w, NEW C, Follows(g, w, C), NEW d \in Driver, UCdUp(d)
    PROVE  UIInv'
<1>1. PICK u, x, y, G2 : u = ucwd[d] /\ x = uparent[d] /\ y = Grandparent(d) /\ G2 = gone'
  OBVIOUS
<1>2. /\ ~Busy(d) /\ d \notin gone /\ u # Root /\ UNCHANGED <<fat, blk, cwd, drv, killed>>
      /\ uparent' = [uparent EXCEPT ![d] = y] /\ ucwd' = [ucwd EXCEPT ![d] = x] /\ G2 = gone
  BY <1>1 DEF UCdUp
<1>3. /\ Sound(g, w) /\ Tree(g, w) /\ Relates(fat, blk, g, w, DyingOf(drv, ucwd))
      /\ Dwelling(blk, ucwd, uparent, cwd, gone, LiveDirsOf(g, w)) /\ blk \in [Dirs -> Block]
  BY DEF Follows, Inner, Settled
<1>4. u \in LiveDirsOf(g, w) /\ x = blk[u].up
  BY <1>1, <1>2, <1>3 DEF Dwelling
<1>5. x \in LiveDirsOf(g, w) /\ x \in Dirs /\ blk[x].is = "dir"
  BY <1>2, <1>3, <1>4 DEF Relates, Tree, LiveDirsOf, Dirs
<1>6. y = (IF x = Root THEN Root ELSE blk[x].up)
  BY <1>1 DEF Grandparent
<1>7. y \in Dirs
  <2>1. blk[x] \in Block
    BY <1>3, <1>5
  <2>2. blk[x].up \in Dirs
    BY <1>5, <2>1, BlockFacts
  <2> QED
    BY <1>6, <2>2 DEF Dirs
<1>8. Settler(blk, x, y, LiveDirsOf(g, w)) /\ Reminded(gone, G2, d)
  BY <1>2, <1>5, <1>6 DEF Settler, Reminded
<1> QED
  BY <1>1, <1>2, <1>5, <1>7, <1>8, WentTo

LEMMA UCdRootKept ==
    ASSUME NEW g, NEW w, NEW C, Follows(g, w, C), NEW d \in Driver, UCdRoot(d)
    PROVE  UIInv'
<1>1. PICK x, G2 : x = Root /\ G2 = gone'
  OBVIOUS
<1>2. /\ ~Busy(d) /\ UNCHANGED <<fat, blk, cwd, drv, killed>>
      /\ uparent' = [uparent EXCEPT ![d] = x] /\ ucwd' = [ucwd EXCEPT ![d] = x] /\ G2 = gone \ {d}
  BY <1>1 DEF UCdRoot
<1>3. Settler(blk, x, x, LiveDirsOf(g, w)) /\ Reminded(gone, G2, d) /\ x \in Dirs
  BY <1>1, <1>2, DriverAssumption DEF Settler, LiveDirsOf, Reminded, Dirs
<1> QED
  BY <1>1, <1>2, <1>3, WentTo

-----------------------------------------------------------------------------
(* Calls of the kernel between two steps of the drivers                    *)

(* What a call in directory k does to the disk: the clusters O of an entry *)
(* go, clusters N are taken for one, and in k no end mark moves up.        *)
CallTo(f, b, k, O, N, f2, b2) ==
    /\ \A c \in Cluster \ N : f2[c] = IF c \in O THEN Free ELSE f[c]
    /\ N \subseteq Cluster
    /\ \A c \in N : f2[c] # Free /\ (f[c] = Free \/ c \in O) /\ (c \in O => b2[c].is # "dir")
    /\ \A x \in Dirs \ {k} : x \notin N /\ (x = Root \/ f2[x] # Free) => b2[x] = b[x]
    /\ b2[k].is = "dir" /\ b2[k].up = b[k].up
    /\ \A i \in Slots : b[k].ent[i].kind # "end" => b2[k].ent[i].kind # "end"

(* What it does to the settled volume                                      *)
Booked(g, w, O, N, f2, g2, w2) ==
    /\ \A c \in Cluster : g2[c] = IF c \in N THEN f2[c] ELSE IF c \in O THEN Free ELSE g[c]
    /\ LiveDirsOf(g, w) \ O \subseteq LiveDirsOf(g2, w2)

(* Nothing is half removed where the call is at work.                      *)
Clear(D, U, k, O) == \A e \in Driver : HalfOf(D[e]) => U[e] # k /\ U[e] \notin O

(* The clusters of an entry in directory k                                 *)
OwnedAway(g, k, O) == k \notin O /\ \A c \in O : c \in Cluster /\ g[c] # Free

(* Who works in a directory that goes is told.                             *)
LostTo(U, G, G2, f, b) == G \subseteq G2 /\ \A e \in Driver \ G2 : ~Removed(U[e], f, b)

LEMMA CallKept ==
    ASSUME NEW f, NEW b, NEW D, NEW U, NEW P, NEW k, NEW G, NEW K, NEW g, NEW w, NEW C,
           Inner(f, b, D, U, P, k, G, K, g, w, C), Kernel \notin G,
           NEW O, NEW N, OwnedAway(g, k, O), Clear(D, U, k, O),
           NEW f2 \in Tables, NEW b2 \in [Dirs -> Block], CallTo(f, b, k, O, N, f2, b2), Bare(f2, b2),
           NEW g2, NEW w2, Settled(g2, w2), Relates(f2, b2, g2, w2, DyingOf(D, U)),
           Booked(g, w, O, N, f2, g2, w2), NEW G2, LostTo(U, G, G2, f2, b2)
    PROVE  Inner(f2, b2, D, U, P, k, G2, K, g2, w2, C)
<1>1. /\ f \in Tables /\ b \in [Dirs -> Block] /\ D \in [Driver -> {Idle} \cup Local] /\ k \in Dirs
      /\ C \in [Driver -> SUBSET Cluster] /\ Apart(f, g, C) /\ Relates(f, b, g, w, DyingOf(D, U))
      /\ Halves(b, D, U, LiveDirsOf(g, w)) /\ Dwelling(b, U, P, k, G, LiveDirsOf(g, w))
  BY DEF Inner
<1>2. PICK L, L2, W : L = LiveDirsOf(g, w) /\ L2 = LiveDirsOf(g2, w2) /\ W = Driver
  OBVIOUS
<1>3. /\ \A c \in Cluster : g[c] # Free => f[c] = g[c]
      /\ \A x \in L : x \in Dirs /\ (x = Root \/ (x \in Cluster /\ g[x] # Free))
      /\ Cluster \subseteq Dirs /\ Root \notin Cluster
  BY <1>1, <1>2, FatBounds DEF Relates, LiveDirsOf, Dirs
<1>4. k \in L
  BY <1>1, <1>2 DEF Dwelling
<1>5. /\ N \subseteq Cluster
      /\ \A c \in Cluster \ N : f2[c] = IF c \in O THEN Free ELSE f[c]
      /\ \A c \in N : f2[c] # Free /\ (f[c] = Free \/ c \in O) /\ (c \in O => b2[c].is # "dir")
      /\ \A x \in Dirs \ {k} : x \notin N /\ (x = Root \/ f2[x] # Free) => b2[x] = b[x]
      /\ b2[k].is = "dir" /\ b2[k].up = b[k].up
      /\ \A i \in Slots : b[k].ent[i].kind # "end" => b2[k].ent[i].kind # "end"
  BY DEF CallTo
<1>6. /\ \A c \in Cluster : g2[c] = IF c \in N THEN f2[c] ELSE IF c \in O THEN Free ELSE g[c]
      /\ L \ O \subseteq L2
  BY <1>2 DEF Booked
<1>7. k \notin O /\ \A c \in O : c \in Cluster /\ g[c] # Free
  BY DEF OwnedAway
<1>8. Spared(f, b, C, f2, b2, g2, W)
  <2> SUFFICES ASSUME NEW e \in Driver, NEW c \in C[e] PROVE f2[c] = f[c] /\ b2[c] = b[c] /\ g2[c] = Free
    BY <1>2 DEF Spared
  <2>1. c \in Cluster /\ f[c] # Free /\ g[c] = Free
    BY <1>1 DEF Apart
  <2>2. c \notin O /\ c \notin N /\ c # k
    BY <1>3, <1>4, <1>5, <1>7, <2>1
  <2>3. f2[c] = f[c] /\ g2[c] = Free
    BY <1>5, <1>6, <2>1, <2>2
  <2>4. c \in Dirs \ {k} /\ f2[c] # Free
    BY <1>3, <2>1, <2>2, <2>3
  <2>5. b2[c] = b[c]
    BY <1>5, <2>2, <2>4
  <2> QED
    BY <2>3, <2>5
<1>9. Accounted(f, g, C, f2, g2, C, W)
  <2>1. ASSUME NEW c \in Cluster, f2[c] # Free, g2[c] = Free PROVE f[c] # Free /\ g[c] = Free
    <3>1. c \notin N
      BY <1>6, <2>1
    <3>2. c \notin O
      BY <1>5, <2>1, <3>1
    <3> QED
      BY <1>5, <1>6, <2>1, <3>1, <3>2
  <2> QED
    BY <1>2, <2>1 DEF Accounted
<1>10. ASSUME NEW x \in L \ O, x # k PROVE b2[x] = b[x]
  <2>1. x \in L /\ x \notin O /\ x # k
    BY <1>10
  <2>2. x \in Dirs /\ (x = Root \/ (x \in Cluster /\ g[x] # Free /\ f[x] = g[x]))
    BY <1>3, <2>1
  <2>3. x \notin N
    <3> SUFFICES ASSUME x \in N PROVE FALSE
      OBVIOUS
    <3>1. f[x] = Free \/ x \in O
      BY <1>5
    <3>2. x = Root
      BY <2>1, <2>2, <3>1
    <3> QED
      BY <1>3, <1>5, <3>2
  <2>4. x = Root \/ f2[x] # Free
    BY <1>5, <2>1, <2>2, <2>3
  <2> QED
    BY <1>5, <2>1, <2>2, <2>3, <2>4
<1>11. Halves(b2, D, U, L2)
  <2>1. ASSUME NEW e \in Driver, HalfOf(D[e])
        PROVE  U[e] \in L2 /\ b2[U[e]] = b[U[e]]
    <3>1. U[e] \in L /\ U[e] # k /\ U[e] \notin O
      BY <1>1, <1>2, <2>1 DEF Halves, Clear
    <3> QED
      BY <1>6, <1>10, <3>1
  <2> QED
    BY <1>1, <2>1 DEF Halves
<1>12. Told(U, G, G2, L, L2)
  <2> SUFFICES ASSUME NEW e \in Driver \ G2, U[e] \in L, U[e] \in O PROVE FALSE
    BY <1>6 DEF Told, LostTo
  <2>1. U[e] # Root /\ U[e] \in Cluster
    BY <1>3, <1>7
  <2>2. f2[U[e]] # Free /\ b2[U[e]].is = "dir"
    BY <2>1 DEF LostTo, Removed
  <2> QED
    BY <1>5, <2>1, <2>2
<1>13. Marked(b, b2, L, L2)
  <2> SUFFICES ASSUME NEW x \in L \cap L2
               PROVE  /\ b2[x].up = b[x].up
                      /\ \A i \in Slots : b[x].ent[i].kind # "end" => b2[x].ent[i].kind # "end"
    BY DEF Marked
  <2>1. CASE x = k
    BY <1>5, <2>1
  <2>2. CASE x # k
    <3>1. x \notin O
      <4> SUFFICES ASSUME x \in O PROVE FALSE
        OBVIOUS
      <4>1. x \in Cluster /\ g2[x] # Free
        BY <1>2, <1>7, FatBounds DEF LiveDirsOf
      <4>2. x \in N
        BY <1>6, <4>1
      <4>3. b2[x].is = "dir"
        BY <1>2 DEF Relates
      <4> QED
        BY <1>5, <4>2, <4>3
    <3> QED
      BY <1>10, <2>2, <3>1
  <2> QED
    BY <2>1, <2>2
<1>14. Kernel \notin G2 => k \in L2
  BY <1>4, <1>6, <1>7
<1>15. \A e \in Driver \ W : FALSE
  BY <1>2
<1>16. /\ W \in SUBSET Driver /\ \A e, x \in Driver \ W : e = x
       /\ \A e \in W : D[e] = D[e] /\ C[e] = C[e]
       /\ \A e \in Driver \ W : Stage(f2, b2, D[e], U[e], C[e])
       /\ \A e \in Driver \ (W \cup G2) : AimedAt(b2, D[e], U[e])
  BY <1>2, <1>15
<1>17. /\ Halves(b2, D, U, LiveDirsOf(g2, w2))
       /\ Told(U, G, G2, LiveDirsOf(g, w), LiveDirsOf(g2, w2))
       /\ Marked(b, b2, LiveDirsOf(g, w), LiveDirsOf(g2, w2))
       /\ Kernel \notin G2 => k \in LiveDirsOf(g2, w2)
  BY <1>2, <1>11, <1>12, <1>13, <1>14
<1> QED
  BY <1>1, <1>8, <1>9, <1>16, <1>17, StepKept

(* write_curdir, of any disk                                               *)
WithOf(f, b, k, i, e) ==
    [x \in Dirs |-> IF x = k THEN Edited(b[k], i, e) ELSE IF x # Root /\ f[x] = Free THEN Unread ELSE b[x]]

LEMMA WithOfIs ==
    ASSUME NEW f \in Tables, NEW b \in [Dirs -> Block], NEW k \in Dirs, b[k].is = "dir",
           NEW i \in Slots, NEW e \in Entry, NEW b2, b2 = WithOf(f, b, k, i, e)
    PROVE  /\ b2 \in [Dirs -> Block] /\ EditOn(f, b, k, i, b2) /\ b2[k] = Edited(b[k], i, e)
           /\ b2[k].ent[i] = e
           /\ k = Root \/ f[k] # Free => Bare(f, b2)
<1>1. PICK x : x = b[k] /\ x \in Block /\ x.is = "dir"
  OBVIOUS
<1>2. PICK y : y = Edited(x, i, e) /\ y \in Block /\ y.is = "dir" /\ y.up = x.up
               /\ y.ent = [x.ent EXCEPT ![i] = e]
  BY <1>1, BlockFacts
<1>3. x.ent \in [Slots -> Entry]
  BY <1>1, EntIs
<1>4. y.ent[i] = e /\ \A j \in Slots \ {i} : y.ent[j] = x.ent[j]
  BY <1>2, <1>3
<1>5. Unread \in Block /\ Unread.is # "dir"
  BY NewBlocks
<1>6. b2[k] = y /\ \A z \in Dirs \ {k} : b2[z] = IF z # Root /\ f[z] = Free THEN Unread ELSE b[z]
  BY <1>1, <1>2 DEF WithOf
<1>7. b2 \in [Dirs -> Block]
  BY <1>1, <1>2, <1>5 DEF WithOf
<1>8. EditOn(f, b, k, i, b2)
  BY <1>1, <1>2, <1>4, <1>6 DEF EditOn
<1>9. ASSUME k = Root \/ f[k] # Free PROVE Bare(f, b2)
  <2>1. \A c \in Cluster : c \in Dirs /\ c # Root
    BY FatBounds DEF Dirs
  <2> QED
    BY <1>5, <1>6, <1>9, <2>1 DEF Bare
<1> QED
  BY <1>1, <1>2, <1>4, <1>6, <1>7, <1>8, <1>9

(* The directory of a call on the settled volume                           *)
LEMMA LiveFacts ==
    ASSUME NEW f, NEW b \in [Dirs -> Block], NEW g, NEW w, NEW Z, Sound(g, w), Relates(f, b, g, w, Z),
           NEW k \in LiveDirsOf(g, w)
    PROVE  /\ k \in Dirs /\ b[k].is = "dir" /\ b[k].ent \in [Slots -> Entry]
           /\ k = Root \/ (k \in Cluster /\ g[k] # Free /\ f[k] # Free)
<1>1. k \in Dirs /\ b[k].is = "dir"
  BY DEF Relates, LiveDirsOf, Dirs
<1>2. b[k].ent \in [Slots -> Entry]
  BY <1>1, EntIs
<1> QED
  BY <1>1, <1>2 DEF Relates, LiveDirsOf

(* An entry with clusters O is deleted from directory k.                   *)
Severed(f, O, f2) == \A c \in Cluster : f2[c] = IF c \in O THEN Free ELSE f[c]

LEMMA Struck ==
    ASSUME NEW f \in Tables, NEW b \in [Dirs -> Block], NEW g, NEW w, NEW Z, Settled(g, w),
           Relates(f, b, g, w, Z), NEW k \in LiveDirsOf(g, w), NEW i \in Slots, NEW p, p = <<k, i>>,
           p \in PlacesOf(g, w), NEW O, O = Owns(g, w, p),
           NEW f2 \in Tables, Severed(f, O, f2),
           NEW b2, b2 = WithOf(f2, b, k, i, Deleted)
    PROVE  /\ OwnedAway(g, k, O) /\ b2 \in [Dirs -> Block] /\ ChainGone(f, b, p, O, f2, b2)
           /\ CallTo(f, b, k, O, {}, f2, b2) /\ Bare(f2, b2) /\ b2[k].ent[i] = Deleted
           /\ EditOn(f2, b, k, i, b2)
<1>1. Sound(g, w) /\ Tree(g, w)
  BY DEF Settled
<1>2. k \notin O
  BY <1>1, NotWithin
<1>3. \A c \in O : c \in Cluster /\ g[c] # Free
  BY <1>1, PlaceFacts
<1>4. k \in Dirs /\ b[k].is = "dir" /\ (k = Root \/ (k \in Cluster /\ f[k] # Free))
  BY <1>1, LiveFacts
<1>5. Deleted \in Entry /\ Deleted.kind = "deleted"
  BY NewEntries
<1>6. /\ b2 \in [Dirs -> Block] /\ EditOn(f2, b, k, i, b2)
      /\ b2[k].ent[i] = Deleted
      /\ k = Root \/ f2[k] # Free => Bare(f2, b2)
  BY <1>4, <1>5, WithOfIs
<1>7. Bare(f2, b2)
  BY <1>2, <1>4, <1>6 DEF Severed
<1>8. /\ \A x \in Dirs \ {k} : x = Root \/ f2[x] # Free => b2[x] = b[x]
      /\ b2[k].is = "dir" /\ b2[k].up = b[k].up
      /\ \A j \in Slots \ {i} : b2[k].ent[j] = b[k].ent[j]
  BY <1>6 DEF EditOn
<1>9. ChainGone(f, b, p, O, f2, b2)
  BY <1>3, <1>8 DEF ChainGone, Severed
<1>10. CallTo(f, b, k, O, {}, f2, b2)
  BY <1>5, <1>6, <1>8 DEF CallTo, Severed
<1> QED
  BY <1>2, <1>3, <1>6, <1>7, <1>9, <1>10 DEF OwnedAway

(* The kernel's directory when a call begins, and where half removed       *)
(* entries are not                                                         *)
Attended(f, b, g, w, Z, k) ==
    /\ f \in Tables /\ b \in [Dirs -> Block] /\ Settled(g, w) /\ Relates(f, b, g, w, Z)
    /\ k \in LiveDirsOf(g, w) /\ \A i \in Slots : <<k, i>> \notin Z

LEMMA AttendedFacts ==
    ASSUME NEW f, NEW b, NEW g, NEW w, NEW Z, NEW k, Attended(f, b, g, w, Z, k)
    PROVE  /\ Sound(g, w) /\ w[k].ent = b[k].ent /\ b[k].ent \in [Slots -> Entry]
           /\ k \in Dirs /\ b[k].is = "dir"
<1>1. /\ Sound(g, w) /\ Relates(f, b, g, w, Z) /\ k \in LiveDirsOf(g, w)
      /\ b \in [Dirs -> Block]
  BY DEF Attended, Settled
<1>2. k \in Dirs /\ b[k].is = "dir" /\ b[k].ent \in [Slots -> Entry]
  BY <1>1, LiveFacts, SMTT(30)
<1>3. w[k] \in Block
  BY <1>1, <1>2 DEF Sound
<1>4. w[k].ent \in [Slots -> Entry]
  BY <1>3, EntIs
<1>5. \A i \in Slots : w[k].ent[i] = b[k].ent[i]
  BY <1>1 DEF Attended, Relates
<1>6. PICK y, z : y = w[k].ent /\ z = b[k].ent
  OBVIOUS
<1>7. y = z
  <2>1. y \in [Slots -> Entry] /\ z \in [Slots -> Entry] /\ \A i \in Slots : y[i] = z[i]
    BY <1>2, <1>4, <1>5, <1>6
  <2> QED
    BY <2>1
<1>8. w[k].ent = b[k].ent
  BY <1>6, <1>7
<1> QED
  BY <1>1, <1>2, <1>8

(* The entry a call finds under a name                                     *)
HitOn(f, b, g, w, k, i, nm, ks) ==
    /\ i \in Slots /\ <<k, i>> \in PlacesOf(g, w) /\ AtOf(w, <<k, i>>) = b[k].ent[i]
    /\ b[k].ent[i].kind \in ks /\ b[k].ent[i].name = nm /\ b[k].ent[i] \in Entry /\ Live(b[k].ent[i])
    /\ Owns(g, w, <<k, i>>) = Chain(f, b[k].ent[i].cl)

LEMMA HitIs ==
    ASSUME NEW f, NEW b, NEW g, NEW w, NEW Z, NEW k, Attended(f, b, g, w, Z, k), NEW nm \in Name,
           NEW ks \in SUBSET {"file", "dir"}, NEW M, M = Matches(b[k].ent, nm, ks), M # {}
    PROVE  HitOn(f, b, g, w, k, Least(M), nm, ks)
<1>1. Sound(g, w) /\ w[k].ent = b[k].ent /\ b[k].ent \in [Slots -> Entry]
  BY AttendedFacts
<1>2. PICK i : i = Least(M)
  OBVIOUS
<1>3. k \in LiveDirsOf(g, w) /\ Relates(f, b, g, w, Z) /\ M = Matches(w[k].ent, nm, ks)
  BY <1>1 DEF Attended
<1>4. /\ i \in M /\ i \in Slots
      /\ \A j \in M : /\ <<k, j>> \in PlacesOf(g, w) /\ AtOf(w, <<k, j>>) = w[k].ent[j]
                      /\ w[k].ent[j].name = nm /\ w[k].ent[j].kind \in ks
  <2>1. Sound(g, w) /\ k \in LiveDirsOf(g, w) /\ nm \in Name /\ ks \in SUBSET {"file", "dir"}
    BY <1>1, <1>3
  <2>2. Matches(w[k].ent, nm, ks) # {}
    BY <1>3
  <2> QED
    BY <1>2, <1>3, <2>1, <2>2, MatchFacts
<1>5. PICK p : p = <<k, i>>
  OBVIOUS
<1>6. p \in PlacesOf(g, w) /\ AtOf(w, p) = w[k].ent[i] /\ w[k].ent[i].name = nm /\ w[k].ent[i].kind \in ks
  BY <1>4, <1>5
<1>7. Owns(f, b, p) = Owns(g, w, p)
  BY <1>1, <1>3, <1>6, RelatesFacts
<1>8. Owns(f, b, p) = Chain(f, b[k].ent[i].cl)
  BY <1>5 DEF Owns, AtOf
<1>9. PICK e : e = b[k].ent[i] /\ e \in Entry
  BY <1>1, <1>4
<1>10. AtOf(w, p) = e /\ e.name = nm /\ e.kind \in ks /\ Owns(g, w, p) = Chain(f, e.cl) /\ i \in Slots
  BY <1>1, <1>4, <1>6, <1>7, <1>8, <1>9
<1>11. Live(e)
  BY <1>10 DEF Live
<1> QED
  BY <1>2, <1>5, <1>6, <1>9, <1>10, <1>11 DEF HitOn

(* Looked at slot by slot up to the end mark, a directory is empty.        *)
LEMMA NoneSeen ==
    ASSUME NEW f, NEW b, NEW D, NEW U, NEW g, NEW w, Sound(g, w), Relates(f, b, g, w, DyingOf(D, U)),
           Halves(b, D, U, LiveDirsOf(g, w)), NEW x \in LiveDirsOf(g, w),
           \A i \in Scanned(b[x].ent) : ~Live(b[x].ent[i])
    PROVE  Hollow(b, x)
<1> SUFFICES ASSUME NEW i \in Slots, Live(b[x].ent[i]) PROVE FALSE
  BY DEF Hollow
<1>1. PICK Z : Z = DyingOf(D, U)
  OBVIOUS
<1>2. \A j \in Slots : w[x].ent[j] = IF <<x, j>> \in Z THEN Deleted ELSE b[x].ent[j]
  BY <1>1 DEF Relates
<1>3. PICK j \in 1..i : b[x].ent[j].kind = "end"
  BY DEF Scanned
<1>4. j \in Slots /\ i \in Nat /\ j \in Nat
  BY FatBounds DEF Slots
<1>5. \A y, n : <<y, n>> \in Z => Live(b[y].ent[n])
  BY <1>1, DyingLive
<1>6. w[x].ent[j].kind = "end"
  BY <1>2, <1>3, <1>4, <1>5 DEF Live
<1>7. w[x].ent[i].kind # "end"
  BY <1>2, NewEntries DEF Live
<1>8. i # j
  BY <1>3 DEF Live
<1>9. j < i
  BY <1>3, <1>4, <1>8
<1> QED
  BY <1>4, <1>6, <1>7, <1>9 DEF Sound, Packed

(* A call of the kernel while nobody removes anything in its directory      *)
Called ==
    /\ Kernel \notin gone /\ \A p \in Dying : p[1] # cwd
    /\ gone' = Lost(fat', blk') /\ UNCHANGED <<drv, ucwd, uparent, killed>>

Slotted(D) == \A e \in Driver : HalfOf(D[e]) => D[e].slot \in Slots
Elsewhere(D, U, k) == \A e \in Driver : HalfOf(D[e]) => U[e] # k

LEMMA CalledFacts ==
    ASSUME NEW g, NEW w, NEW C, Follows(g, w, C), Called, NEW f2, f2 = fat', NEW b2, b2 = blk'
    PROVE  /\ Attended(fat, blk, g, w, DyingOf(drv, ucwd), cwd) /\ Elsewhere(drv, ucwd, cwd)
           /\ Slotted(drv) /\ Halves(blk, drv, ucwd, LiveDirsOf(g, w))
           /\ \A G2 : G2 = gone' => LostTo(ucwd, gone, G2, f2, b2)
<1>1. PICK Z : Z = DyingOf(drv, ucwd)
  OBVIOUS
<1>2. /\ fat \in Tables /\ blk \in [Dirs -> Block] /\ Settled(g, w) /\ Relates(fat, blk, g, w, Z)
      /\ Halves(blk, drv, ucwd, LiveDirsOf(g, w)) /\ cwd \in LiveDirsOf(g, w)
      /\ \A d \in Driver : Stage(fat, blk, drv[d], ucwd[d], C[d])
  BY <1>1 DEF Follows, Inner, Dwelling, Called
<1>3. \A p \in Z : p[1] # cwd
  BY <1>1, DyingIs DEF Called
<1>4. \A i \in Slots : <<cwd, i>> \notin Z
  BY <1>3
<1>5. \A e \in Driver : HalfOf(drv[e]) => ucwd[e] # cwd
  <2> SUFFICES ASSUME NEW e \in Driver, HalfOf(drv[e]) PROVE ucwd[e] # cwd
    OBVIOUS
  <2>1. <<ucwd[e], drv[e].slot>> \in Z
    BY <1>1 DEF DyingOf
  <2> QED
    BY <1>3, <2>1
<1>6. Slotted(drv)
  <2> SUFFICES ASSUME NEW e \in Driver, HalfOf(drv[e]) PROVE drv[e].slot \in Slots
    BY DEF Slotted
  <2>1. PICK r, u, B : r = drv[e] /\ u = ucwd[e] /\ B = C[e]
    OBVIOUS
  <2>2. Stage(fat, blk, r, u, B) /\ HalfOf(r)
    BY <1>2, <2>1
  <2> QED
    BY <2>1, <2>2, HalfStage
<1>7. ASSUME NEW G2, G2 = gone' PROVE LostTo(ucwd, gone, G2, f2, b2)
  BY <1>7 DEF Called, Lost, LostTo
<1> QED
  BY <1>1, <1>2, <1>4, <1>5, <1>6, <1>7 DEF Attended, Elsewhere

LEMMA CallStep ==
    ASSUME NEW g, NEW w, NEW C, Follows(g, w, C), Called, NEW f2 \in Tables, f2 = fat',
           NEW b2 \in [Dirs -> Block], b2 = blk', cwd' = cwd,
           NEW O, NEW N, OwnedAway(g, cwd, O), Clear(drv, ucwd, cwd, O),
           CallTo(fat, blk, cwd, O, N, f2, b2), Bare(f2, b2),
           NEW g2, NEW w2, Settled(g2, w2), Relates(f2, b2, g2, w2, DyingOf(drv, ucwd)),
           Booked(g, w, O, N, f2, g2, w2)
    PROVE  UIInv'
<1>1. PICK G2 : G2 = gone'
  OBVIOUS
<1>2. LostTo(ucwd, gone, G2, f2, b2)
  BY <1>1, CalledFacts
<1>3. Inner(fat, blk, drv, ucwd, uparent, cwd, gone, killed, g, w, C) /\ Kernel \notin gone
  BY DEF Follows, Called
<1>4. Inner(f2, b2, drv, ucwd, uparent, cwd, G2, killed, g2, w2, C)
  BY <1>2, <1>3, CallKept
<1>5. /\ fat' = f2 /\ blk' = b2 /\ drv' = drv /\ ucwd' = ucwd /\ uparent' = uparent /\ cwd' = cwd
      /\ gone' = G2 /\ killed' = killed
  BY <1>1 DEF Called
<1>6. Inner(fat', blk', drv', ucwd', uparent', cwd', gone', killed', g2, w2, C)
  BY <1>4, <1>5
<1> QED
  BY <1>6, FollowedIs

(* The kernel goes to another directory, or nothing changes.               *)
LEMMA WentKept ==
    ASSUME NEW f, NEW b, NEW D, NEW U, NEW P, NEW k, NEW G, NEW K, NEW g, NEW w, NEW C,
           Inner(f, b, D, U, P, k, G, K, g, w, C), NEW k2 \in LiveDirsOf(g, w), NEW G2, G \subseteq G2
    PROVE  Inner(f, b, D, U, P, k2, G2, K, g, w, C)
<1>1. Dwelling(b, U, P, k2, G2, LiveDirsOf(g, w))
  BY DEF Inner, Dwelling
<1>2. Aimed(b, D, U, G2)
  BY DEF Inner, Aimed
<1>3. k2 \in Dirs
  BY DEF LiveDirsOf, Dirs
<1> QED
  BY <1>1, <1>2, <1>3 DEF Inner

LEMMA StaysStep ==
    ASSUME NEW g, NEW w, NEW C, Follows(g, w, C), Called, UNCHANGED <<fat, blk>>,
           NEW x \in LiveDirsOf(g, w), cwd' = x
    PROVE  UIInv'
<1>1. PICK G2 : G2 = gone'
  OBVIOUS
<1>2. gone \subseteq G2
  BY <1>1 DEF Called, Lost
<1>3. Inner(fat, blk, drv, ucwd, uparent, cwd, gone, killed, g, w, C)
  BY DEF Follows
<1>4. Inner(fat, blk, drv, ucwd, uparent, x, G2, killed, g, w, C)
  BY <1>2, <1>3, WentKept
<1>5. /\ fat' = fat /\ blk' = blk /\ drv' = drv /\ ucwd' = ucwd /\ uparent' = uparent /\ cwd' = x
      /\ gone' = G2 /\ killed' = killed
  BY <1>1 DEF Called
<1>6. Inner(fat', blk', drv', ucwd', uparent', cwd', gone', killed', g, w, C)
  BY <1>4, <1>5
<1> QED
  BY <1>6, FollowedIs

(* An entry that is a file's, or an empty directory's                      *)
Bearing(b, e) == e.kind = "dir" => Hollow(b, e.cl)

LEMMA HollowClear ==
    ASSUME NEW f, NEW b, NEW D, NEW U, NEW g, NEW w, Sound(g, w), Relates(f, b, g, w, DyingOf(D, U)),
           Halves(b, D, U, LiveDirsOf(g, w)), NEW k, Elsewhere(D, U, k), Slotted(D),
           NEW p \in PlacesOf(g, w), NEW O, O = Owns(g, w, p), Bearing(b, AtOf(w, p))
    PROVE  Clear(D, U, k, O) /\ NoneIn(w, AtOf(w, p))
<1>1. PICK e : e = AtOf(w, p)
  OBVIOUS
<1>2. /\ e.kind = "dir" => O = {e.cl} /\ e.cl \in LiveDirsOf(g, w)
      /\ e.kind = "file" => O \cap LiveDirsOf(g, w) = {}
      /\ e.kind = "file" \/ e.kind = "dir"
  BY <1>1, PlaceFacts DEF Live
<1>3. \A d \in Driver : HalfOf(D[d]) => U[d] \notin O
  <2> SUFFICES ASSUME NEW d \in Driver, HalfOf(D[d]), U[d] \in O PROVE FALSE
    OBVIOUS
  <2>1. U[d] \in LiveDirsOf(g, w) /\ Live(b[U[d]].ent[D[d].slot]) /\ D[d].slot \in Slots
    BY DEF Halves, Slotted
  <2>2. e.kind = "dir" /\ U[d] = e.cl
    BY <1>2, <2>1
  <2> QED
    BY <1>1, <2>1, <2>2 DEF Bearing, Hollow
<1>4. NoneIn(w, e)
  <2> SUFFICES ASSUME e.kind = "dir", NEW j \in Slots PROVE ~Live(w[e.cl].ent[j])
    BY DEF NoneIn
  <2>1. ~Live(b[e.cl].ent[j])
    BY <1>1 DEF Bearing, Hollow
  <2>2. w[e.cl].ent[j] = Deleted \/ w[e.cl].ent[j] = b[e.cl].ent[j]
    BY <1>2 DEF Relates
  <2> QED
    BY <2>1, <2>2, NewEntries
<1> QED
  BY <1>1, <1>3, <1>4 DEF Clear, Elsewhere

LEMMA WithEntryIs ==
    ASSUME NEW f, NEW i, NEW e
    PROVE  WithEntry(f, cwd, i, e) = WithOf(f, blk, cwd, i, e)
BY DEF WithEntry, WithOf, Edited

LEMMA CleanAfter ==
    ASSUME NEW f2, f2 = fat', NEW b2, b2 = blk', UNCHANGED <<drv, ucwd>>,
           NEW g2, NEW w2, Sound(g2, w2), Relates(f2, b2, g2, w2, DyingOf(drv, ucwd))
    PROVE  UNoSharedCluster' /\ UFilesReadBack'
<1>1. PICK Z : Z = DyingOf(drv, ucwd)
  OBVIOUS
<1>2. Z = DyingOf(drv', ucwd')
  BY <1>1
<1>3. Sound(g2, w2) /\ Relates(fat', blk', g2, w2, DyingOf(drv', ucwd'))
  BY <1>1, <1>2
<1>4. Clean'
  BY <1>3 DEF Clean
<1> QED
  BY <1>4, CleanFiles, PTL

(* The kernel deletes an entry and frees its chain.                        *)
LEMMA StruckStep ==
    ASSUME NEW g, NEW w, NEW C, Follows(g, w, C), Called, cwd' = cwd,
           NEW i \in Slots, NEW p, p = <<cwd, i>>, p \in PlacesOf(g, w), NEW O, O = Owns(g, w, p),
           NEW f2, f2 = fat', NEW b2, b2 = blk', NEW x, O = Chain(fat, x), f2 = Freed(fat, x),
           b2 = WithEntry(f2, cwd, i, Deleted)
    PROVE  /\ UNoSharedCluster' /\ UFilesReadBack'
           /\ Bearing(blk, AtOf(w, p)) => UIInv'
<1>1. PICK Z : Z = DyingOf(drv, ucwd)
  OBVIOUS
<1>2. /\ fat \in Tables /\ blk \in [Dirs -> Block] /\ Settled(g, w) /\ Sound(g, w)
      /\ Relates(fat, blk, g, w, Z)
      /\ cwd \in LiveDirsOf(g, w)
  BY <1>1, CalledFacts DEF Attended, Settled
<1>3. f2 \in Tables /\ Severed(fat, O, f2)
  BY <1>2, FreedIs DEF Severed
<1>4. b2 = WithOf(f2, blk, cwd, i, Deleted)
  BY WithEntryIs
<1>5. /\ OwnedAway(g, cwd, O) /\ b2 \in [Dirs -> Block] /\ ChainGone(fat, blk, p, O, f2, b2)
      /\ CallTo(fat, blk, cwd, O, {}, f2, b2) /\ Bare(f2, b2) /\ b2[cwd].ent[i] = Deleted
  <2>1. PICK f, b, k : f = fat /\ b = blk /\ k = cwd
    OBVIOUS
  <2>2. f \in Tables /\ b \in [Dirs -> Block] /\ Settled(g, w) /\ Relates(f, b, g, w, Z)
        /\ k \in LiveDirsOf(g, w)
    BY <1>2, <2>1
  <2>3. i \in Slots /\ p = <<k, i>> /\ p \in PlacesOf(g, w) /\ O = Owns(g, w, p)
    BY <2>1
  <2>4. f2 \in Tables /\ Severed(f, O, f2) /\ b2 = WithOf(f2, b, k, i, Deleted)
    BY <1>3, <1>4, <2>1
  <2>5. /\ OwnedAway(g, k, O) /\ b2 \in [Dirs -> Block] /\ ChainGone(f, b, p, O, f2, b2)
        /\ CallTo(f, b, k, O, {}, f2, b2) /\ Bare(f2, b2) /\ b2[k].ent[i] = Deleted
    BY <2>2, <2>3, <2>4, Struck
  <2> QED
    BY <2>1, <2>5
<1>6. Shown(b2, p, Z, Z)
  BY <1>5 DEF Shown
<1>7. PICK g2, w2 : /\ Erased(g, w, p, O, g2, w2) /\ Relates(f2, b2, g2, w2, Z)
                    /\ NoneIn(w, AtOf(w, p)) => Settled(g2, w2)
  BY <1>2, <1>5, <1>6, ErasedOn, ZenonT(60)
<1>8. Sound(g2, w2) /\ Relates(f2, b2, g2, w2, DyingOf(drv, ucwd)) /\ Booked(g, w, O, {}, f2, g2, w2)
  BY <1>1, <1>7 DEF Erased, Booked
<1>9. UNoSharedCluster' /\ UFilesReadBack'
  <2>1. UNCHANGED <<drv, ucwd>>
    BY DEF Called
  <2> QED
    BY <1>8, <2>1, CleanAfter
<1>10. ASSUME Bearing(blk, AtOf(w, p)) PROVE UIInv'
  <2>1. Clear(drv, ucwd, cwd, O) /\ NoneIn(w, AtOf(w, p))
    <3>1. /\ Elsewhere(drv, ucwd, cwd) /\ Slotted(drv) /\ Halves(blk, drv, ucwd, LiveDirsOf(g, w))
          /\ Relates(fat, blk, g, w, DyingOf(drv, ucwd))
      BY <1>1, <1>2, CalledFacts
    <3> QED
      BY <1>2, <1>10, <3>1, HollowClear
  <2>2. Settled(g2, w2)
    BY <1>7, <2>1
  <2> QED
    BY <1>3, <1>5, <1>8, <2>1, <2>2, CallStep
<1> QED
  BY <1>9, <1>10

(* The entry the kernel finds                                              *)
LEMMA KernelHit ==
    ASSUME NEW g, NEW w, NEW C, Follows(g, w, C), Called, NEW nm \in Name,
           NEW ks \in SUBSET {"file", "dir"}, NEW M, M = Matches(Ent, nm, ks), M # {}
    PROVE  HitOn(fat, blk, g, w, cwd, Least(M), nm, ks)
<1>1. PICK Z : Z = DyingOf(drv, ucwd)
  OBVIOUS
<1>2. Attended(fat, blk, g, w, Z, cwd)
  BY <1>1, CalledFacts
<1>3. M = Matches(blk[cwd].ent, nm, ks)
  BY DEF Ent
<1> QED
  BY <1>2, <1>3, HitIs

(* A directory that is removed with others in it: no file is touched.      *)
LEMMA TakenAlong ==
    ASSUME damage' \in {"remove_dir", "overwrite_dir"}, UNoSharedCluster', UFilesReadBack'
    PROVE  UIInv'
<1>1. ULeakCause' /\ ParentExact'
  BY DEF ULeakCause, ParentExact, TakesDir
<1>2. ~Intact'
  BY DEF Intact
<1> QED
  BY <1>1, <1>2 DEF UIInv, Promises

LEMMA KernelRemove ==
    ASSUME NEW g, NEW w, NEW C, Follows(g, w, C), Called, NEW nm \in Name, Remove(nm)
    PROVE  UIInv'
<1>1. PICK M, i, e, p, f2, b2 : /\ M = Matches(Ent, nm, AnyKind) /\ i = Least(M) /\ e = Ent[i]
                                /\ p = <<cwd, i>> /\ f2 = fat' /\ b2 = blk'
  OBVIOUS
<1>2. /\ M # {} /\ f2 = Freed(fat, e.cl) /\ b2 = WithEntry(f2, cwd, i, Deleted) /\ cwd' = cwd
      /\ damage' = IF Orphans(M) THEN "remove_dir" ELSE "none"
  BY <1>1 DEF Remove
<1>3. HitOn(fat, blk, g, w, cwd, i, nm, AnyKind)
  BY <1>1, <1>2, KernelHit DEF AnyKind
<1>4. /\ i \in Slots /\ p \in PlacesOf(g, w) /\ AtOf(w, p) = e
      /\ Owns(g, w, p) = Chain(fat, e.cl)
  BY <1>1, <1>3 DEF HitOn, Ent
<1>5. /\ UNoSharedCluster' /\ UFilesReadBack'
      /\ Bearing(blk, AtOf(w, p)) => UIInv'
  BY <1>1, <1>2, <1>4, StruckStep
<1>6. CASE Orphans(M)
  BY <1>2, <1>5, <1>6, TakenAlong
<1>7. CASE ~Orphans(M)
  <2>1. Bearing(blk, e)
    BY <1>1, <1>2, <1>7 DEF Orphans, Bearing, Hollow, HasEntries
  <2> QED
    BY <1>4, <1>5, <2>1
<1> QED
  BY <1>6, <1>7

LEMMA KernelRmdir ==
    ASSUME NEW g, NEW w, NEW C, Follows(g, w, C), Called, NEW nm \in Name, Rmdir(nm)
    PROVE  UIInv'
<1>1. PICK M, i, e, p, f2, b2, ks : /\ M = Matches(Ent, nm, ks) /\ i = Least(M) /\ e = Ent[i]
                                    /\ p = <<cwd, i>> /\ f2 = fat' /\ b2 = blk' /\ ks = {"dir"}
  OBVIOUS
<1>2. /\ M # {} /\ f2 = Freed(fat, e.cl) /\ b2 = WithEntry(f2, cwd, i, Deleted) /\ cwd' = cwd
      /\ EmptyDir(e.cl)
  BY <1>1 DEF Rmdir
<1>3. HitOn(fat, blk, g, w, cwd, i, nm, ks)
  BY <1>1, <1>2, KernelHit
<1>4. /\ i \in Slots /\ p \in PlacesOf(g, w) /\ AtOf(w, p) = e /\ e.kind = "dir"
      /\ Owns(g, w, p) = Chain(fat, e.cl)
  BY <1>1, <1>3 DEF HitOn, Ent
<1>5. Bearing(blk, AtOf(w, p)) => UIInv'
  BY <1>1, <1>2, <1>4, StruckStep
<1>6. /\ Sound(g, w) /\ Relates(fat, blk, g, w, DyingOf(drv, ucwd))
      /\ Halves(blk, drv, ucwd, LiveDirsOf(g, w))
  BY DEF Follows, Inner, Settled
<1>7. PICK x : x = e.cl
  OBVIOUS
<1>8. x \in LiveDirsOf(g, w)
  BY <1>4, <1>6, <1>7, PlaceFacts
<1>9. \A j \in Scanned(blk[x].ent) : ~Live(blk[x].ent[j])
  BY <1>2, <1>7 DEF EmptyDir
<1>10. Hollow(blk, x)
  BY <1>6, <1>8, <1>9, NoneSeen
<1> QED
  BY <1>4, <1>5, <1>7, <1>10 DEF Bearing

(* Nothing comes or goes.                                                  *)
LEMMA NoneGo ==
    ASSUME NEW D, NEW U, NEW k, Elsewhere(D, U, k), NEW g
    PROVE  OwnedAway(g, k, {}) /\ Clear(D, U, k, {})
BY DEF OwnedAway, Clear, Elsewhere

LEMMA KernelRename ==
    ASSUME NEW g, NEW w, NEW C, Follows(g, w, C), Called, NEW nm \in Name, NEW new \in Name,
           Rename(nm, new)
    PROVE  UIInv'
<1>1. PICK M, i, e, f, b, k, Z : /\ M = Matches(Ent, nm, AnyKind) /\ i = Least(M) /\ e = Ent[i]
                                 /\ f = fat /\ b = blk /\ k = cwd /\ Z = DyingOf(drv, ucwd)
  OBVIOUS
<1>0. PICK s : s = Cut[new] /\ s \in Short
  BY CutShort
<1>2. PICK b2, e2 : b2 = blk' /\ e2 = Renamed(e, s)
  OBVIOUS
<1>3. /\ M # {} /\ b2 = WithOf(f, b, k, i, e2) /\ cwd' = k /\ fat' = f
  BY <1>0, <1>1, <1>2, WithEntryIs DEF Rename, Renamed
<1>4. /\ i \in Slots /\ e \in Entry /\ Live(e) /\ e = b[k].ent[i]
  <2>1. HitOn(fat, blk, g, w, cwd, i, nm, AnyKind)
    BY <1>1, <1>3, KernelHit DEF AnyKind
  <2> QED
    BY <1>1, <2>1 DEF HitOn, Ent
<1>5. /\ f \in Tables /\ b \in [Dirs -> Block] /\ Settled(g, w) /\ Sound(g, w) /\ Relates(f, b, g, w, Z)
      /\ k \in LiveDirsOf(g, w) /\ Elsewhere(drv, ucwd, k)
  BY <1>1, CalledFacts DEF Attended, Settled
<1>6. e2 \in Entry /\ Live(e2) /\ e2.kind # "end"
  <2>1. e2 \in Entry /\ e2.kind = e.kind
    BY <1>0, <1>2, <1>4, EntryFacts
  <2> QED
    BY <1>4, <2>1 DEF Live
<1>7. k \in Dirs /\ b[k].is = "dir" /\ (k = Root \/ f[k] # Free)
  BY <1>5, LiveFacts
<1>8. b2 \in [Dirs -> Block] /\ EditOn(f, b, k, i, b2) /\ b2[k].ent[i] = e2 /\ Bare(f, b2)
  BY <1>3, <1>4, <1>5, <1>6, <1>7, WithOfIs
<1>9. CallTo(f, b, k, {}, {}, f, b2)
  BY <1>6, <1>8 DEF EditOn, CallTo
<1>10. PICK w2 : Settled(g, w2) /\ LiveDirsOf(g, w2) = LiveDirsOf(g, w) /\ Relates(f, b2, g, w2, Z)
  <2>1. Live(b[k].ent[i]) /\ e2 = Renamed(b[k].ent[i], s) /\ s \in Short
    BY <1>0, <1>2, <1>4
  <2> QED
    BY <1>4, <1>5, <1>8, <2>1, RenamedOn
<1>11. Booked(g, w, {}, {}, f, g, w2)
  BY <1>10 DEF Booked
<1>12. OwnedAway(g, k, {}) /\ Clear(drv, ucwd, k, {})
  BY <1>5, NoneGo
<1>13. /\ f = fat' /\ b2 = blk' /\ cwd' = cwd /\ f \in Tables /\ b2 \in [Dirs -> Block]
       /\ OwnedAway(g, cwd, {}) /\ Clear(drv, ucwd, cwd, {}) /\ CallTo(fat, blk, cwd, {}, {}, f, b2)
       /\ Bare(f, b2) /\ Relates(f, b2, g, w2, DyingOf(drv, ucwd)) /\ Settled(g, w2)
  BY <1>1, <1>2, <1>3, <1>5, <1>8, <1>9, <1>10, <1>12
<1> QED
  BY <1>11, <1>13, CallStep

LEMMA KernelCd ==
    ASSUME NEW g, NEW w, NEW C, Follows(g, w, C), Called, NEW nm \in Name, Cd(nm)
    PROVE  UIInv'
<1>1. PICK M, i, p, x, ks : /\ M = Matches(Ent, nm, ks) /\ i = Least(M) /\ x = Ent[i].cl
                            /\ p = <<cwd, i>> /\ ks = {"dir"}
  OBVIOUS
<1>2. M # {} /\ cwd' = x /\ UNCHANGED <<fat, blk>>
  BY <1>1 DEF Cd, volume
<1>3. HitOn(fat, blk, g, w, cwd, i, nm, ks)
  BY <1>1, <1>2, KernelHit
<1>4. p \in PlacesOf(g, w) /\ AtOf(w, p).kind = "dir" /\ AtOf(w, p).cl = x
  BY <1>1, <1>3 DEF HitOn, Ent
<1>5. Sound(g, w)
  BY DEF Follows, Inner, Settled
<1>6. x \in LiveDirsOf(g, w)
  BY <1>4, <1>5, PlaceFacts
<1> QED
  BY <1>2, <1>6, StaysStep

LEMMA KernelCdUp ==
    ASSUME NEW g, NEW w, NEW C, Follows(g, w, C), Called, CdUp
    PROVE  UIInv'
<1>1. cwd # Root /\ cwd' = blk[cwd].up /\ UNCHANGED <<fat, blk>>
  BY DEF CdUp, volume
<1>2. cwd \in LiveDirsOf(g, w) /\ Tree(g, w) /\ Relates(fat, blk, g, w, DyingOf(drv, ucwd))
  BY CalledFacts DEF Attended, Settled
<1>3. PICK x : x = blk[cwd].up
  OBVIOUS
<1>4. x \in LiveDirsOf(g, w)
  BY <1>1, <1>2, <1>3 DEF Tree, Relates
<1> QED
  BY <1>1, <1>3, <1>4, StaysStep

LEMMA KernelCdRoot ==
    ASSUME NEW g, NEW w, NEW C, Follows(g, w, C), Called, CdRoot
    PROVE  UIInv'
<1>1. cwd' = Root /\ UNCHANGED <<fat, blk>> /\ Root \in LiveDirsOf(g, w)
  BY DEF CdRoot, volume, LiveDirsOf
<1> QED
  BY <1>1, StaysStep

(* Slot i of directory k is ready for a new entry, after an old one with   *)
(* clusters O went from it, if there was one.                              *)
ReadyDisk(f, b, k, i, O, f1, b1) ==
    /\ f1 \in Tables /\ b1 \in [Dirs -> Block] /\ Severed(f, O, f1) /\ EditOn(f1, b, k, i, b1)
       /\ Spot(b1, k, i)
ReadyBook(g, w, k, O, g1, w1) ==
    /\ Sound(g1, w1) /\ k \in LiveDirsOf(g1, w1) /\ Severed(g, O, g1)
    /\ LiveDirsOf(g, w) \ O \subseteq LiveDirsOf(g1, w1)

(* The clusters taken for it                                               *)
Fresh(f1, f2, b2, N, O) ==
    /\ N \subseteq FreeClusters(f1)
    /\ \A c \in N : f2[c] # Free /\ (c \in O => b2[c].is # "dir")

LEMMA PutOn ==
    ASSUME NEW f, NEW b, NEW g, NEW w, NEW Z, NEW k, NEW i \in Slots, NEW O,
           NEW f1, NEW b1, ReadyDisk(f, b, k, i, O, f1, b1),
           NEW g1, NEW w1, ReadyBook(g, w, k, O, g1, w1), Relates(f1, b1, g1, w1, Z), <<k, i>> \notin Z,
           NEW e \in Entry, Live(e), Sheltered(e, Z, LiveDirsOf(g1, w1)),
           NEW f2 \in Tables, NEW b2 \in [Dirs -> Block], NEW N, Fresh(f1, f2, b2, N, O),
           EntryAdded(f1, b1, k, i, e, N, f2, b2)
    PROVE  /\ CallTo(f, b, k, O, N, f2, b2)
           /\ \E g2, w2 : /\ Sound(g2, w2) /\ (Settled(g1, w1) => Settled(g2, w2))
                          /\ Relates(f2, b2, g2, w2, Z) /\ Booked(g, w, O, N, f2, g2, w2)
<1>1. /\ N \subseteq Cluster
      /\ \A c \in N : f1[c] = Free /\ f2[c] # Free /\ (c \in O => b2[c].is # "dir")
  BY DEF Fresh, FreeClusters
<1>2. /\ \A c \in Cluster : f1[c] = IF c \in O THEN Free ELSE f[c]
      /\ \A x \in Dirs \ {k} : x = Root \/ f1[x] # Free => b1[x] = b[x]
      /\ b1[k].is = "dir" /\ b1[k].up = b[k].up
      /\ \A j \in Slots \ {i} : b1[k].ent[j] = b[k].ent[j]
  BY DEF ReadyDisk, Severed, EditOn
<1>3. /\ \A x \in Cluster \ N : f2[x] = f1[x]
      /\ \A x \in Dirs \ {k} : x \notin N /\ (x = Root \/ f2[x] # Free) => b2[x] = b1[x]
      /\ b2[k].is = "dir" /\ b2[k].up = b1[k].up /\ b2[k].ent[i] = e
      /\ \A j \in Slots \ {i} : b2[k].ent[j] = b1[k].ent[j]
  BY DEF EntryAdded, DiskGrown
<1>4. CallTo(f, b, k, O, N, f2, b2)
  <2>1. ASSUME NEW x \in Dirs \ {k}, x \notin N, x = Root \/ f2[x] # Free PROVE b2[x] = b[x]
    <3>1. x = Root \/ f1[x] # Free
      BY <1>3, <2>1 DEF Dirs
    <3> QED
      BY <1>2, <1>3, <2>1, <3>1
  <2>2. ASSUME NEW j \in Slots, b[k].ent[j].kind # "end" PROVE b2[k].ent[j].kind # "end"
    <3>1. CASE j = i
      BY <1>3, <3>1 DEF Live
    <3>2. CASE j # i
      BY <1>2, <1>3, <2>2, <3>2
    <3> QED
      BY <3>1, <3>2
  <2>3. \A c \in Cluster \ N : f2[c] = IF c \in O THEN Free ELSE f[c]
    BY <1>2, <1>3
  <2>4. \A c \in N : f2[c] # Free /\ (f[c] = Free \/ c \in O) /\ (c \in O => b2[c].is # "dir")
    BY <1>1, <1>2
  <2> QED
    BY <1>1, <1>2, <1>3, <2>1, <2>2, <2>3, <2>4 DEF CallTo
<1>5. Vacant(g1, N)
  BY <1>1 DEF Relates, Vacant
<1>6. Sound(g1, w1) /\ k \in LiveDirsOf(g1, w1) /\ Spot(b1, k, i)
  BY DEF ReadyBook, ReadyDisk
<1>7. PICK g2, w2 : /\ Sound(g2, w2) /\ (Settled(g1, w1) => Settled(g2, w2)) /\ Relates(f2, b2, g2, w2, Z)
                    /\ LiveDirsOf(g1, w1) \subseteq LiveDirsOf(g2, w2)
                    /\ \A x \in Cluster : g2[x] = IF x \in N THEN f2[x] ELSE g1[x]
  BY <1>5, <1>6, AddedOn
<1>8. Booked(g, w, O, N, f2, g2, w2)
  BY <1>7 DEF ReadyBook, Severed, Booked
<1> QED
  BY <1>4, <1>7, <1>8

(* write puts a new file there.                                            *)
FileOf(f, b, k, i, N, v, e) ==
    [x \in Dirs |-> IF x \in N THEN DataBlock(v) ELSE WithOf(f, b, k, i, e)[x]]

WritesFile(f, b, k, i, nm, n, v, N, f2, e, b2) ==
    /\ n \in Nat /\ v \in Val /\ nm \in Short /\ n <= Cardinality(FreeClusters(f))
    /\ N = Picked(f, n) /\ f2 = Linked(f, n) /\ e = FileEntry(nm, First(f, n), n, v)
    /\ b2 = FileOf(f, b, k, i, N, v, e)

LEMMA FileOn ==
    ASSUME NEW f1 \in Tables, NEW b \in [Dirs -> Block], NEW k \in Dirs, b[k].is = "dir",
           k = Root \/ f1[k] # Free, NEW i \in Slots, NEW b1, EditOn(f1, b, k, i, b1),
           NEW nm, NEW n, NEW v, NEW N, NEW f2, NEW e, NEW b2,
           WritesFile(f1, b, k, i, nm, n, v, N, f2, e, b2), NEW O
    PROVE  /\ e \in Entry /\ Live(e) /\ e.kind = "file" /\ f2 \in Tables /\ b2 \in [Dirs -> Block]
           /\ Fresh(f1, f2, b2, N, O) /\ Bare(f2, b2) /\ EntryAdded(f1, b1, k, i, e, N, f2, b2)
<1> n \in Nat /\ v \in Val /\ nm \in Short /\ n <= Cardinality(FreeClusters(f1))
  BY DEF WritesFile
<1> N = Picked(f1, n) /\ f2 = Linked(f1, n) /\ e = FileEntry(nm, First(f1, n), n, v)
  BY DEF WritesFile
<1> b2 = FileOf(f1, b, k, i, N, v, e)
  BY DEF WritesFile
<1>1. PICK c1 : c1 = First(f1, n)
  OBVIOUS
<1>2. f2 \in Tables /\ (\A c \in Cluster \ N : f2[c] = f1[c]) /\ Proper(f2, c1, n) /\ Chain(f2, c1) = N
  BY <1>1, LinkedChain
<1>3. N \subseteq FreeClusters(f1) /\ N \subseteq Cluster /\ \A c \in N : f1[c] = Free
  BY PickedFree DEF FreeClusters
<1>4. (\A c \in N : f2[c] # Free) /\ (n > 0 => c1 \in N) /\ (n = 0 => c1 = 0 /\ N = {})
  BY <1>2, ProperFacts
<1>5. c1 \in Cluster \cup {0}
  BY <1>3, <1>4
<1>6. /\ e \in Entry /\ Live(e) /\ e.kind = "file" /\ e.cl = c1 /\ e.size = n /\ (n # 0 => e.val = v)
  BY <1>1, <1>5, NewEntries
<1>7. PICK b3 : b3 = WithOf(f1, b, k, i, e)
  OBVIOUS
<1>8. b3 \in [Dirs -> Block] /\ EditOn(f1, b, k, i, b3) /\ b3[k].ent[i] = e /\ Bare(f1, b3)
  BY <1>6, <1>7, WithOfIs
<1>9. DataBlock(v) \in Block /\ DataBlock(v).is = "data"
  BY NewBlocks
<1>10. b2 = [x \in Dirs |-> IF x \in N THEN DataBlock(v) ELSE b3[x]]
  BY <1>7 DEF FileOf
<1>11. b2 \in [Dirs -> Block]
  BY <1>8, <1>9, <1>10
<1>12. /\ \A x \in N : b2[x] = DataBlock(v)
       /\ \A x \in Dirs : x \notin N => b2[x] = b3[x]
       /\ \A c \in Cluster : c \in Dirs /\ c # Root
  BY <1>3, <1>10, FatBounds DEF Dirs
<1>13. k \notin N
  BY <1>3, FatBounds
<1>14. Fresh(f1, f2, b2, N, O)
  BY <1>3, <1>4, <1>9, <1>12 DEF Fresh
<1>15. Bare(f2, b2)
  BY <1>2, <1>4, <1>8, <1>12 DEF Bare
<1>16. DiskGrown(f1, b1, k, i, e, N, f2, b2)
  <2>1. ASSUME NEW x \in Dirs \ {k}, x \notin N, x = Root \/ f2[x] # Free PROVE b2[x] = b1[x]
    <3>1. x = Root \/ f1[x] # Free
      BY <1>2, <2>1 DEF Dirs
    <3>2. b1[x] = b[x] /\ b3[x] = b[x]
      BY <1>8, <2>1, <3>1 DEF EditOn
    <3> QED
      BY <1>12, <2>1, <3>2
  <2>2. b2[k] = b3[k]
    BY <1>12, <1>13
  <2>3. /\ b3[k].is = "dir" /\ b3[k].up = b1[k].up /\ b3[k].ent[i] = e
        /\ \A j \in Slots \ {i} : b3[k].ent[j] = b1[k].ent[j]
    BY <1>8 DEF EditOn
  <2> QED
    BY <1>2, <2>1, <2>2, <2>3 DEF DiskGrown
<1>17. LeadsTo(f2, b2, k, e)
  <2>1. Proper(f2, e.cl, Clusters(e))
    BY <1>2, <1>6 DEF Clusters
  <2>2. \A c \in Chain(f2, e.cl) : b2[c] = DataBlock(e.val)
    BY <1>2, <1>4, <1>6, <1>12
  <2> QED
    BY <1>6, <2>1, <2>2 DEF LeadsTo
<1>18. EntryAdded(f1, b1, k, i, e, N, f2, b2)
  BY <1>2, <1>6, <1>16, <1>17 DEF EntryAdded
<1> QED
  BY <1>2, <1>6, <1>11, <1>14, <1>15, <1>18

(* mkdir puts a directory there.                                           *)
DirOf(f, b, k, i, c, e) == [WithOf(f, b, k, i, e) EXCEPT ![c] = DirBlock(k)]

LEMMA DirOn ==
    ASSUME NEW f \in Tables, NEW b \in [Dirs -> Block], NEW k \in Dirs, b[k].is = "dir",
           k = Root \/ f[k] # Free, NEW i \in Slots,
           NEW nm \in Short, FreeClusters(f) # {}, NEW c, c = Least(FreeClusters(f)),
           NEW f2, f2 = Linked(f, 1), NEW e, e = DirEntry(nm, c), NEW b2, b2 = DirOf(f, b, k, i, c, e)
    PROVE  /\ e \in Entry /\ Live(e) /\ f2 \in Tables /\ b2 \in [Dirs -> Block]
           /\ Fresh(f, f2, b2, {c}, {}) /\ Bare(f2, b2)
           /\ EntryAdded(f, b, k, i, e, {c}, f2, b2)
<1>1. Picked(f, 1) = {c} /\ First(f, 1) = c /\ c \in Cluster /\ f[c] = Free
      /\ 1 <= Cardinality(FreeClusters(f))
  BY OnePicked
<1>2. f2 \in Tables /\ (\A x \in Cluster \ {c} : f2[x] = f[x]) /\ Proper(f2, c, 1) /\ Chain(f2, c) = {c}
  BY <1>1, LinkedChain
<1>3. f2[c] # Free
  BY <1>2, ProperOne
<1>4. e \in Entry /\ Live(e) /\ e.kind = "dir" /\ e.cl = c
  BY <1>1, NewEntries
<1>5. PICK b3 : b3 = WithOf(f, b, k, i, e)
  OBVIOUS
<1>6. b3 \in [Dirs -> Block] /\ EditOn(f, b, k, i, b3) /\ b3[k].ent[i] = e /\ Bare(f, b3)
  BY <1>4, <1>5, WithOfIs
<1>7. PICK y : y = DirBlock(k) /\ y \in Block /\ y.is = "dir" /\ y.up = k
               /\ \A j \in Slots : y.ent[j] = End
  BY NewBlocks
<1>8. b2 = [b3 EXCEPT ![c] = y]
  BY <1>5, <1>7 DEF DirOf
<1>9. c \in Dirs /\ k # c /\ c # Root
  BY <1>1, FatBounds DEF Dirs
<1>10. b2 \in [Dirs -> Block] /\ b2[c] = y /\ \A x \in Dirs \ {c} : b2[x] = b3[x]
  BY <1>6, <1>7, <1>8, <1>9
<1>11. Fresh(f, f2, b2, {c}, {})
  BY <1>1, <1>3 DEF Fresh, FreeClusters
<1>12. Bare(f2, b2)
  <2> SUFFICES ASSUME NEW x \in Cluster, f2[x] = Free PROVE b2[x].is # "dir"
    BY DEF Bare
  <2>1. x # c /\ f[x] = Free /\ x \in Dirs
    BY <1>2, <1>3 DEF Dirs
  <2> QED
    BY <1>6, <1>10, <2>1 DEF Bare
<1>13. DiskGrown(f, b, k, i, e, {c}, f2, b2)
  <2>1. ASSUME NEW x \in Dirs \ {k}, x \notin {c}, x = Root \/ f2[x] # Free PROVE b2[x] = b[x]
    <3>1. x = Root \/ f[x] # Free
      BY <1>2, <2>1 DEF Dirs
    <3> QED
      BY <1>6, <1>10, <2>1, <3>1 DEF EditOn
  <2>2. b2[k] = b3[k]
    BY <1>9, <1>10
  <2>3. /\ b3[k].is = "dir" /\ b3[k].up = b[k].up /\ b3[k].ent[i] = e
        /\ \A j \in Slots \ {i} : b3[k].ent[j] = b[k].ent[j]
    BY <1>6 DEF EditOn
  <2> QED
    BY <1>2, <2>1, <2>2, <2>3 DEF DiskGrown
<1>14. LeadsTo(f2, b2, k, e)
  BY <1>2, <1>4, <1>7, <1>10 DEF LeadsTo, Clusters
<1>15. \A j \in Slots : b2[e.cl].ent[j] = End
  BY <1>4, <1>7, <1>10
<1> QED
  BY <1>2, <1>4, <1>10, <1>11, <1>12, <1>13, <1>14, <1>15 DEF EntryAdded

(* The kernel's directory and the disk, as constants                       *)
AtCall(f, b, g, w, Z, k) ==
    /\ f = fat /\ b = blk /\ k = cwd /\ Z = DyingOf(drv, ucwd) /\ Attended(f, b, g, w, Z, k)
    /\ Within(Z, LiveDirsOf(g, w))

LEMMA AtCallIs ==
    ASSUME NEW g, NEW w, NEW C, Follows(g, w, C), Called
    PROVE  \E f, b, Z, k : AtCall(f, b, g, w, Z, k)
<1>1. PICK f, b, Z, k : f = fat /\ b = blk /\ k = cwd /\ Z = DyingOf(drv, ucwd)
  OBVIOUS
<1>2. Attended(fat, blk, g, w, DyingOf(drv, ucwd), cwd) /\ Halves(blk, drv, ucwd, LiveDirsOf(g, w))
  BY CalledFacts
<1>3. Within(DyingOf(drv, ucwd), LiveDirsOf(g, w))
  BY <1>2, DyingLive
<1> QED
  BY <1>1, <1>2, <1>3 DEF AtCall

LEMMA AtCallFacts ==
    ASSUME NEW f, NEW b, NEW g, NEW w, NEW Z, NEW k, AtCall(f, b, g, w, Z, k)
    PROVE  /\ f \in Tables /\ b \in [Dirs -> Block] /\ Settled(g, w) /\ Sound(g, w)
           /\ Relates(f, b, g, w, Z) /\ k \in LiveDirsOf(g, w) /\ k \in Dirs /\ b[k].is = "dir"
           /\ k = Root \/ (k \in Cluster /\ g[k] # Free /\ f[k] # Free)
           /\ \A i \in Slots : <<k, i>> \notin Z
           /\ Within(Z, LiveDirsOf(g, w)) /\ w[k].ent = b[k].ent
<1>1. /\ f \in Tables /\ b \in [Dirs -> Block] /\ Settled(g, w) /\ Sound(g, w) /\ Relates(f, b, g, w, Z)
      /\ k \in LiveDirsOf(g, w) /\ Within(Z, LiveDirsOf(g, w)) /\ Attended(f, b, g, w, Z, k)
  BY DEF AtCall, Attended, Settled
<1>2. /\ k \in Dirs /\ b[k].is = "dir"
      /\ k = Root \/ (k \in Cluster /\ g[k] # Free /\ f[k] # Free)
  BY <1>1, LiveFacts
<1>3. w[k].ent = b[k].ent
  BY <1>1, AttendedFacts
<1>4. \A i \in Slots : <<k, i>> \notin Z
  BY <1>1 DEF Attended
<1> QED
  BY <1>1, <1>2, <1>3, <1>4

(* A directory as it is, ready for a new entry                             *)
LEMMA ReadyAsIs ==
    ASSUME NEW f \in Tables, NEW b \in [Dirs -> Block], NEW k, b[k].is = "dir", NEW i, Spot(b, k, i),
           NEW g, NEW w, Sound(g, w), k \in LiveDirsOf(g, w)
    PROVE  ReadyDisk(f, b, k, i, {}, f, b) /\ ReadyBook(g, w, k, {}, g, w)
BY DEF ReadyDisk, ReadyBook, Severed, EditOn

(* A cluster that was free is made a directory that nobody has an entry for. *)
StrayDir(f, b, c, k, f2, b2) ==
    /\ c \in Cluster /\ f[c] = Free /\ \A x \in Cluster \ {c} : f2[x] = f[x]
    /\ b2[c] = DirBlock(k) /\ \A x \in Dirs \ {c} : b2[x] = b[x]
SameDirs(b, b2, L) == \A x \in L : b2[x] = b[x]

LEMMA StrayKept ==
    ASSUME NEW f, NEW b, NEW g, NEW w, NEW Z, Sound(g, w), Relates(f, b, g, w, Z), NEW k \in Dirs,
           NEW c, NEW f2, NEW b2, StrayDir(f, b, c, k, f2, b2)
    PROVE  /\ Relates(f2, b2, g, w, Z) /\ LiveDirsOf(g, w) \subseteq LiveDirsOf(f2, b2)
           /\ SameDirs(b, b2, LiveDirsOf(g, w))
<1>1. PICK y : y = DirBlock(k) /\ \A j \in Slots : ~Live(y.ent[j])
  BY NewBlocks, NewEntries
<1>2. /\ c \in Cluster /\ f[c] = Free /\ \A x \in Cluster \ {c} : f2[x] = f[x]
      /\ b2[c] = y /\ \A x \in Dirs \ {c} : b2[x] = b[x]
  BY <1>1 DEF StrayDir
<1>3. g[c] = Free /\ Root \in Dirs /\ Root # c /\ \A x \in Cluster : x \in Dirs
  BY <1>2, FatBounds DEF Relates, Dirs
<1>4. \A x \in Cluster : g[x] # Free => f2[x] = f[x] /\ b2[x] = b[x]
  BY <1>2, <1>3
<1>5. b2[Root] = b[Root]
  BY <1>2, <1>3
<1>6. \A x \in Cluster : g[x] = Free /\ f2[x] # Free /\ b2[x].is = "dir" =>
         \A j \in Slots : ~Live(b2[x].ent[j])
  <2> SUFFICES ASSUME NEW x \in Cluster, g[x] = Free, f2[x] # Free, b2[x].is = "dir", x # c
               PROVE  \A j \in Slots : ~Live(b2[x].ent[j])
    BY <1>1, <1>2
  <2>1. f[x] # Free /\ b2[x] = b[x]
    BY <1>2, <1>3
  <2> QED
    BY <2>1 DEF Relates
<1>7. Relates(f2, b2, g, w, Z)
  BY <1>4, <1>5, <1>6, RelatesAside
<1>8. LiveDirsOf(g, w) \subseteq LiveDirsOf(f2, b2)
  BY <1>7, RelatesFacts
<1> QED
  BY <1>4, <1>5, <1>7, <1>8 DEF LiveDirsOf, SameDirs

(* mkdir in a full directory: the cluster stays taken.                     *)
LEMMA MkdirLeaks ==
    ASSUME NEW g, NEW w, NEW C, Follows(g, w, C), Called, cwd' = cwd, damage' = "mkdir_full",
           NEW f, NEW b, NEW Z, NEW k, AtCall(f, b, g, w, Z, k), FreeClusters(f) # {},
           NEW c, c = Least(FreeClusters(f)), NEW f2, f2 = fat', f2 = Linked(f, 1),
           NEW b2, b2 = blk', b2 = [b EXCEPT ![c] = DirBlock(k)]
    PROVE  UIInv'
<1>1. /\ f \in Tables /\ b \in [Dirs -> Block] /\ Sound(g, w) /\ Relates(f, b, g, w, Z) /\ k \in Dirs
  BY AtCallFacts
<1>2. Picked(f, 1) = {c} /\ c \in Cluster /\ f[c] = Free /\ 1 <= Cardinality(FreeClusters(f))
  BY <1>1, OnePicked
<1>3. \A x \in Cluster \ {c} : f2[x] = f[x]
  BY <1>1, <1>2, LinkedChain
<1>4. StrayDir(f, b, c, k, f2, b2)
  <2>1. c \in Dirs /\ b2[c] = DirBlock(k) /\ \A x \in Dirs \ {c} : b2[x] = b[x]
    BY <1>1, <1>2 DEF Dirs
  <2> QED
    BY <1>2, <1>3, <2>1 DEF StrayDir
<1>5. /\ Relates(f2, b2, g, w, Z) /\ LiveDirsOf(g, w) \subseteq LiveDirsOf(f2, b2)
      /\ SameDirs(b, b2, LiveDirsOf(g, w))
  BY <1>1, <1>4, StrayKept
<1>6. UNoSharedCluster' /\ UFilesReadBack'
  <2>1. UNCHANGED <<drv, ucwd>> /\ Relates(f2, b2, g, w, DyingOf(drv, ucwd))
    BY <1>5 DEF Called, AtCall
  <2> QED
    BY <1>1, <2>1, CleanAfter
<1>7. ULeakCause'
  BY DEF ULeakCause
<1>8. ParentExact'
  <2>1. PICK L, G2 : L = LiveDirsOf(g, w) /\ G2 = gone'
    OBVIOUS
  <2>2. L \subseteq LiveDirsOf(f2, b2) /\ \A x \in L : b2[x] = b[x]
    BY <1>5, <2>1 DEF SameDirs
  <2>4. Dwelling(b, ucwd, uparent, cwd, gone, L) /\ gone \subseteq G2
    BY <2>1 DEF AtCall, Follows, Inner, Called, Lost
  <2>5. Dwelling(b2, ucwd, uparent, cwd, G2, L)
    BY <2>2, <2>4 DEF Dwelling
  <2>6. Dwelling(blk', ucwd', uparent', cwd', gone', L) /\ L \subseteq LiveDirsOf(fat', blk')
    BY <2>1, <2>2, <2>5 DEF Called
  <2> QED
    BY <2>6, LodgedAfter
<1>9. ~Intact'
  BY DEF Intact
<1> QED
  BY <1>6, <1>7, <1>8, <1>9 DEF UIInv, Promises

LEMMA KernelMkdir ==
    ASSUME NEW g, NEW w, NEW C, Follows(g, w, C), Called, NEW nm \in Name, Mkdir(nm)
    PROVE  UIInv'
<1>1. PICK f, b, Z, k : AtCall(f, b, g, w, Z, k)
  BY AtCallIs
<1>2. /\ f \in Tables /\ b \in [Dirs -> Block] /\ Settled(g, w) /\ Sound(g, w)
      /\ Relates(f, b, g, w, Z) /\ k \in LiveDirsOf(g, w) /\ k \in Dirs /\ b[k].is = "dir"
      /\ k = Root \/ (k \in Cluster /\ g[k] # Free /\ f[k] # Free)
      /\ \A i \in Slots : <<k, i>> \notin Z
      /\ Within(Z, LiveDirsOf(g, w))
  BY <1>1, AtCallFacts
<1>3. f = fat /\ b = blk /\ k = cwd /\ Z = DyingOf(drv, ucwd) /\ Ent = b[k].ent
  BY <1>1 DEF AtCall, Ent
<1>0. PICK s : s = Cut[nm] /\ s \in Short
  BY CutShort
<1>4. PICK c, f2, b2, i, e : /\ c = Least(FreeClusters(f)) /\ f2 = fat' /\ b2 = blk'
                             /\ i = Least(FreeSlots(b[k].ent)) /\ e = DirEntry(s, c)
  OBVIOUS
<1>5. FreeClusters(f) # {} /\ f2 = Linked(f, 1) /\ cwd' = cwd
  BY <1>3, <1>4 DEF Mkdir
<1>6. CASE FreeSlots(b[k].ent) # {}
  <2>1. b2 = DirOf(f, b, k, i, c, e)
    <3>1. b2 = [WithEntry(f, cwd, i, e) EXCEPT ![c] = DirBlock(k)]
      BY <1>0, <1>3, <1>4, <1>6 DEF Mkdir
    <3> QED
      BY <1>3, <3>1, WithEntryIs DEF DirOf
  <2>2. i \in Slots /\ Spot(b, k, i)
    BY <1>4, <1>6, FreeSlot DEF Spot
  <2>3. /\ e \in Entry /\ Live(e) /\ f2 \in Tables /\ b2 \in [Dirs -> Block]
        /\ Fresh(f, f2, b2, {c}, {}) /\ Bare(f2, b2)
        /\ EntryAdded(f, b, k, i, e, {c}, f2, b2)
    BY <1>0, <1>2, <1>4, <1>5, <2>1, <2>2, DirOn
  <2>4. ReadyDisk(f, b, k, i, {}, f, b) /\ ReadyBook(g, w, k, {}, g, w)
    BY <1>2, <2>2, ReadyAsIs
  <2>5. Sheltered(e, Z, LiveDirsOf(g, w)) /\ <<k, i>> \notin Z
    BY <1>2, <2>2 DEF Sheltered, Within
  <2>6. PICK g2, w2 : /\ CallTo(f, b, k, {}, {c}, f2, b2)
                      /\ Sound(g2, w2) /\ (Settled(g, w) => Settled(g2, w2))
                      /\ Relates(f2, b2, g2, w2, Z) /\ Booked(g, w, {}, {c}, f2, g2, w2)
    BY <1>2, <2>2, <2>3, <2>4, <2>5, PutOn
  <2>7. OwnedAway(g, k, {}) /\ Clear(drv, ucwd, k, {})
    <3>1. Elsewhere(drv, ucwd, k)
      BY <1>3, CalledFacts
    <3> QED
      BY <3>1, NoneGo
  <2>8. /\ f2 = fat' /\ b2 = blk' /\ cwd' = cwd /\ f2 \in Tables /\ b2 \in [Dirs -> Block]
        /\ OwnedAway(g, cwd, {}) /\ Clear(drv, ucwd, cwd, {}) /\ CallTo(fat, blk, cwd, {}, {c}, f2, b2)
        /\ Bare(f2, b2) /\ Relates(f2, b2, g2, w2, DyingOf(drv, ucwd)) /\ Settled(g2, w2)
    BY <1>2, <1>3, <1>4, <1>5, <2>3, <2>6, <2>7
  <2> QED
    BY <2>6, <2>8, CallStep
<1>7. CASE FreeSlots(b[k].ent) = {}
  <2>1. b2 = [b EXCEPT ![c] = DirBlock(k)] /\ damage' = "mkdir_full"
    BY <1>3, <1>4, <1>7 DEF Mkdir
  <2> QED
    BY <1>1, <1>4, <1>5, <2>1, MkdirLeaks
<1> QED
  BY <1>6, <1>7

(* The slot of an entry that is replaced is ready when its chain is freed. *)
LEMMA ReadyAfter ==
    ASSUME NEW f \in Tables, NEW b \in [Dirs -> Block], NEW g, NEW w, NEW Z, Settled(g, w),
           Relates(f, b, g, w, Z), NEW k \in LiveDirsOf(g, w), NEW i \in Slots, NEW p, p = <<k, i>>,
           p \in PlacesOf(g, w), NEW O, O = Owns(g, w, p), w[k].ent = b[k].ent,
           NEW f1 \in Tables, Severed(f, O, f1), NEW b1, b1 = WithOf(f1, b, k, i, Deleted)
    PROVE  /\ OwnedAway(g, k, O) /\ ReadyDisk(f, b, k, i, O, f1, b1)
           /\ \E g1, w1 : /\ ReadyBook(g, w, k, O, g1, w1) /\ Relates(f1, b1, g1, w1, Z)
                          /\ NoneIn(w, AtOf(w, p)) => Settled(g1, w1)
<1>1. /\ OwnedAway(g, k, O) /\ b1 \in [Dirs -> Block] /\ ChainGone(f, b, p, O, f1, b1)
      /\ b1[k].ent[i] = Deleted /\ EditOn(f1, b, k, i, b1)
  BY Struck
<1>2. Spot(b1, k, i)
  <2>1. ~Live(b1[k].ent[i])
    BY <1>1, NewEntries
  <2>2. ASSUME NEW j \in Slots, j < i PROVE b1[k].ent[j].kind # "end"
    <3>1. w[k].ent[i].kind # "end" /\ Packed(w[k].ent)
      BY DEF PlacesOf, Live, Settled, Sound
    <3>2. w[k].ent[j].kind # "end"
      BY <2>2, <3>1 DEF Packed
    <3>3. j \in Slots \ {i}
      BY <2>2, SlotsNat
    <3>4. b1[k].ent[j] = b[k].ent[j]
      BY <1>1, <3>3 DEF EditOn
    <3> QED
      BY <3>2, <3>4
  <2> QED
    BY <2>1, <2>2 DEF Spot
<1>3. ReadyDisk(f, b, k, i, O, f1, b1)
  BY <1>1, <1>2 DEF ReadyDisk
<1>4. Shown(b1, p, Z, Z)
  BY <1>1 DEF Shown
<1>5. PICK g1, w1 : /\ Erased(g, w, p, O, g1, w1) /\ Relates(f1, b1, g1, w1, Z)
                    /\ NoneIn(w, AtOf(w, p)) => Settled(g1, w1)
  BY <1>1, <1>4, ErasedOn
<1>6. ReadyBook(g, w, k, O, g1, w1)
  BY <1>5 DEF Erased, ReadyBook, Severed
<1> QED
  BY <1>1, <1>3, <1>5, <1>6

(* An entry whose directory is emptied or whose chain is freed             *)
Replaced(g, w, O, nm, k, i, f, b, f1) ==
    /\ i \in Slots /\ <<k, i>> \in PlacesOf(g, w) /\ O = Owns(g, w, <<k, i>>)
    /\ AtOf(w, <<k, i>>) = b[k].ent[i] /\ Severed(f, O, f1) /\ f1 \in Tables /\ O = Chain(f, b[k].ent[i].cl)

LEMMA ReplacedIs ==
    ASSUME NEW g, NEW w, NEW C, Follows(g, w, C), Called, NEW f, NEW b, NEW Z, NEW k,
           AtCall(f, b, g, w, Z, k), NEW nm \in Name, NEW M, M = Matches(Ent, nm, AnyKind), M # {},
           NEW i, i = Least(M), NEW f1, f1 = Cleared(nm)
    PROVE  /\ \E O : Replaced(g, w, O, nm, k, i, f, b, f1)
           /\ ~Orphans(M) => Bearing(b, b[k].ent[i])
<1>1. f = fat /\ b = blk /\ k = cwd /\ Ent = b[k].ent /\ f \in Tables
  BY AtCallFacts DEF AtCall, Ent
<1>2. HitOn(fat, blk, g, w, cwd, i, nm, AnyKind)
  BY KernelHit DEF AnyKind
<1>3. PICK O, x : O = Owns(g, w, <<k, i>>) /\ x = b[k].ent[i].cl
  OBVIOUS
<1>4. /\ i \in Slots /\ <<k, i>> \in PlacesOf(g, w) /\ AtOf(w, <<k, i>>) = b[k].ent[i] /\ O = Chain(f, x)
  BY <1>1, <1>2, <1>3 DEF HitOn
<1>5. f1 = Freed(f, x)
  BY <1>1, <1>3 DEF Cleared
<1>6. f1 \in Tables /\ Severed(f, O, f1)
  BY <1>1, <1>4, <1>5, FreedIs DEF Severed
<1>7. Replaced(g, w, O, nm, k, i, f, b, f1)
  BY <1>3, <1>4, <1>6 DEF Replaced
<1>8. ASSUME ~Orphans(M) PROVE Bearing(b, b[k].ent[i])
  BY <1>1, <1>8 DEF Orphans, Bearing, Hollow, HasEntries
<1> QED
  BY <1>7, <1>8

(* A write is about to put its entry into slot i.                          *)
Prepared(g, w, Z, k, i, O, f, b, f1, b1, g1, w1) ==
    /\ i \in Slots /\ OwnedAway(g, k, O) /\ ReadyDisk(f, b, k, i, O, f1, b1)
    /\ ReadyBook(g, w, k, O, g1, w1) /\ Relates(f1, b1, g1, w1, Z)
InOrder(D, U, k, O, g1, w1) == Clear(D, U, k, O) /\ Settled(g1, w1)

LEMMA PreparedIs ==
    ASSUME NEW g, NEW w, NEW C, Follows(g, w, C), Called, NEW f, NEW b, NEW Z, NEW k,
           AtCall(f, b, g, w, Z, k), NEW nm \in Name, NEW M, M = Matches(Ent, nm, AnyKind),
           M # {} \/ FreeSlots(Ent) # {}, NEW i, i = Reused(Ent, nm), NEW f1, f1 = Cleared(nm)
    PROVE  \E O, b1, g1, w1 : /\ Prepared(g, w, Z, k, i, O, f, b, f1, b1, g1, w1)
                              /\ ~Orphans(M) => InOrder(drv, ucwd, k, O, g1, w1)
<1>1. /\ f \in Tables /\ b \in [Dirs -> Block] /\ Settled(g, w) /\ Sound(g, w)
      /\ Relates(f, b, g, w, Z) /\ k \in LiveDirsOf(g, w) /\ k \in Dirs /\ b[k].is = "dir"
      /\ w[k].ent = b[k].ent
  BY AtCallFacts
<1>2. f = fat /\ b = blk /\ k = cwd /\ Z = DyingOf(drv, ucwd) /\ Ent = b[k].ent
  BY DEF AtCall, Ent
<1>3. /\ Elsewhere(drv, ucwd, k) /\ Slotted(drv) /\ Halves(b, drv, ucwd, LiveDirsOf(g, w))
      /\ Relates(f, b, g, w, DyingOf(drv, ucwd))
  BY <1>1, <1>2, CalledFacts
<1>4. CASE M # {}
  <2>1. i = Least(M)
    BY <1>4 DEF Reused
  <2>2. PICK O : /\ Replaced(g, w, O, nm, k, i, f, b, f1)
                 /\ ~Orphans(M) => Bearing(b, b[k].ent[i])
    BY <1>4, <2>1, ReplacedIs
  <2>3. PICK p, b1 : p = <<k, i>> /\ b1 = WithOf(f1, b, k, i, Deleted)
    OBVIOUS
  <2>4. i \in Slots /\ p \in PlacesOf(g, w) /\ O = Owns(g, w, p) /\ f1 \in Tables /\ Severed(f, O, f1)
        /\ AtOf(w, p) = b[k].ent[i]
    BY <2>2, <2>3 DEF Replaced
  <2>5. PICK g1, w1 : /\ OwnedAway(g, k, O) /\ ReadyDisk(f, b, k, i, O, f1, b1)
                      /\ ReadyBook(g, w, k, O, g1, w1) /\ Relates(f1, b1, g1, w1, Z)
                      /\ NoneIn(w, AtOf(w, p)) => Settled(g1, w1)
    <3>1. /\ OwnedAway(g, k, O) /\ ReadyDisk(f, b, k, i, O, f1, b1)
          /\ \E g1, w1 : /\ ReadyBook(g, w, k, O, g1, w1) /\ Relates(f1, b1, g1, w1, Z)
                         /\ NoneIn(w, AtOf(w, p)) => Settled(g1, w1)
      BY <1>1, <2>3, <2>4, ReadyAfter
    <3> QED
      BY <3>1
  <2>6. ASSUME ~Orphans(M) PROVE InOrder(drv, ucwd, k, O, g1, w1)
    <3>1. Bearing(b, AtOf(w, p))
      BY <2>2, <2>4, <2>6
    <3>2. Clear(drv, ucwd, k, O) /\ NoneIn(w, AtOf(w, p))
      BY <1>1, <1>3, <2>4, <3>1, HollowClear
    <3> QED
      BY <2>5, <3>2 DEF InOrder
  <2> QED
    BY <2>4, <2>5, <2>6 DEF Prepared
<1>5. CASE M = {}
  <2>1. f1 = f
    BY <1>2, <1>5 DEF Cleared
  <2>2. FreeSlots(b[k].ent) # {} /\ i = Least(FreeSlots(b[k].ent))
    BY <1>2, <1>5 DEF Reused
  <2>3. i \in Slots /\ Spot(b, k, i)
    BY <2>2, FreeSlot DEF Spot
  <2>4. ReadyDisk(f, b, k, i, {}, f, b) /\ ReadyBook(g, w, k, {}, g, w)
    BY <1>1, <2>3, ReadyAsIs
  <2>5. OwnedAway(g, k, {}) /\ Clear(drv, ucwd, k, {})
    BY <1>3, NoneGo
  <2>6. /\ Prepared(g, w, Z, k, i, {}, f, b, f1, b, g, w)
        /\ InOrder(drv, ucwd, k, {}, g, w)
    BY <1>1, <2>1, <2>3, <2>4, <2>5 DEF Prepared, InOrder
  <2> QED
    BY <2>6
<1> QED
  BY <1>4, <1>5

(* write finds room for n clusters.                                        *)
LEMMA RoomStep ==
    ASSUME NEW g, NEW w, NEW C, Follows(g, w, C), Called, cwd' = cwd, NEW f, NEW b, NEW Z, NEW k,
           AtCall(f, b, g, w, Z, k), NEW nm \in Name, NEW s \in Short, NEW M, M = Matches(Ent, nm, AnyKind),
           M # {} \/ FreeSlots(Ent) # {}, NEW i, i = Reused(Ent, nm), NEW f1, f1 = Cleared(nm),
           NEW n \in Nat, NEW v \in Val, n <= Cardinality(FreeClusters(f1)),
           NEW N, N = Picked(f1, n), NEW f2, f2 = Linked(f1, n), f2 = fat',
           NEW e, e = FileEntry(s, First(f1, n), n, v),
           NEW b2, b2 = FileOf(f1, b, k, i, N, v, e), b2 = blk'
    PROVE  UNoSharedCluster' /\ UFilesReadBack' /\ (~Orphans(M) => UIInv')
<1>1. /\ f \in Tables /\ b \in [Dirs -> Block] /\ k \in Dirs /\ b[k].is = "dir"
      /\ \A j \in Slots : <<k, j>> \notin Z
  BY AtCallFacts
<1>2. f = fat /\ b = blk /\ k = cwd /\ Z = DyingOf(drv, ucwd)
  BY DEF AtCall
<1>3. PICK O, b1, g1, w1 : /\ Prepared(g, w, Z, k, i, O, f, b, f1, b1, g1, w1)
                           /\ ~Orphans(M) => InOrder(drv, ucwd, k, O, g1, w1)
  BY PreparedIs
<1>4. /\ i \in Slots /\ OwnedAway(g, k, O) /\ ReadyDisk(f, b, k, i, O, f1, b1)
      /\ ReadyBook(g, w, k, O, g1, w1) /\ Relates(f1, b1, g1, w1, Z)
  BY <1>3 DEF Prepared
<1>5. f1 \in Tables /\ EditOn(f1, b, k, i, b1)
  BY <1>4 DEF ReadyDisk
<1>6. k = Root \/ f1[k] # Free
  <2>1. k \in LiveDirsOf(g1, w1)
    BY <1>4 DEF ReadyBook
  <2> QED
    BY <1>4, <2>1 DEF Relates, LiveDirsOf
<1>7. /\ e \in Entry /\ Live(e) /\ e.kind = "file" /\ f2 \in Tables /\ b2 \in [Dirs -> Block]
      /\ Fresh(f1, f2, b2, N, O) /\ Bare(f2, b2) /\ EntryAdded(f1, b1, k, i, e, N, f2, b2)
  <2>1. WritesFile(f1, b, k, i, s, n, v, N, f2, e, b2)
    BY DEF WritesFile
  <2> QED
    BY <1>1, <1>4, <1>5, <1>6, <2>1, FileOn, ZenonT(60)
<1>8. Sheltered(e, Z, LiveDirsOf(g1, w1)) /\ <<k, i>> \notin Z
  BY <1>1, <1>4, <1>7 DEF Sheltered
<1>9. PICK g2, w2 : /\ CallTo(f, b, k, O, N, f2, b2)
                    /\ Sound(g2, w2) /\ (Settled(g1, w1) => Settled(g2, w2))
                    /\ Relates(f2, b2, g2, w2, Z) /\ Booked(g, w, O, N, f2, g2, w2)
  BY <1>4, <1>7, <1>8, PutOn
<1>10. UNoSharedCluster' /\ UFilesReadBack'
  <2>1. UNCHANGED <<drv, ucwd>> /\ Relates(f2, b2, g2, w2, DyingOf(drv, ucwd))
    BY <1>2, <1>9 DEF Called
  <2> QED
    BY <1>9, <2>1, CleanAfter
<1>11. ASSUME ~Orphans(M) PROVE UIInv'
  <2>1. Clear(drv, ucwd, k, O) /\ Settled(g2, w2)
    BY <1>3, <1>9, <1>11 DEF InOrder
  <2>2. /\ f2 = fat' /\ b2 = blk' /\ cwd' = cwd /\ f2 \in Tables /\ b2 \in [Dirs -> Block]
        /\ OwnedAway(g, cwd, O) /\ Clear(drv, ucwd, cwd, O) /\ CallTo(fat, blk, cwd, O, N, f2, b2)
        /\ Bare(f2, b2) /\ Relates(f2, b2, g2, w2, DyingOf(drv, ucwd)) /\ Settled(g2, w2)
    BY <1>2, <1>4, <1>7, <1>9, <2>1
  <2> QED
    BY <1>9, <2>2, CallStep
<1> QED
  BY <1>10, <1>11

(* A chain is freed and its entry p stays: the write found no room.        *)
LEMMA EmptiedOn ==
    ASSUME NEW f, NEW b, NEW g, NEW w, NEW Z, Settled(g, w), Relates(f, b, g, w, Z),
           NEW k \in LiveDirsOf(g, w), b[k].is = "dir", NEW i \in Slots, NEW p, p = <<k, i>>,
           p \in PlacesOf(g, w), NEW O, O = Owns(g, w, p), NEW f1, Severed(f, O, f1), OwnedAway(g, k, O)
    PROVE  \E g2, w2, Y : /\ Erased(g, w, p, O, g2, w2) /\ Relates(f1, b, g2, w2, Y)
                          /\ Y = Z \cup {p} /\ (NoneIn(w, AtOf(w, p)) => Settled(g2, w2))
<1>1. PICK Y : Y = Z \cup {p}
  OBVIOUS
<1>2. \A c \in O : c \in Cluster
  BY DEF OwnedAway
<1>3. ChainGone(f, b, p, O, f1, b)
  BY <1>2 DEF ChainGone, Severed
<1>4. Shown(b, p, Z, Y)
  BY <1>1 DEF Shown
<1>5. PICK g2, w2 : /\ Erased(g, w, p, O, g2, w2) /\ Relates(f1, b, g2, w2, Y)
                    /\ NoneIn(w, AtOf(w, p)) => Settled(g2, w2)
  BY <1>3, <1>4, ErasedOn
<1> QED
  BY <1>1, <1>5

LEMMA CleanedAfter ==
    ASSUME NEW f2, f2 = fat', NEW b2, b2 = blk', UNCHANGED <<drv, ucwd>>, NEW g2, NEW w2, NEW p,
           Sound(g2, w2), NEW Y, Y = DyingOf(drv, ucwd) \cup {p}, Relates(f2, b2, g2, w2, Y),
           NEW x \in Cluster, x = AtOf(b2, p).cl, f2[x] = Free
    PROVE  UNoSharedCluster' /\ (damage' \in NoRoom => UFilesReadBack')
<1>1. Y = DyingOf(drv', ucwd') \cup {p}
  OBVIOUS
<1>2. Sound(g2, w2) /\ Relates(fat', blk', g2, w2, DyingOf(drv', ucwd') \cup {p})
  BY <1>1
<1>3. ClearedAt(p)'
  BY DEF ClearedAt, At, AtOf
<1>4. Cleaned'
  BY <1>2, <1>3 DEF Cleaned
<1>5. (UNoSharedCluster /\ (damage \in NoRoom => UFilesReadBack))'
  BY <1>4, CleanedFiles, PTL
<1> QED
  BY <1>5

Staged(f, b, D, U, C) == \A d \in Driver : Stage(f, b, D[d], U[d], C[d])

LEMMA PaidAfter ==
    ASSUME NEW f2, f2 = fat', NEW b2, b2 = blk', UNCHANGED <<drv, ucwd, killed>>, NEW g2, NEW w2,
           Settled(g2, w2), NEW Y, DyingOf(drv, ucwd) \subseteq Y, Relates(f2, b2, g2, w2, Y),
           NEW C, Paid(f2, g2, C, killed),
           Staged(f2, b2, drv, ucwd, C)
    PROVE  ULeakCause'
<1>1. /\ DyingOf(drv', ucwd') \subseteq Y
      /\ Settled(g2, w2) /\ Relates(fat', blk', g2, w2, Y) /\ Paid(fat', g2, C, killed')
      /\ \A d \in Driver : Stage(fat', blk', drv'[d], ucwd'[d], C[d])
  BY DEF Staged
<1>2. PaidFor'
  BY <1>1 DEF PaidFor, Settling
<1> QED
  BY <1>2, PaidLeaks, PTL

(* What the drivers have in their hands when entry p with clusters O is    *)
(* emptied                                                                 *)
LEMMA HandsKept ==
    ASSUME NEW f, NEW b, NEW D, NEW U, NEW P, NEW k, NEW G, NEW K, NEW g, NEW w, NEW C,
           Inner(f, b, D, U, P, k, G, K, g, w, C), NEW O, OwnedAway(g, k, O),
           NEW f1, Severed(f, O, f1), NEW g2, Severed(g, O, g2)
    PROVE  Paid(f1, g2, C, K) /\ Staged(f1, b, D, U, C)
<1>1. /\ Paid(f, g, C, K) /\ \A d \in Driver : Stage(f, b, D[d], U[d], C[d])
      /\ \A d \in Driver : \A c \in C[d] : c \in Cluster /\ f[c] # Free /\ g[c] = Free
  BY DEF Inner, Apart
<1>2. /\ \A c \in Cluster : f1[c] = IF c \in O THEN Free ELSE f[c]
      /\ \A c \in Cluster : g2[c] = IF c \in O THEN Free ELSE g[c]
      /\ \A c \in O : g[c] # Free
  BY DEF Severed, OwnedAway
<1>3. Paid(f1, g2, C, K)
  BY <1>1, <1>2 DEF Paid
<1>4. ASSUME NEW d \in Driver PROVE Stage(f1, b, D[d], U[d], C[d])
  <2>1. PICK r, u, B : r = D[d] /\ u = U[d] /\ B = C[d]
    OBVIOUS
  <2>2. Stage(f, b, r, u, B)
    BY <1>1, <2>1
  <2>3. \A c \in B : f1[c] = f[c] /\ b[c] = b[c]
    BY <1>1, <1>2, <2>1
  <2>4. Stage(f1, b, r, u, B)
    BY <2>2, <2>3, StageKept
  <2> QED
    BY <2>1, <2>4
<1> QED
  BY <1>3, <1>4 DEF Staged

LEMMA LodgedStill ==
    ASSUME NEW f, NEW b, NEW D, NEW U, NEW P, NEW k, NEW G, NEW K, NEW g, NEW w, NEW C,
           Inner(f, b, D, U, P, k, G, K, g, w, C), NEW O, OwnedAway(g, k, O),
           NEW f1, Severed(f, O, f1), NEW G2, LostTo(U, G, G2, f1, b)
    PROVE  \E L : L \subseteq LiveDirsOf(f1, b) /\ Dwelling(b, U, P, k, G2, L)
<1>1. PICK L : L = LiveDirsOf(g, w) \ O
  OBVIOUS
<1>2. Relates(f, b, g, w, DyingOf(D, U)) /\ Dwelling(b, U, P, k, G, LiveDirsOf(g, w))
  BY DEF Inner
<1>3. /\ \A c \in Cluster : f1[c] = IF c \in O THEN Free ELSE f[c]
      /\ k \notin O /\ \A c \in O : c \in Cluster
  BY DEF Severed, OwnedAway
<1>4. L \subseteq LiveDirsOf(f1, b)
  BY <1>1, <1>2, <1>3 DEF Relates, LiveDirsOf
<1>5. ASSUME NEW d \in Driver \ G2 PROVE U[d] \in L /\ (U[d] # Root => P[d] = b[U[d]].up)
  <2>1. U[d] \in LiveDirsOf(g, w) /\ (U[d] # Root => P[d] = b[U[d]].up)
    BY <1>2 DEF LostTo, Dwelling
  <2>2. U[d] # Root => f1[U[d]] # Free
    BY DEF LostTo, Removed
  <2>3. U[d] \notin O
    BY <1>3, <2>2, FatBounds
  <2> QED
    BY <1>1, <2>1, <2>3
<1>6. Kernel \notin G2 => k \in L
  BY <1>1, <1>2, <1>3 DEF LostTo, Dwelling
<1> QED
  BY <1>4, <1>5, <1>6 DEF Dwelling

(* write finds no room after it freed the old chain.                       *)
LEMMA NoRoomStep ==
    ASSUME NEW g, NEW w, NEW C, Follows(g, w, C), Called, cwd' = cwd, NEW f, NEW b, NEW Z, NEW k,
           AtCall(f, b, g, w, Z, k), NEW nm \in Name, NEW M, M = Matches(Ent, nm, AnyKind), M # {},
           NEW i, i = Least(M), NEW f1, f1 = Cleared(nm), f1 = fat', blk' = b, b[k].ent[i].cl # 0,
           damage' = IF Orphans(M) THEN "overwrite_dir_nospace" ELSE "overwrite_nospace"
    PROVE  UIInv'
<1>1. /\ f \in Tables /\ b \in [Dirs -> Block] /\ Settled(g, w) /\ Sound(g, w)
      /\ Relates(f, b, g, w, Z) /\ k \in LiveDirsOf(g, w) /\ k \in Dirs /\ b[k].is = "dir"
      /\ w[k].ent = b[k].ent
  BY AtCallFacts
<1>2. f = fat /\ b = blk /\ k = cwd /\ Z = DyingOf(drv, ucwd) /\ UNCHANGED <<drv, ucwd, uparent, killed>>
  BY DEF AtCall, Called
<1>3. PICK O : /\ Replaced(g, w, O, nm, k, i, f, b, f1)
               /\ ~Orphans(M) => Bearing(b, b[k].ent[i])
  BY ReplacedIs
<1>4. PICK p, x : p = <<k, i>> /\ x = b[k].ent[i].cl
  OBVIOUS
<1>5. /\ i \in Slots /\ p \in PlacesOf(g, w) /\ O = Owns(g, w, p) /\ f1 \in Tables /\ Severed(f, O, f1)
      /\ AtOf(w, p) = b[k].ent[i] /\ AtOf(b, p) = b[k].ent[i] /\ AtOf(w, p).cl = x
  BY <1>3, <1>4 DEF Replaced, AtOf
<1>6. OwnedAway(g, k, O)
  BY <1>1, <1>4, <1>5, ReadyAfter
<1>7. PICK g2, w2, Y : /\ Erased(g, w, p, O, g2, w2) /\ Relates(f1, b, g2, w2, Y)
                       /\ Y = Z \cup {p} /\ (NoneIn(w, AtOf(w, p)) => Settled(g2, w2))
  BY <1>1, <1>4, <1>5, <1>6, EmptiedOn
<1>8. Sound(g2, w2) /\ Severed(g, O, g2)
  BY <1>7 DEF Erased, Severed
<1>9. x \in Cluster /\ f1[x] = Free
  <2>1. Proper(g, x, Clusters(AtOf(w, p))) /\ O = Chain(g, x) /\ AtOf(w, p) \in Entry
    BY <1>1, <1>5, PlaceFacts DEF Owns
  <2>2. x \in O
    BY <1>4, <2>1, ProperFacts
  <2> QED
    BY <1>5, <1>6, <2>2 DEF Severed, OwnedAway
<1>10. UNoSharedCluster' /\ (damage' \in NoRoom => UFilesReadBack')
  <2>1. /\ f1 = fat' /\ b = blk' /\ x = AtOf(b, p).cl /\ x \in Cluster /\ f1[x] = Free
        /\ UNCHANGED <<drv, ucwd>>
    BY <1>2, <1>4, <1>5, <1>9
  <2>2. Y = DyingOf(drv, ucwd) \cup {p} /\ Sound(g2, w2) /\ Relates(f1, b, g2, w2, Y)
    BY <1>2, <1>7, <1>8
  <2> QED
    BY <2>1, <2>2, CleanedAfter
<1>11. UFilesReadBack'
  BY <1>10 DEF NoRoom
<1>12. Inner(f, b, drv, ucwd, uparent, k, gone, killed, g, w, C)
  BY <1>2 DEF Follows
<1>13. ~Intact'
  BY DEF Intact
<1>14. CASE Orphans(M)
  <2>1. ULeakCause' /\ ParentExact'
    BY <1>14 DEF ULeakCause, ParentExact, TakesDir
  <2> QED
    BY <1>10, <1>11, <1>13, <2>1 DEF UIInv, Promises
<1>15. CASE ~Orphans(M)
  <2>1. NoneIn(w, AtOf(w, p))
    <3>1. /\ Elsewhere(drv, ucwd, k) /\ Slotted(drv) /\ Halves(b, drv, ucwd, LiveDirsOf(g, w))
          /\ Relates(f, b, g, w, DyingOf(drv, ucwd))
      BY <1>1, <1>2, CalledFacts
    <3>2. Bearing(b, AtOf(w, p))
      BY <1>3, <1>5, <1>15
    <3>3. Sound(g, w) /\ p \in PlacesOf(g, w) /\ O = Owns(g, w, p)
      BY <1>1, <1>5
    <3> QED
      BY <3>1, <3>2, <3>3, HollowClear
  <2>2. Settled(g2, w2)
    BY <1>7, <2>1
  <2>3. ULeakCause'
    <3>1. Paid(f1, g2, C, killed) /\ Staged(f1, b, drv, ucwd, C)
      BY <1>5, <1>6, <1>8, <1>12, HandsKept
    <3>2. f1 = fat' /\ b = blk' /\ UNCHANGED <<drv, ucwd, killed>>
      BY <1>2
    <3>3. DyingOf(drv, ucwd) \subseteq Y
      BY <1>2, <1>7
    <3> QED
      BY <1>7, <2>2, <3>1, <3>2, <3>3, PaidAfter
  <2>4. ParentExact'
    <3>1. PICK G2 : G2 = gone'
      OBVIOUS
    <3>2. LostTo(ucwd, gone, G2, f1, b)
      <4>1. f1 = fat' /\ b = blk'
        OBVIOUS
      <4> QED
        BY <3>1, <4>1, CalledFacts
    <3>3. PICK L : L \subseteq LiveDirsOf(f1, b) /\ Dwelling(b, ucwd, uparent, k, G2, L)
      BY <1>5, <1>6, <1>12, <3>2, LodgedStill
    <3>4. L \subseteq LiveDirsOf(fat', blk') /\ Dwelling(blk', ucwd', uparent', cwd', gone', L)
      BY <1>2, <3>1, <3>3
    <3> QED
      BY <3>4, LodgedAfter
  <2> QED
    BY <1>10, <1>11, <1>13, <2>3, <2>4 DEF UIInv, Promises
<1> QED
  BY <1>14, <1>15

LEMMA KernelWrite ==
    ASSUME NEW g, NEW w, NEW C, Follows(g, w, C), Called,
           NEW nm \in Name, NEW n \in Sizes, NEW v \in Val, Write(nm, n, v)
    PROVE  UIInv'
<1>1. PICK f, b, Z, k : AtCall(f, b, g, w, Z, k)
  BY AtCallIs
<1>2. f = fat /\ b = blk /\ k = cwd /\ Ent = b[k].ent /\ f \in Tables /\ n \in Nat
  BY <1>1, AtCallFacts, FatBounds DEF AtCall, Ent
<1>0. PICK s : s = Cut[nm] /\ s \in Short
  BY CutShort
<1>3. PICK M, i, j, f1, N, e, f2, b2 :
         /\ M = Matches(Ent, nm, AnyKind) /\ i = Reused(Ent, nm) /\ j = Least(M) /\ f1 = Cleared(nm)
         /\ N = Picked(f1, n) /\ e = FileEntry(s, First(f1, n), n, v) /\ f2 = fat' /\ b2 = blk'
  OBVIOUS
<1>4. cwd' = cwd /\ (M # {} \/ FreeSlots(Ent) # {})
  BY <1>3 DEF Write
<1>5. CASE Cardinality(FreeClusters(f1)) >= n
  <2>1. /\ f2 = Linked(f1, n)
        /\ b2 = [c \in Dirs |-> IF c \in N THEN DataBlock(v) ELSE WithEntry(f1, cwd, i, e)[c]]
        /\ Orphans(M) => damage' = "overwrite_dir"
    <3>1. Cardinality(FreeClusters(f1)) \in Nat
      BY ClusterCount DEF FreeClusters
    <3>2. ~(Cardinality(FreeClusters(f1)) < n)
      BY <1>2, <1>5, <3>1
    <3>3. /\ fat' = Linked(f1, n)
          /\ blk' = [c \in Dirs |-> IF c \in N THEN DataBlock(v)
                                     ELSE WithEntry(f1, cwd, i, FileEntry(Cut[nm], First(f1, n), n, v))[c]]
          /\ damage' = CASE Orphans(M) -> "overwrite_dir"
                         [] M = {} /\ Taken83(nm) # {} -> "write_cut"
                         [] OTHER -> "none"
      BY <1>3, <3>2 DEF Write, First
    <3>4. Orphans(M) => M # {}
      BY DEF Orphans
    <3>5. Orphans(M) => damage' = "overwrite_dir"
      BY <3>3, <3>4
    <3> QED
      BY <1>0, <1>3, <3>3, <3>5
  <2>2. b2 = FileOf(f1, b, k, i, N, v, e)
    BY <1>2, <2>1, WithEntryIs DEF FileOf
  <2>3. n <= Cardinality(FreeClusters(f1))
    BY <1>5
  <2>4. UNoSharedCluster' /\ UFilesReadBack' /\ (~Orphans(M) => UIInv')
    BY <1>0, <1>1, <1>2, <1>3, <1>4, <2>1, <2>2, <2>3, RoomStep
  <2>5. Orphans(M) => UIInv'
    BY <2>1, <2>4, TakenAlong
  <2> QED
    BY <2>4, <2>5
<1>6. CASE ~(Cardinality(FreeClusters(f1)) >= n)
  <2>1. /\ f2 = f1 /\ b2 = b
        /\ damage' = IF Orphans(M) THEN "overwrite_dir_nospace"
                     ELSE IF M # {} /\ Ent[j].cl # 0 THEN "overwrite_nospace" ELSE "none"
    BY <1>2, <1>3, <1>6 DEF Write
  <2>2. CASE M # {} /\ b[k].ent[j].cl # 0
    <3>1. damage' = IF Orphans(M) THEN "overwrite_dir_nospace" ELSE "overwrite_nospace"
      BY <1>2, <2>1, <2>2
    <3>2. f1 = fat' /\ blk' = b /\ M = Matches(Ent, nm, AnyKind) /\ j = Least(M) /\ f1 = Cleared(nm)
      BY <1>3, <2>1
    <3> QED
      BY <1>1, <1>4, <2>2, <3>1, <3>2, NoRoomStep
  <2>3. ASSUME ~(M # {} /\ b[k].ent[j].cl # 0) PROVE f1 = f
    <3>1. CASE M = {}
      BY <1>2, <1>3, <3>1 DEF Cleared
    <3>2. CASE M # {}
      <4>1. PICK O : Replaced(g, w, O, nm, k, j, f, b, f1)
        BY <1>1, <1>3, <3>2, ReplacedIs
      <4>2. PICK p : p = <<k, j>> /\ p \in PlacesOf(g, w) /\ O = Owns(g, w, p) /\ AtOf(w, p) = b[k].ent[j]
        BY <4>1 DEF Replaced
      <4>3. AtOf(w, p).cl \notin Cluster
        BY <2>3, <3>2, <4>2, FatBounds
      <4>4. O = {}
        BY <1>1, <4>2, <4>3, OwnsNothing, AtCallFacts
      <4>5. f1 \in Tables /\ \A c \in Cluster : f1[c] = f[c]
        BY <4>1, <4>4 DEF Replaced, Severed
      <4> QED
        BY <1>2, <4>5 DEF Tables
    <3> QED
      BY <3>1, <3>2
  <2>4. ASSUME f1 = f PROVE UIInv'
    <3>1. UNCHANGED <<fat, blk>>
      BY <1>2, <1>3, <2>1, <2>4
    <3>2. cwd \in LiveDirsOf(g, w)
      BY <1>1, <1>2, AtCallFacts
    <3> QED
      BY <1>4, <3>1, <3>2, StaysStep
  <2> QED
    BY <2>2, <2>3, <2>4
<1> QED
  BY <1>5, <1>6

(* After a call on "." or ".." nothing is said.                            *)
LEMMA KernelDotsKept == KernelDots => UIInv'
<1> SUFFICES ASSUME KernelDots PROVE UIInv'
  OBVIOUS
<1>1. \A c : DotDamage(c) \in DotCauses
  BY DEF DotDamage, DotCauses
<1>2. damage' \in DotCauses
  BY <1>1 DEF KernelDots, DotCall, RemoveDot, RmdirDot, WriteDot, RenameDot, FreesDir, DotCauses
<1> QED
  BY <1>2, RaceIs

LEMMA KernelCallKept ==
    ASSUME NEW g, NEW w, NEW C, Follows(g, w, C), KernelCall
    PROVE  UIInv'
<1>1. Called /\ Operation
  BY DEF KernelCall, Called
<1>2. CASE CdUp
  BY <1>1, <1>2, KernelCdUp
<1>3. CASE CdRoot
  BY <1>1, <1>3, KernelCdRoot
<1>4. ASSUME NEW nm \in Name, Cd(nm) \/ Remove(nm) \/ Mkdir(nm) \/ Rmdir(nm) PROVE UIInv'
  BY <1>1, <1>4, KernelCd, KernelRemove, KernelMkdir, KernelRmdir
<1>5. ASSUME NEW nm \in Name, NEW n \in Sizes, NEW v \in Val, Write(nm, n, v) PROVE UIInv'
  BY <1>1, <1>5, KernelWrite
<1>6. ASSUME NEW old \in Name, NEW new \in Name, Rename(old, new) PROVE UIInv'
  BY <1>1, <1>6, KernelRename
<1> QED
  BY <1>1, <1>2, <1>3, <1>4, <1>5, <1>6 DEF Operation

-----------------------------------------------------------------------------
(* The invariant and the properties                                        *)

LEMMA DriverStepKept ==
    ASSUME NEW g, NEW w, NEW C, Follows(g, w, C), NEW d \in Driver, DriverStep(d)
    PROVE  UIInv'
<1>1. Intact
  BY DEF DriverStep
<1>2. CASE FatRead(d) \/ FatWrite(d) \/ FindSlot(d) \/ Probe(d)
  BY <1>1, <1>2, FatReadKept, FatWriteKept, FindSlotKept, ProbeKept
<1>3. CASE WriteData(d) \/ NextData(d) \/ WriteBlock(d) \/ ReadEntry(d) \/ SaveEntry(d)
  BY <1>1, <1>3, WriteDataKept, NextDataKept, WriteBlockKept, ReadEntryKept, SaveEntryKept
<1>4. CASE Find(d) \/ Check(d) \/ FreeNext(d) \/ Erase(d) \/ SaveName(d)
  BY <1>1, <1>4, FindKept, CheckKept, FreeNextKept, EraseKept, SaveNameKept
<1> QED
  BY <1>2, <1>3, <1>4 DEF DriverStep

(* Every step but a stutter starts from an intact disk.                    *)
LEMMA OnlyIntact == UNext => Intact
BY ZenonT(60) DEF UNext, DriverStep, UCdUp, UCdRoot, Kill, KillRemoving, UMkdir, Rm, URmdir, UCd, Create,
       Mv, Begin, StaleUse, KernelCall, KernelRaces, KernelDots, Operation, CdUp, CdRoot, Cd, Remove, Mkdir,
       Rmdir, Write, Rename, DotCall, RemoveDot, RmdirDot, WriteDot, RenameDot

LEMMA UNextKept == UIInv /\ [UNext]_uvars => UIInv'
<1> SUFFICES ASSUME UIInv, [UNext]_uvars PROVE UIInv'
  OBVIOUS
<1>1. CASE UNext
  <2>1. Intact
    BY <1>1, OnlyIntact
  <2>2. PICK g, w, C : Follows(g, w, C)
    BY <2>1 DEF UIInv, Followed
  <2>3. ASSUME NEW d \in Driver, DriverStep(d) PROVE UIInv'
    BY <2>2, <2>3, DriverStepKept
  <2>4. ASSUME NEW d \in Driver, UCdUp(d) \/ UCdRoot(d) \/ Kill(d) PROVE UIInv'
    BY <2>1, <2>2, <2>4, UCdUpKept, UCdRootKept, KillKept
  <2>5. ASSUME NEW d \in Driver, NEW nm \in Name, UMkdir(d, nm) \/ Rm(d, nm) \/ URmdir(d, nm) PROVE UIInv'
    BY <2>2, <2>5, BeginKept
  <2>6. ASSUME NEW d \in Driver, NEW nm \in Name, UCd(d, nm) PROVE UIInv'
    BY <2>2, <2>6, UCdKept
  <2>7. ASSUME NEW d \in Driver, NEW nm \in Name, NEW k \in Sizes, NEW v \in Val, Create(d, nm, k, v)
        PROVE  UIInv'
    BY <2>2, <2>7, BeginKept
  <2>8. ASSUME NEW d \in Driver, NEW old \in Name, NEW new \in Name, Mv(d, old, new) PROVE UIInv'
    BY <2>2, <2>8, BeginKept
  <2>9. CASE StaleUse \/ KernelRaces
    BY <2>9, RaceIs DEF StaleUse, KernelRaces
  <2>10. CASE KernelCall
    BY <2>2, <2>10, KernelCallKept
  <2>11. CASE KernelDots
    BY <2>11, KernelDotsKept
  <2>12. ASSUME NEW d \in Driver, KillRemoving(d) PROVE UIInv'
    BY <2>2, <2>12, KillRemovingKept DEF Followed
  <2> QED
    BY <1>1, <2>3, <2>4, <2>5, <2>6, <2>7, <2>8, <2>9, <2>10, <2>11, <2>12 DEF UNext
<1>2. CASE UNCHANGED uvars
  <2>1. /\ fat' = fat /\ blk' = blk /\ cwd' = cwd /\ damage' = damage /\ drv' = drv /\ ucwd' = ucwd
        /\ uparent' = uparent /\ gone' = gone /\ killed' = killed
    BY <1>2 DEF uvars
  <2>2. Intact' <=> Intact
    BY <2>1 DEF Intact
  <2>3. CASE Intact
    <3>1. PICK g, w, C : Inner(fat, blk, drv, ucwd, uparent, cwd, gone, killed, g, w, C)
      BY <2>3 DEF UIInv, Followed, Follows
    <3>2. Inner(fat', blk', drv', ucwd', uparent', cwd', gone', killed', g, w, C)
      BY <2>1, <3>1
    <3> QED
      BY <3>2, FollowedIs
  <2>4. CASE ~Intact
    <3>1. Promises'
      BY <2>1, <2>4, Repeats DEF UIInv
    <3> QED
      BY <2>2, <2>4, <3>1 DEF UIInv
  <2> QED
    BY <2>3, <2>4
<1> QED
  BY <1>1, <1>2

(* A fresh volume is settled.                                              *)
LEMMA FreshSettled ==
    ASSUME NEW f, NEW b, f = [c \in Cluster |-> Free],
           b = [d \in Dirs |-> IF d = Root THEN DirBlock(Root) ELSE Unread]
    PROVE  /\ f \in Tables /\ b \in [Dirs -> Block] /\ Settled(f, b) /\ LiveDirsOf(f, b) = {Root}
           /\ b[Root].is = "dir" /\ \A c \in Cluster : b[c].is # "dir"
<1>1. f \in Tables /\ b \in [Dirs -> Block] /\ b[Root] = DirBlock(Root) /\ Root \in Dirs
  BY NewBlocks DEF Tables, Dirs
<1>2. b[Root].is = "dir" /\ \A i \in Slots : b[Root].ent[i] = End
  BY <1>1, NewBlocks
<1>3. LiveDirsOf(f, b) = {Root}
  BY DEF LiveDirsOf
<1>4. PlacesOf(f, b) = {}
  BY <1>2, <1>3, NewEntries DEF PlacesOf
<1>5. Packed(b[Root].ent)
  BY <1>2 DEF Packed
<1>6. Sound(f, b)
  BY <1>1, <1>2, <1>3, <1>4, <1>5 DEF Sound
<1>7. Covered(f, b) /\ Tree(f, b)
  BY <1>3, <1>4 DEF Covered, Tree
<1>8. \A c \in Cluster : c \in Dirs /\ c # Root
  BY FatBounds DEF Dirs
<1>9. \A c \in Cluster : b[c].is # "dir"
  BY <1>8 DEF Unread
<1> QED
  BY <1>1, <1>2, <1>3, <1>6, <1>7, <1>9 DEF Settled

LEMMA UInitKept == UInit => UIInv
<1> SUFFICES ASSUME UInit PROVE UIInv
  OBVIOUS
<1>1. PICK f, b, D, U, P, C :
         /\ f = fat /\ b = blk /\ D = drv /\ U = ucwd /\ P = uparent
         /\ C = [d \in Driver |-> {}]
  BY Zenon
<1>2. /\ f = [c \in Cluster |-> Free] /\ cwd = Root /\ gone = {} /\ killed = {} /\ Intact
      /\ b = [d \in Dirs |-> IF d = Root THEN DirBlock(Root) ELSE Unread]
      /\ D = [d \in Driver |-> Idle] /\ U = [d \in Driver |-> Root] /\ P = [d \in Driver |-> Root]
  BY <1>1 DEF UInit, Init, Intact
<1>3. /\ f \in Tables /\ b \in [Dirs -> Block] /\ Settled(f, b) /\ LiveDirsOf(f, b) = {Root}
      /\ b[Root].is = "dir" /\ \A c \in Cluster : b[c].is # "dir"
  BY <1>2, FreshSettled
<1>4. /\ \A d \in Driver : D[d] = Idle /\ U[d] = Root /\ C[d] = {}
      /\ Root \in Dirs /\ D \in [Driver -> {Idle} \cup Local] /\ U \in [Driver -> Dirs]
      /\ P \in [Driver -> Dirs] /\ cwd \in Dirs /\ C \in [Driver -> SUBSET Cluster]
  BY <1>1, <1>2 DEF Dirs
<1>5. \A d \in Driver : ~HalfOf(D[d])
  BY <1>4, IdleIs
<1>6. DyingOf(D, U) = {}
  BY <1>5 DEF DyingOf
<1>7. Relates(f, b, f, b, DyingOf(D, U))
  BY <1>3, <1>6 DEF Relates
<1>8. Bare(f, b) /\ Apart(f, f, C) /\ Paid(f, f, C, killed)
  BY <1>3, <1>4 DEF Bare, Apart, Paid
<1>9. \A d \in Driver : Stage(f, b, D[d], U[d], C[d]) /\ AimedAt(b, D[d], U[d])
  BY <1>4, IdleIs
<1>10. Halves(b, D, U, {Root}) /\ Dwelling(b, U, P, cwd, gone, {Root}) /\ Aimed(b, D, U, gone)
  BY <1>2, <1>4, <1>5, <1>9 DEF Halves, Dwelling, Aimed
<1>11. Inner(f, b, D, U, P, cwd, gone, killed, f, b, C)
  BY <1>3, <1>4, <1>7, <1>8, <1>9, <1>10 DEF Inner
<1>12. Followed
  BY <1>1, <1>11 DEF Followed, Follows
<1> QED
  BY <1>2, <1>12 DEF UIInv

LEMMA UAlways == USpec => []UIInv
<1>1. UInit => UIInv
  BY UInitKept
<1>2. UIInv /\ [UNext]_uvars => UIInv'
  BY UNextKept
<1> QED
  BY <1>1, <1>2, PTL DEF USpec

LEMMA UKeepsPromises == UIInv => Promises
BY Promised DEF UIInv

(* However the system calls of the drivers, one sector each, and the calls *)
(* of the kernel fall between each other, and whoever Ctrl+C ends, no two  *)
(* files share a cluster: alloc_cluster's and write_fat_entry's separate   *)
(* reads and writes of the FAT do no harm until a driver writes on the     *)
(* ground of a sector that has changed since, goes on in a directory that  *)
(* is gone, or the kernel is called with "." or "..".  The entries that    *)
(* ufs_rm and ufs_rmdir are freeing the clusters of are left out.          *)
THEOREM ClustersNeverShared == USpec => []UNoSharedCluster
<1>1. UIInv => UNoSharedCluster
  BY UKeepsPromises DEF Promises
<1> QED
  BY <1>1, UAlways, PTL

(* A cluster that is taken and that nobody reaches is in the hands of an   *)
(* operation half way, or was in the hands of one that was killed:         *)
(* ufs_create that ran out of space and ufs_mkdir without a slot give back *)
(* what they took, and rm, rmdir and mv lose nothing.                      *)
THEOREM DriversLoseNothing == USpec => []ULeakCause
<1>1. UIInv => ULeakCause
  BY UKeepsPromises DEF Promises
<1> QED
  BY <1>1, UAlways, PTL

(* A file that is being made cannot be seen until it is whole, ufs_create  *)
(* writing the contents before the entry: what ufs_read_file finds it      *)
(* reads as it was written, between any two system calls of the other      *)
(* drivers and after kills.  What can be seen and is not whole is a file   *)
(* that ufs_rm is freeing the clusters of (it frees them before it marks   *)
(* the entry), one whose remover was killed at that, and one that the      *)
(* kernel overwrote and found no room for; and nothing is said after a     *)
(* race, work in a directory that is gone, or a call on "." or "..".       *)
THEOREM ReadersSeeWholeFiles == USpec => []UFilesReadBack
<1>1. UIInv => UFilesReadBack
  BY UKeepsPromises DEF Promises
<1> QED
  BY <1>1, UAlways, PTL

(* cur_dir_cluster of a driver is a live directory and parent_cluster that *)
(* directory's "..", until somebody removes the directory: ufs_cd's one    *)
(* remembered level is the right one however deep the driver goes.         *)
THEOREM DirectoriesStayKnown == USpec => []ParentExact
<1>1. UIInv => ParentExact
  BY UKeepsPromises DEF Promises
<1> QED
  BY <1>1, UAlways, PTL
=============================================================================
