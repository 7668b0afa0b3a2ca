------------------------- MODULE AddressSpaceProofs -------------------------
(***************************************************************************)
(* Proofs about physical pages and address spaces, for any number of       *)
(* tasks, pages and addresses and any size of the owned_phys_ table.       *)
(***************************************************************************)
EXTENDS AddressSpace, FiniteSetTheorems, WellFoundedInduction, TLAPS

(* Allocation *)

(* A set of numbers that is not empty has a lowest.                        *)
LEMMA LeastIn ==
  ASSUME NEW S, S \subseteq Nat, S # {}
  PROVE  \E x \in S : \A y \in S : x <= y
<1> DEFINE R == OpToRel(<, Nat)
<1>1. PICK x \in S : \A y \in S : ~(<<y, x>> \in R)
  <2>1. IsWellFoundedOn(R, Nat)
    BY NatLessThanWellFounded
  <2> HIDE DEF R
  <2>2. QED
    BY <2>1, WFMin
<1>2. \A y \in S : ~(y < x)
  BY <1>1 DEF OpToRel
<1>3. \A y \in S : x <= y
  BY <1>2
<1>4. QED
  BY <1>3

LEMMA LowestIn ==
  ASSUME NEW S, S \subseteq Nat, S # {}
  PROVE  Lowest(S) \in S
<1>1. PICK x \in S : \A y \in S : x <= y
  BY LeastIn
<1>2. QED
  BY <1>1 DEF Lowest

LEMMA LowestLeast ==
  ASSUME NEW S, S \subseteq Nat, S # {}
  PROVE  \A y \in S : Lowest(S) <= y
<1>1. PICK x \in S : \A y \in S : x <= y
  BY LeastIn
<1>2. QED
  BY <1>1 DEF Lowest

(* mm_alloc_page returns a page nobody has, or none.                       *)
LEMMA AllocFresh ==
  ASSUME NEW u
  PROVE  /\ Alloc(u) \in (Page \ u) \cup {NoPage}
         /\ FreePages(u) # {} => Alloc(u) \in Page \ u
<1>1. CASE FreePages(u) = {}
  BY <1>1 DEF Alloc
<1>2. CASE FreePages(u) # {}
  <2>1. FreePages(u) \subseteq Nat
    BY SpaceAssumption DEF FreePages, Page
  <2>2. QED
    BY <1>2, <2>1, LowestIn DEF Alloc, FreePages
<1>3. QED
  BY <1>1, <1>2

LEMMA NotPages == NoPage \notin Page /\ Ident \notin Page /\ NoPage # Ident
BY SpaceAssumption DEF NoPage, Ident, Page

-----------------------------------------------------------------------------
(* One address space *)

SpaceType == [dir : Page \cup {NoPage}, tab : [Pde -> Page \cup {NoPage}],
              pte : [Va -> Page \cup {NoPage, Ident}], owned : SUBSET Page]

(* The pages of a space are distinct.                                      *)
Fine(sp) ==
    /\ sp.dir \notin Tables(sp) /\ sp.dir \notin sp.owned
    /\ Tables(sp) \cap sp.owned = {}
    /\ \A i, j \in Pde : (i # j /\ sp.tab[i] # NoPage) => sp.tab[i] # sp.tab[j]

LEMMA EmptyFine ==
  ASSUME NEW d \in Page \cup {NoPage}
  PROVE  /\ EmptySpace(d) \in SpaceType /\ Fine(EmptySpace(d))
         /\ Pages(EmptySpace(d)) = {d} \ {NoPage}
         /\ \A va \in Va : EmptySpace(d).pte[va] = NoPage
<1>1. EmptySpace(d) \in SpaceType
  BY DEF EmptySpace, SpaceType
<1>2. Tables(EmptySpace(d)) = {} /\ EmptySpace(d).owned = {} /\ EmptySpace(d).dir = d
  BY DEF EmptySpace, Tables
<1>3. Fine(EmptySpace(d))
  BY <1>2 DEF EmptySpace, Fine
<1>4. QED
  BY <1>1, <1>2, <1>3 DEF EmptySpace, Pages, Dirs

LEMMA NoSpaceFine == NoSpace \in SpaceType /\ Fine(NoSpace) /\ Pages(NoSpace) = {}
                     /\ \A va \in Va : NoSpace.pte[va] = NoPage
BY EmptyFine DEF NoSpace

(* map_page changes the entry of one address and takes at most one table.  *)
LEMMA MapFine ==
  ASSUME NEW sp \in SpaceType, Fine(sp), NEW va \in Va,
         NEW p \in Page \cup {Ident}, NEW q \in Page \cup {NoPage},
         q \notin Pages(sp), q # NoPage => NeedsTable(sp, va)
  PROVE  LET m == Map(sp, va, p, q) IN
         /\ m \in SpaceType /\ Fine(m)
         /\ Pages(m) = Pages(sp) \cup ({q} \ {NoPage})
         /\ m.owned = sp.owned
         /\ \A vb \in Va : m.pte[vb] = sp.pte[vb] \/ (vb = va /\ m.pte[vb] = p)
<1> DEFINE m == Map(sp, va, p, q)
           i == va \div PtSize
<1>0. i \in Pde
  BY DEF Pde
<1> HIDE DEF i
<1>1. CASE ~NeedsTable(sp, va)
  <2>1. m = [sp EXCEPT !.pte[va] = p] /\ q = NoPage
    BY <1>1 DEF Map
  <2>2. /\ m \in SpaceType /\ m.dir = sp.dir /\ m.tab = sp.tab /\ m.owned = sp.owned
        /\ m.pte = [sp.pte EXCEPT ![va] = p]
    BY <2>1 DEF SpaceType
  <2>3. Tables(m) = Tables(sp) /\ Dirs(m) = Dirs(sp)
    BY <2>2 DEF Tables, Dirs
  <2>4. \A vb \in Va : m.pte[vb] = sp.pte[vb] \/ (vb = va /\ m.pte[vb] = p)
    BY <2>2 DEF SpaceType
  <2>5. QED
    BY <2>1, <2>2, <2>3, <2>4 DEF Fine, Pages
<1>2. CASE NeedsTable(sp, va) /\ q # NoPage
  <2>1. m = [sp EXCEPT !.tab[i] = q, !.pte[va] = p] /\ sp.tab[i] = NoPage
    BY <1>2 DEF Map, NeedsTable, i
  <2>2. /\ m \in SpaceType /\ m.dir = sp.dir /\ m.owned = sp.owned
        /\ m.tab = [sp.tab EXCEPT ![i] = q] /\ m.pte = [sp.pte EXCEPT ![va] = p]
    <3>1. /\ m.dir = sp.dir /\ m.owned = sp.owned
          /\ m.tab = [sp.tab EXCEPT ![i] = q] /\ m.pte = [sp.pte EXCEPT ![va] = p]
      BY <2>1 DEF SpaceType
    <3>2. m.tab \in [Pde -> Page \cup {NoPage}]
      BY <1>0, <3>1 DEF SpaceType
    <3>3. m.pte \in [Va -> Page \cup {NoPage, Ident}]
      BY <3>1 DEF SpaceType
    <3>4. m = [dir |-> m.dir, tab |-> m.tab, pte |-> m.pte, owned |-> m.owned]
      BY <2>1 DEF SpaceType
    <3>5. m.dir \in Page \cup {NoPage} /\ m.owned \in SUBSET Page
      BY <3>1 DEF SpaceType
    <3> HIDE DEF m
    <3>6. m \in SpaceType
      BY <3>2, <3>3, <3>4, <3>5 DEF SpaceType
    <3>7. QED
      BY <3>1, <3>6
  <2>3. sp.tab \in [Pde -> Page \cup {NoPage}] /\ sp.dir \in Page \cup {NoPage} /\ sp.owned \subseteq Page
    BY DEF SpaceType
  <2>4. Tables(m) = Tables(sp) \cup {q}
    BY <1>0, <1>2, <2>1, <2>2, <2>3 DEF Tables
  <2>5. q \notin Tables(sp) /\ q \notin sp.owned /\ q # sp.dir
    BY <1>2 DEF Pages, Dirs
  <2>6. Pages(m) = Pages(sp) \cup ({q} \ {NoPage})
    BY <1>2, <2>2, <2>4 DEF Pages, Dirs
  <2>7. \A vb \in Va : m.pte[vb] = sp.pte[vb] \/ (vb = va /\ m.pte[vb] = p)
    BY <2>2 DEF SpaceType
  <2>8. \A j, k \in Pde : (j # k /\ m.tab[j] # NoPage) => m.tab[j] # m.tab[k]
    <3>1. \A j \in Pde : m.tab[j] = IF j = i THEN q ELSE sp.tab[j]
      BY <1>0, <2>2, <2>3
    <3>2. \A j \in Pde : sp.tab[j] # q
      BY <1>2, <2>5 DEF Tables
    <3>3. QED
      BY <3>1, <3>2 DEF Fine
  <2>9. m.dir \notin Tables(m) /\ m.dir \notin m.owned /\ Tables(m) \cap m.owned = {}
    BY <2>2, <2>4, <2>5 DEF Fine
  <2>10. QED
    BY <2>2, <2>6, <2>7, <2>8, <2>9 DEF Fine
<1>3. CASE NeedsTable(sp, va) /\ q = NoPage
  <2>1. m = sp
    BY <1>3 DEF Map
  <2>2. QED
    BY <1>3, <2>1
<1>4. QED
  BY <1>1, <1>2, <1>3

(* track_owned records the page, or leaves it to be lost.                  *)
LEMMA TrackFine ==
  ASSUME NEW sp \in SpaceType, Fine(sp), NEW p \in Page, p \notin Pages(sp)
  PROVE  /\ Track(sp, p) \in SpaceType /\ Fine(Track(sp, p))
         /\ Pages(Track(sp, p)) = Pages(sp) \cup ({p} \ Untracked(sp, p))
         /\ Track(sp, p).pte = sp.pte
         /\ Track(sp, p).owned = sp.owned \cup ({p} \ Untracked(sp, p))
         /\ Untracked(sp, p) \subseteq {p}
<1>1. CASE Cardinality(sp.owned) < MaxOwned
  <2> DEFINE m == Track(sp, p)
  <2>1. m = [sp EXCEPT !.owned = sp.owned \cup {p}] /\ Untracked(sp, p) = {}
    BY <1>1 DEF Track, Untracked
  <2>2. /\ m \in SpaceType /\ m.dir = sp.dir /\ m.tab = sp.tab /\ m.pte = sp.pte
        /\ m.owned = sp.owned \cup {p}
    BY <2>1 DEF SpaceType
  <2>3. Tables(m) = Tables(sp) /\ Dirs(m) = Dirs(sp)
    BY <2>2 DEF Tables, Dirs
  <2>4. p \notin Tables(sp) /\ p # sp.dir
    BY NotPages DEF Pages, Dirs
  <2>5. QED
    BY <2>1, <2>2, <2>3, <2>4 DEF Fine, Pages
<1>2. CASE ~(Cardinality(sp.owned) < MaxOwned)
  BY <1>2 DEF Track, Untracked
<1>3. QED
  BY <1>1, <1>2

-----------------------------------------------------------------------------
(* All address spaces: the pages u that are taken are those taken at boot, *)
(* the lost ones l and those of the spaces m, and all these are disjoint.  *)

Part(u, l, m) ==
    /\ \A e : e \in u <=> e \in InitUsed \/ e \in l \/ \E x \in Owners : e \in Pages(m[x])
    /\ InitUsed \cap l = {}
    /\ \A x \in Owners : Pages(m[x]) \cap (InitUsed \cup l) = {}
    /\ \A x, y \in Owners : x # y => Pages(m[x]) \cap Pages(m[y]) = {}

LEMMA PartIs ==
  PagePartition <=> Part(used, lost, space) /\ \A x \in Owners : Fine(space[x])
BY ZenonT(60) DEF PagePartition, Part, Fine

(* One space takes the fresh pages N, of which L are lost.                 *)
LEMMA PartGrow ==
  ASSUME NEW u, NEW l, NEW m, Part(u, l, m), NEW n, NEW x \in Owners, NEW N, NEW L,
         N \cap u = {}, L \subseteq N,
         \A z \in Owners \ {x} : n[z] = m[z],
         Pages(n[x]) = Pages(m[x]) \cup (N \ L)
  PROVE  Part(u \cup N, l \cup L, n)
<1>1. \A z \in Owners : Pages(m[z]) \subseteq u
  BY DEF Part
<1>2. \A z \in Owners : Pages(m[z]) \subseteq Pages(n[z]) /\ Pages(n[z]) \subseteq Pages(m[z]) \cup (N \ L)
  OBVIOUS
<1>3. \A e : e \in u \cup N <=>
             e \in InitUsed \/ e \in l \cup L \/ \E z \in Owners : e \in Pages(n[z])
  BY <1>2 DEF Part
<1>4. InitUsed \cap (l \cup L) = {}
  BY DEF Part
<1>5. \A z \in Owners : Pages(n[z]) \cap (InitUsed \cup l \cup L) = {}
  BY <1>1, <1>2 DEF Part
<1>6. ASSUME NEW y \in Owners, NEW z \in Owners, y # z
      PROVE  Pages(n[y]) \cap Pages(n[z]) = {}
  BY <1>1, <1>6 DEF Part
<1>7. QED
  BY <1>3, <1>4, <1>5, <1>6 DEF Part

(* One space is released, with all its pages.                              *)
LEMMA PartDrop ==
  ASSUME NEW u, NEW l, NEW m, Part(u, l, m), NEW n, NEW x \in Owners,
         \A z \in Owners \ {x} : n[z] = m[z],
         Pages(n[x]) = {}
  PROVE  Part(u \ Pages(m[x]), l, n)
<1>1. \A e : e \in u \ Pages(m[x]) <=>
             e \in InitUsed \/ e \in l \/ \E z \in Owners : e \in Pages(n[z])
  BY DEF Part
<1>2. \A z \in Owners : Pages(n[z]) \subseteq Pages(m[z])
  OBVIOUS
<1>3. QED
  BY <1>1, <1>2 DEF Part

(* A space is released and another one takes its place.                    *)
LEMMA PartMove ==
  ASSUME NEW u, NEW l, NEW m, Part(u, l, m), NEW n, NEW x \in Owners, NEW y \in Owners, x # y,
         \A z \in Owners \ {x, y} : n[z] = m[z],
         n[x] = m[y], Pages(n[y]) = {}
  PROVE  Part(u \ Pages(m[x]), l, n)
<1>1. \A e : e \in u \ Pages(m[x]) <=>
             e \in InitUsed \/ e \in l \/ \E z \in Owners : e \in Pages(n[z])
  BY DEF Part
<1>2. \A z \in Owners : Pages(n[z]) \cap (InitUsed \cup l) = {}
  BY DEF Part
<1>3. ASSUME NEW v \in Owners, NEW w \in Owners, v # w
      PROVE  Pages(n[v]) \cap Pages(n[w]) = {}
  BY <1>3 DEF Part
<1>4. QED
  BY <1>1, <1>2, <1>3 DEF Part

-----------------------------------------------------------------------------
(* free_count *)

LEMMA PageFinite ==
  ASSUME NEW S, S \subseteq Page
  PROVE  IsFiniteSet(S) /\ Cardinality(S) \in Nat
<1>1. IsFiniteSet(Page)
  BY SpaceAssumption, FS_Interval DEF Page
<1>2. QED
  BY <1>1, FS_Subset, FS_CardinalityType

(* Taking free pages and giving used ones back keeps the count exact.      *)
LEMMA CountTake ==
  ASSUME FreeCountExact, used \subseteq Page, NEW S, S \ {NoPage} \subseteq Page \ used, Take(S)
  PROVE  FreeCountExact'
<1> DEFINE N == S \ {NoPage}
           F == Page \ used
<1>1. Page \ used' = F \ N /\ F \cap N = N
  BY DEF Take
<1>2. Cardinality(F \ N) = Cardinality(F) - Cardinality(N)
  <2>1. IsFiniteSet(F)
    BY PageFinite
  <2> HIDE DEF F, N
  <2>2. Cardinality(F \ N) = Cardinality(F) - Cardinality(F \cap N)
    BY <2>1, FS_Difference
  <2>3. QED
    BY <1>1, <2>2
<1>3. Cardinality(F) \in Nat /\ Cardinality(N) \in Nat
  BY PageFinite
<1>4. freeCount' = freeCount - Cardinality(N)
  BY DEF Take, Counted
<1>5. freeCount = Cardinality(F) + BmPages /\ BmPages \in Int
  BY SpaceAssumption DEF FreeCountExact
<1> HIDE DEF N, F
<1>6. freeCount' = Cardinality(F \ N) + BmPages
  BY <1>2, <1>3, <1>4, <1>5
<1>7. QED
  BY <1>1, <1>6 DEF FreeCountExact

LEMMA CountGive ==
  ASSUME FreeCountExact, used \subseteq Page, NEW S, Give(S)
  PROVE  FreeCountExact'
<1> DEFINE G == S \cap used
           F == Page \ used
<1>1. Page \ used' = F \cup G /\ F \cap G = {} /\ G \subseteq Page
  BY DEF Give
<1>2. IsFiniteSet(F) /\ IsFiniteSet(G) /\ Cardinality(F) \in Nat /\ Cardinality(G) \in Nat
  BY <1>1, PageFinite
<1>3. Cardinality(F \cup G) = Cardinality(F) + Cardinality(G) - Cardinality(F \cap G)
  BY <1>2, FS_Union
<1>4. Cardinality(F \cap G) = 0
  BY <1>1, FS_EmptySet
<1>5. freeCount' = freeCount + Cardinality(G)
  BY DEF Give, Counted
<1>6. freeCount = Cardinality(F) + BmPages /\ BmPages \in Int
  BY SpaceAssumption DEF FreeCountExact
<1> HIDE DEF G, F
<1>7. freeCount' = Cardinality(F \cup G) + BmPages
  BY <1>2, <1>3, <1>4, <1>5, <1>6
<1>8. QED
  BY <1>1, <1>7 DEF FreeCountExact

(* mm_init marks BmPages pages it does not count.                          *)
LEMMA CountInit ==
  ASSUME Init
  PROVE  FreeCountExact
<1> DEFINE B == 1 .. BmPages
<1>1. B \subseteq Page /\ Reserved \subseteq Page /\ B \cap Reserved = {}
  BY SpaceAssumption DEF Page
<1>2. /\ IsFiniteSet(B) /\ IsFiniteSet(Reserved) /\ IsFiniteSet(Page)
      /\ Cardinality(Reserved) \in Nat
  BY <1>1, PageFinite
<1>3. Cardinality(B) = BmPages /\ Cardinality(Page) = LastPage
  BY SpaceAssumption, FS_Interval DEF Page
<1>4. Cardinality(B \cup Reserved) = BmPages + Cardinality(Reserved) - Cardinality(B \cap Reserved)
  BY <1>2, <1>3, FS_Union
<1>5. Cardinality(B \cap Reserved) = 0
  BY <1>1, FS_EmptySet
<1>6. Cardinality(Page \ (B \cup Reserved)) = LastPage - Cardinality(B \cup Reserved)
  <2>1. Page \cap (B \cup Reserved) = B \cup Reserved
    BY <1>1
  <2> HIDE DEF B
  <2>2. Cardinality(Page \ (B \cup Reserved)) = Cardinality(Page) - Cardinality(Page \cap (B \cup Reserved))
    BY <1>2, FS_Difference
  <2>3. QED
    BY <1>3, <2>1, <2>2
<1>7. used = B \cup Reserved /\ freeCount = LastPage - Cardinality(Reserved)
  BY DEF Init, InitUsed, InitFree
<1> HIDE DEF B
<1>8. BmPages \in Int /\ LastPage \in Int
  BY SpaceAssumption
<1>9. freeCount = Cardinality(Page \ (B \cup Reserved)) + BmPages
  BY <1>2, <1>4, <1>5, <1>6, <1>7, <1>8
<1>10. QED
  BY <1>7, <1>9 DEF FreeCountExact

-----------------------------------------------------------------------------
(* The inductive invariant *)

Building == {"launch", "fork", "exec"}

JobType ==
    \/ job = Idle
    \/ job \in [op : Building, t : Task, src : Task, todo : SUBSET Va, start : SUBSET Page]
    \/ /\ job \in [op : {"sbrk"}, t : Task, todo : Nat \ {0}, range : SUBSET Int]
       /\ brk + job.todo <= HeapTop

(* What a call under way has taken since it began is the space it builds   *)
(* and what was lost; outside such a call no space is under construction.  *)
JobPages ==
    IF job.op \in Building
    THEN /\ used = job.start \cup lost \cup Pages(space[New])
         /\ job.start \cap Pages(space[New]) = {}
    ELSE space[New] = NoSpace

(* Mapped pages are data pages of their own space, mapped once.            *)
MappedOwned(m, l) ==
    \A x \in Owners, va \in Va : m[x].pte[va] \in Page => m[x].pte[va] \in m[x].owned \cup l

MappedOnce(m) ==
    \A x, y \in Owners : \A va, vb \in Va :
        (m[x].pte[va] \in Page /\ m[x].pte[va] = m[y].pte[vb]) => x = y /\ va = vb

(* The identity area is mapped by the program that was launched or is      *)
(* being launched, by no other.                                            *)
IdentAt ==
    /\ \A x \in Owners, va \in Va :
         space[x].pte[va] = Ident => \/ x = New /\ job.op = "launch"
                                     \/ x \in Task /\ x = boot
    /\ job.op = "launch" => boot = New

(* What concerns the spaces themselves                                     *)
SpaceInv ==
    /\ used \subseteq Page /\ lost \subseteq Page
    /\ space \in [Owners -> SpaceType]
    /\ Part(used, lost, space) /\ \A x \in Owners : Fine(space[x])
    /\ MappedOwned(space, lost) /\ MappedOnce(space)

MemInv ==
    /\ SpaceInv /\ FreeCountExact
    /\ brk \in Nat /\ boot \in Owners /\ JobType
    /\ JobPages /\ IdentAt

(* A mapped page is in use.                                                *)
LEMMA MappedUsed ==
  ASSUME SpaceInv, NEW x \in Owners, NEW va \in Va, space[x].pte[va] \in Page
  PROVE  space[x].pte[va] \in used
<1>1. space[x].pte[va] \in Pages(space[x]) \cup lost
  BY DEF SpaceInv, MappedOwned, Pages
<1>2. QED
  BY <1>1 DEF SpaceInv, Part

(* A space takes fresh pages and maps at most one of them, at one address. *)
Grows(x, sp, N, L, va, p) ==
    /\ x \in Owners /\ sp \in SpaceType /\ Fine(sp)
    /\ N \subseteq Page \ used /\ L \subseteq N
    /\ Pages(sp) = Pages(space[x]) \cup (N \ L) /\ space[x].owned \subseteq sp.owned
    /\ p \in Page => p \in N /\ p \in sp.owned \cup L
    /\ \A vb \in Va : sp.pte[vb] = space[x].pte[vb] \/ (vb = va /\ sp.pte[vb] = p)
    /\ used' = used \cup N /\ lost' = lost \cup L /\ space' = [space EXCEPT ![x] = sp]

LEMMA Grow ==
  ASSUME SpaceInv, NEW x, NEW sp, NEW N, NEW L, NEW va, NEW p, Grows(x, sp, N, L, va, p)
  PROVE  SpaceInv'
<1> USE DEF Grows
<1>1. used' \subseteq Page /\ lost' \subseteq Page
  BY DEF SpaceInv
<1>2. space' \in [Owners -> SpaceType]
  BY DEF SpaceInv
<1>3. space'[x] = sp /\ \A z \in Owners \ {x} : space'[z] = space[z]
  BY DEF SpaceInv
<1>4. Part(used', lost', space')
  <2>1. Part(used \cup N, lost \cup L, space')
    BY <1>3, PartGrow DEF SpaceInv
  <2>2. QED
    BY <2>1
<1>5. \A z \in Owners : Fine(space'[z])
  BY <1>3 DEF SpaceInv
<1>6. MappedOwned(space', lost')
  <2> SUFFICES ASSUME NEW y \in Owners, NEW vb \in Va, space'[y].pte[vb] \in Page
               PROVE  space'[y].pte[vb] \in space'[y].owned \cup lost'
    BY DEF MappedOwned
  <2>1. CASE y = x
    BY <1>3, <2>1 DEF SpaceInv, MappedOwned
  <2>2. CASE y # x
    BY <1>3, <2>2 DEF SpaceInv, MappedOwned
  <2>3. QED
    BY <2>1, <2>2
<1>7. MappedOnce(space')
  <2>1. \A y \in Owners, vb \in Va :
           /\ space'[y].pte[vb] = space[y].pte[vb] \/ (y = x /\ vb = va /\ space'[y].pte[vb] = p)
           /\ space[y].pte[vb] \in Page => space[y].pte[vb] \in used
    BY <1>3, MappedUsed
  <2>2. p \in Page => p \notin used
    OBVIOUS
  <2>3. QED
    BY <2>1, <2>2 DEF MappedOnce, SpaceInv
<1>8. QED
  BY <1>1, <1>2, <1>4, <1>5, <1>6, <1>7 DEF SpaceInv

(* A space is deleted: ~PagingManager.                                     *)
LEMMA Delete ==
  ASSUME SpaceInv, NEW x \in Owners, used' = used \ Released(space[x]), lost' = lost,
         space' = [space EXCEPT ![x] = NoSpace]
  PROVE  SpaceInv'
<1>1. used' \subseteq Page /\ lost' \subseteq Page
  BY DEF SpaceInv
<1>2. space' \in [Owners -> SpaceType]
  BY NoSpaceFine DEF SpaceInv
<1>3. space'[x] = NoSpace /\ \A z \in Owners \ {x} : space'[z] = space[z]
  BY DEF SpaceInv
<1>4. Part(used', lost', space')
  <2>1. Part(used \ Pages(space[x]), lost, space')
    BY <1>3, NoSpaceFine, PartDrop DEF SpaceInv
  <2>2. QED
    BY <2>1 DEF Released, Pages
<1>5. \A z \in Owners : Fine(space'[z])
  BY <1>3, NoSpaceFine DEF SpaceInv
<1>6. \A z \in Owners, va \in Va : space'[z].pte[va] \in Page => z # x
  BY <1>3, NoSpaceFine, NotPages
<1>7. MappedOwned(space', lost') /\ MappedOnce(space')
  <2>1. MappedOwned(space', lost')
    BY <1>3, <1>6 DEF SpaceInv, MappedOwned
  <2>2. MappedOnce(space')
    BY <1>3, <1>6 DEF SpaceInv, MappedOnce
  <2>3. QED
    BY <2>1, <2>2
<1>8. QED
  BY <1>1, <1>2, <1>4, <1>5, <1>7 DEF SpaceInv

(* The new space replaces the one of task t.                               *)
LEMMA Install ==
  ASSUME SpaceInv, NEW t \in Task, used' = used \ Released(space[t]), lost' = lost,
         space' = [space EXCEPT ![t] = space[New], ![New] = NoSpace]
  PROVE  SpaceInv'
<1>0. t \in Owners /\ New \in Owners /\ t # New
  BY SpaceAssumption DEF Owners
<1>1. used' \subseteq Page /\ lost' \subseteq Page
  BY DEF SpaceInv
<1>2. space' \in [Owners -> SpaceType]
  BY <1>0, NoSpaceFine DEF SpaceInv
<1>3. /\ space'[New] = NoSpace /\ space'[t] = space[New]
      /\ \A z \in Owners \ {t, New} : space'[z] = space[z]
  BY <1>0 DEF SpaceInv
<1>4. Part(used', lost', space')
  <2>1. Part(used \ Pages(space[t]), lost, space')
    BY <1>0, <1>3, NoSpaceFine, PartMove DEF SpaceInv
  <2>2. QED
    BY <2>1 DEF Released, Pages
<1>5. \A z \in Owners : Fine(space'[z])
  BY <1>0, <1>3, NoSpaceFine DEF SpaceInv
<1>6. \A va \in Va : space'[New].pte[va] \notin Page
  BY <1>3, NoSpaceFine, NotPages
<1>7. MappedOwned(space', lost')
  BY <1>0, <1>3, <1>6 DEF SpaceInv, MappedOwned
<1>8. MappedOnce(space')
  <2> SUFFICES ASSUME NEW y \in Owners, NEW z \in Owners, NEW va \in Va, NEW vb \in Va,
                      space'[y].pte[va] \in Page, space'[y].pte[va] = space'[z].pte[vb]
               PROVE  y = z /\ va = vb
    BY DEF MappedOnce
  <2>1. y # New /\ z # New
    BY <1>6
  <2>2. QED
    BY <1>0, <1>3, <2>1 DEF SpaceInv, MappedOnce
<1>9. QED
  BY <1>1, <1>2, <1>4, <1>5, <1>7, <1>8 DEF SpaceInv

-----------------------------------------------------------------------------
(* The steps *)

LEMMA OwnersFacts == Task \subseteq Owners /\ New \in Owners /\ New \notin Task
BY SpaceAssumption DEF Owners

LEMMA JobFacts ==
  ASSUME JobType
  PROVE  /\ job.op \in Building =>
              job \in [op : Building, t : Task, src : Task, todo : SUBSET Va, start : SUBSET Page]
         /\ job.op = "sbrk" =>
              /\ job \in [op : {"sbrk"}, t : Task, todo : Nat \ {0}, range : SUBSET Int]
              /\ brk + job.todo <= HeapTop
         /\ job = Idle => job.op = "none"
         /\ Idle.op = "none"
BY DEF JobType, Idle, Building

(* The beginning of launch, fork and exec: a directory, if there is a page *)
LEMMA StartInv ==
  ASSUME MemInv, job = Idle, NEW op \in Building, NEW t \in Task, NEW src \in Task,
         NEW todo \in SUBSET Va, op = "launch" => boot = New, Start(op, t, src, todo)
  PROVE  MemInv'
<1> DEFINE d == Alloc(used)
           N == {d} \ {NoPage}
<1>1. d \in Page \cup {NoPage} /\ N \subseteq Page \ used
  BY AllocFresh
<1>2. /\ used' = used \cup N /\ lost' = lost /\ Take({d})
      /\ space' = [space EXCEPT ![New] = EmptySpace(d)]
      /\ job' = [op |-> op, t |-> t, src |-> src, todo |-> todo, start |-> used]
      /\ brk' = brk /\ boot' = boot
  BY DEF Start, Take
<1> HIDE DEF d
<1>3. /\ EmptySpace(d) \in SpaceType /\ Fine(EmptySpace(d)) /\ Pages(EmptySpace(d)) = N
      /\ \A va \in Va : EmptySpace(d).pte[va] = NoPage
  BY <1>1, EmptyFine
<1>4. space[New] = NoSpace
  BY JobFacts DEF MemInv, JobPages, Building
<1>5. SpaceInv'
  <2> DEFINE L == {}
             sp == EmptySpace(d)
  <2>1. lost' = lost \cup L /\ L \subseteq N /\ New \in Owners
    BY <1>2, OwnersFacts
  <2>2. Pages(sp) = Pages(space[New]) \cup (N \ L)
    BY <1>3, <1>4, NoSpaceFine
  <2>3. space[New].owned \subseteq sp.owned
    BY <1>4 DEF NoSpace, EmptySpace
  <2>4. \A vb \in Va : sp.pte[vb] = space[New].pte[vb] \/ (vb = New /\ sp.pte[vb] = NoPage)
    BY <1>3, <1>4, NoSpaceFine
  <2>5. NoPage \in Page => NoPage \in N /\ NoPage \in sp.owned \cup L
    BY NotPages
  <2>6. sp \in SpaceType /\ Fine(sp) /\ SpaceInv /\ N \subseteq Page \ used
        /\ used' = used \cup N /\ space' = [space EXCEPT ![New] = sp]
    BY <1>1, <1>2, <1>3 DEF MemInv
  <2> HIDE DEF N, L, sp
  <2>7. Grows(New, sp, N, L, New, NoPage)
    BY <2>1, <2>2, <2>3, <2>4, <2>5, <2>6 DEF Grows
  <2>8. QED
    BY <2>6, <2>7, Grow
<1>6. FreeCountExact'
  BY <1>1, <1>2, CountTake DEF MemInv, SpaceInv
<1>7. space'[New] = EmptySpace(d) /\ \A z \in Owners \ {New} : space'[z] = space[z]
  BY <1>2, OwnersFacts DEF MemInv, SpaceInv
<1>8. JobType'
  BY <1>2 DEF JobType, MemInv, SpaceInv
<1>9. job'.op = op /\ job'.start = used
  BY <1>2
<1>10. JobPages'
  <2>1. lost \subseteq used
    BY DEF MemInv, SpaceInv, Part
  <2>2. QED
    BY <1>1, <1>2, <1>3, <1>7, <1>9, <2>1 DEF JobPages
<1>11. IdentAt'
  <2>1. ASSUME NEW x \in Owners, NEW va \in Va, space'[x].pte[va] = Ident
        PROVE  x \in Task /\ x = boot
    <3>1. x # New
      BY <1>3, <1>7, <2>1, NotPages
    <3>2. QED
      BY <1>7, <2>1, <3>1 DEF MemInv, IdentAt
  <2>2. QED
    BY <1>2, <1>9, <2>1 DEF IdentAt
<1>12. QED
  BY <1>2, <1>5, <1>6, <1>8, <1>10, <1>11 DEF MemInv

LEMMA TableFresh ==
  ASSUME NEW sp, NEW va, NEW u
  PROVE  /\ TableFor(sp, va, u) \in (Page \ u) \cup {NoPage}
         /\ TableFor(sp, va, u) # NoPage => NeedsTable(sp, va)
BY AllocFresh DEF TableFor

LEMMA MapIdentityInv ==
  ASSUME MemInv, MapIdentity
  PROVE  MemInv'
<1> DEFINE va == Lowest(job.todo)
           q == TableFor(space[New], va, used)
           N == {q} \ {NoPage}
           sp == Map(space[New], va, Ident, q)
<1>1. job \in [op : Building, t : Task, src : Task, todo : SUBSET Va, start : SUBSET Page]
      /\ job.op = "launch"
  BY JobFacts DEF MemInv, MapIdentity, Building
<1>2. va \in Va /\ job.todo # {}
  BY <1>1, LowestIn, SpaceAssumption DEF MapIdentity, Va
<1>3. /\ used' = used \cup N /\ lost' = lost /\ Take({q})
      /\ space' = [space EXCEPT ![New] = sp]
      /\ job' = [job EXCEPT !.todo = job.todo \ {va}]
      /\ brk' = brk /\ boot' = boot
  BY <1>1 DEF MapIdentity, Take, MemInv, SpaceInv
<1>4. /\ q \in Page \cup {NoPage} /\ N \subseteq Page \ used
      /\ (q # NoPage => NeedsTable(space[New], va))
  BY TableFresh
<1>5. space[New] \in SpaceType /\ Fine(space[New]) /\ New \in Owners /\ Pages(space[New]) \subseteq used
      /\ Pages(space[New]) \subseteq Page
  BY OwnersFacts DEF MemInv, SpaceInv, Part
<1>6. q \notin Pages(space[New])
  BY <1>4, <1>5, NotPages
<1>7. /\ sp \in SpaceType /\ Fine(sp) /\ Pages(sp) = Pages(space[New]) \cup N
      /\ sp.owned = space[New].owned
      /\ \A vb \in Va : sp.pte[vb] = space[New].pte[vb] \/ (vb = va /\ sp.pte[vb] = Ident)
  <2> HIDE DEF q, va
  <2>1. QED
    BY <1>2, <1>4, <1>5, <1>6, MapFine
<1> HIDE DEF va, q, sp
<1>8. SpaceInv'
  <2> DEFINE L == {}
  <2>1. lost' = lost \cup L /\ L \subseteq N /\ Pages(sp) = Pages(space[New]) \cup (N \ L)
    BY <1>3, <1>7
  <2>2. Ident \in Page => Ident \in N /\ Ident \in sp.owned \cup L
    BY NotPages
  <2>3. SpaceInv /\ space[New].owned \subseteq sp.owned
    BY <1>7 DEF MemInv
  <2> HIDE DEF N, L
  <2>4. Grows(New, sp, N, L, va, Ident)
    BY <1>3, <1>4, <1>5, <1>7, <2>1, <2>2, <2>3 DEF Grows
  <2>5. QED
    BY <2>3, <2>4, Grow
<1>9. FreeCountExact'
  BY <1>3, <1>4, CountTake DEF MemInv, SpaceInv
<1>10. space'[New] = sp /\ \A z \in Owners \ {New} : space'[z] = space[z]
  BY <1>3, <1>5 DEF MemInv, SpaceInv
<1>11. JobType' /\ job'.op = "launch" /\ job'.start = job.start
  BY <1>1, <1>3 DEF JobType
<1>12. JobPages'
  <2>1. /\ used = job.start \cup lost \cup Pages(space[New])
        /\ job.start \cap Pages(space[New]) = {}
    BY <1>1 DEF MemInv, JobPages
  <2>2. QED
    BY <1>3, <1>4, <1>7, <1>10, <1>11, <2>1 DEF JobPages, Building
<1>13. IdentAt'
  BY <1>1, <1>3, <1>10, <1>11 DEF MemInv, IdentAt
<1>14. QED
  BY <1>3, <1>8, <1>9, <1>11, <1>12, <1>13 DEF MemInv

(* One data page of fork, exec or sbrk, with the page table it may need:   *)
(* the loop body all three share                                           *)
TakesPage(x, va) ==
    LET p == Alloc(used)
        q == TableFor(space[x], va, used \cup {p}) IN
    /\ FreePages(used) # {}
    /\ Take({p, q})
    /\ space' = [space EXCEPT ![x] = Track(Map(@, va, p, q), p)]
    /\ lost' = lost \cup Untracked(space[x], p)

LEMMA TakePage ==
  ASSUME SpaceInv, FreeCountExact, NEW x \in Owners, NEW va \in Va, TakesPage(x, va)
  PROVE  /\ SpaceInv' /\ FreeCountExact'
         /\ \A z \in Owners \ {x} : space'[z] = space[z]
         /\ \A vb \in Va : space'[x].pte[vb] = Ident => space[x].pte[vb] = Ident
         /\ used' = used \cup lost' \cup Pages(space'[x])
         /\ Pages(space[x]) \subseteq Pages(space'[x])
         /\ used \cap Pages(space'[x]) = Pages(space[x])
<1> DEFINE p == Alloc(used)
           q == TableFor(space[x], va, used \cup {p})
           N == {p, q} \ {NoPage}
           L == Untracked(space[x], p)
           m == Map(space[x], va, p, q)
           sp == Track(m, p)
<1>1. p \in Page \ used /\ q \in (Page \ (used \cup {p})) \cup {NoPage}
      /\ (q # NoPage => NeedsTable(space[x], va))
  BY AllocFresh, TableFresh DEF TakesPage
<1>2. /\ used' = used \cup N /\ lost' = lost \cup L /\ Take({p, q})
      /\ space' = [space EXCEPT ![x] = sp]
  BY DEF TakesPage, Take
<1>3. /\ space[x] \in SpaceType /\ Fine(space[x]) /\ Pages(space[x]) \subseteq used
      /\ Pages(space[x]) \subseteq Page
  BY DEF SpaceInv, Part
<1>4. q \notin Pages(space[x]) /\ p \notin Pages(space[x]) /\ p # NoPage /\ p # q
  BY <1>1, <1>3, NotPages
<1> HIDE DEF p, q
<1>5. /\ m \in SpaceType /\ Fine(m) /\ Pages(m) = Pages(space[x]) \cup ({q} \ {NoPage})
      /\ m.owned = space[x].owned
      /\ \A vb \in Va : m.pte[vb] = space[x].pte[vb] \/ (vb = va /\ m.pte[vb] = p)
  BY <1>1, <1>3, <1>4, MapFine
<1>6. Untracked(m, p) = L
  BY <1>5 DEF Untracked
<1>7. p \notin Pages(m)
  BY <1>4, <1>5
<1> HIDE DEF m
<1>8. /\ sp \in SpaceType /\ Fine(sp) /\ Pages(sp) = Pages(m) \cup ({p} \ L)
      /\ sp.pte = m.pte /\ sp.owned = m.owned \cup ({p} \ L) /\ L \subseteq {p}
  BY <1>1, <1>5, <1>6, <1>7, TrackFine
<1> HIDE DEF sp, L
<1>9. Pages(sp) = Pages(space[x]) \cup (N \ L) /\ L \subseteq N
  BY <1>4, <1>5, <1>8
<1>10. N \subseteq Page \ used
  BY <1>1
<1>11. p \in N /\ p \in sp.owned \cup L
  BY <1>4, <1>8
<1> HIDE DEF N
<1>12. Grows(x, sp, N, L, va, p)
  BY <1>2, <1>5, <1>8, <1>9, <1>10, <1>11 DEF Grows
<1>13. SpaceInv'
  BY <1>12, Grow
<1>14. FreeCountExact'
  BY <1>2, <1>10, CountTake DEF SpaceInv, N
<1>15. space'[x] = sp /\ \A z \in Owners \ {x} : space'[z] = space[z]
  BY <1>2 DEF SpaceInv
<1>16. \A vb \in Va : space'[x].pte[vb] = Ident => space[x].pte[vb] = Ident
  BY <1>1, <1>5, <1>8, <1>15, NotPages
<1>17. used' = used \cup lost' \cup Pages(space'[x]) /\ Pages(space[x]) \subseteq Pages(space'[x])
  <2>1. lost \subseteq used
    BY DEF SpaceInv, Part
  <2>2. QED
    BY <1>2, <1>3, <1>9, <1>15, <2>1
<1>18. used \cap Pages(space'[x]) = Pages(space[x])
  BY <1>3, <1>9, <1>10, <1>15
<1>19. QED
  BY <1>13, <1>14, <1>15, <1>16, <1>17, <1>18

LEMMA MapPrivateInv ==
  ASSUME MemInv, MapPrivate
  PROVE  MemInv'
<1> DEFINE va == Lowest(job.todo)
<1>1. job \in [op : Building, t : Task, src : Task, todo : SUBSET Va, start : SUBSET Page]
      /\ job.op \in {"fork", "exec"}
  BY JobFacts DEF MemInv, MapPrivate, Building
<1>2. va \in Va
  BY <1>1, LowestIn, SpaceAssumption DEF MapPrivate, Va
<1>3. /\ TakesPage(New, va) /\ job' = [job EXCEPT !.todo = job.todo \ {va}]
      /\ brk' = brk /\ boot' = boot
  BY <1>1 DEF MapPrivate, TakesPage
<1> HIDE DEF va
<1>4. /\ SpaceInv' /\ FreeCountExact'
      /\ \A z \in Owners \ {New} : space'[z] = space[z]
      /\ \A vb \in Va : space'[New].pte[vb] = Ident => space[New].pte[vb] = Ident
      /\ used' = used \cup lost' \cup Pages(space'[New])
      /\ Pages(space[New]) \subseteq Pages(space'[New])
      /\ used \cap Pages(space'[New]) = Pages(space[New])
  BY <1>2, <1>3, TakePage, OwnersFacts DEF MemInv
<1>5. JobType' /\ job'.op = job.op /\ job'.start = job.start
  BY <1>1, <1>3 DEF JobType
<1>6. JobPages'
  <2>1. /\ used = job.start \cup lost \cup Pages(space[New])
        /\ job.start \cap Pages(space[New]) = {} /\ lost \subseteq lost'
    BY <1>1, <1>3 DEF MemInv, JobPages, TakesPage, Building
  <2>2. /\ used' = job.start \cup lost' \cup Pages(space'[New])
        /\ job.start \cap Pages(space'[New]) = {}
    BY <1>4, <2>1
  <2>3. QED
    BY <1>1, <1>5, <2>2 DEF JobPages
<1>7. IdentAt'
  BY <1>1, <1>3, <1>4, <1>5, OwnersFacts DEF MemInv, IdentAt
<1>8. QED
  BY <1>3, <1>4, <1>5, <1>6, <1>7 DEF MemInv

LEMMA SbrkPageInv ==
  ASSUME MemInv, SbrkPage
  PROVE  MemInv'
<1> DEFINE t == job.t
<1>1. /\ job \in [op : {"sbrk"}, t : Task, todo : Nat \ {0}, range : SUBSET Int]
      /\ brk + job.todo <= HeapTop /\ job.op = "sbrk" /\ brk \in Nat
  BY JobFacts DEF MemInv, SbrkPage
<1>2. t \in Task /\ t \in Owners /\ t # New /\ New \in Owners
  BY <1>1, OwnersFacts
<1>3. brk \in Va
  BY <1>1, SpaceAssumption DEF Va
<1>4. /\ TakesPage(t, brk) /\ brk' = brk + 1 /\ boot' = boot
      /\ job' = IF job.todo = 1 THEN Idle ELSE [job EXCEPT !.todo = job.todo - 1]
  <2>1. TakesPage(t, brk)
    BY DEF SbrkPage, TakesPage
  <2>2. job' = IF job.todo = 1 THEN Idle ELSE [job EXCEPT !.todo = job.todo - 1]
    BY <1>1 DEF SbrkPage
  <2>3. QED
    BY <2>1, <2>2 DEF SbrkPage
<1> HIDE DEF t
<1>5. /\ SpaceInv' /\ FreeCountExact'
      /\ \A z \in Owners \ {t} : space'[z] = space[z]
      /\ \A vb \in Va : space'[t].pte[vb] = Ident => space[t].pte[vb] = Ident
  BY <1>2, <1>3, <1>4, TakePage DEF MemInv
<1>6. JobType' /\ job'.op \notin Building
  <2>1. CASE job.todo = 1
    BY <1>4, <2>1 DEF JobType, Idle, Building
  <2>2. CASE job.todo # 1
    <3>1. job' = [job EXCEPT !.todo = job.todo - 1]
      BY <1>4, <2>2
    <3>2. job' \in [op : {"sbrk"}, t : Task, todo : Nat \ {0}, range : SUBSET Int]
      BY <1>1, <2>2, <3>1
    <3>3. job'.todo = job.todo - 1 /\ job'.op = "sbrk"
      BY <1>1, <3>1
    <3>4. brk' + job'.todo <= HeapTop
      BY <1>1, <1>4, <3>3, SpaceAssumption
    <3>5. QED
      BY <3>2, <3>3, <3>4 DEF JobType, Building
  <2>3. QED
    BY <2>1, <2>2
<1>7. JobPages'
  BY <1>1, <1>2, <1>5, <1>6 DEF MemInv, JobPages, Building
<1>8. IdentAt'
  <2>1. job'.op # "launch"
    BY <1>6 DEF Building
  <2>2. QED
    BY <1>1, <1>4, <1>5, <2>1 DEF MemInv, IdentAt
<1>9. brk' \in Nat
  BY <1>1, <1>4
<1>10. QED
  BY <1>4, <1>5, <1>6, <1>7, <1>8, <1>9 DEF MemInv

(* fork or exec gives up.                                                  *)
LEMMA AbandonInv ==
  ASSUME MemInv, Abandon
  PROVE  MemInv'
<1>1. /\ Give(Released(space[New])) /\ used' = used \ Released(space[New]) /\ lost' = lost
      /\ space' = [space EXCEPT ![New] = NoSpace] /\ job' = Idle /\ brk' = brk /\ boot' = boot
  BY DEF Abandon, Give
<1>2. SpaceInv'
  BY <1>1, Delete, OwnersFacts DEF MemInv
<1>3. FreeCountExact'
  BY <1>1, CountGive DEF MemInv, SpaceInv
<1>4. space'[New] = NoSpace /\ \A z \in Owners \ {New} : space'[z] = space[z]
  BY <1>1, OwnersFacts DEF MemInv, SpaceInv
<1>5. JobType' /\ job'.op = "none"
  BY <1>1 DEF JobType, Idle
<1>6. JobPages'
  BY <1>4, <1>5 DEF JobPages, Building
<1>7. IdentAt'
  BY <1>1, <1>4, <1>5, NoSpaceFine, NotPages DEF MemInv, IdentAt
<1>8. QED
  BY <1>1, <1>2, <1>3, <1>5, <1>6, <1>7 DEF MemInv

LEMMA CommitInv ==
  ASSUME MemInv, Commit
  PROVE  MemInv'
<1> DEFINE t == job.t
<1>1. job.op \in Building /\ t \in Task
  BY JobFacts DEF MemInv, Commit, Building
<1>2. t \in Owners /\ New \in Owners /\ t # New
  BY <1>1, OwnersFacts
<1>3. /\ Give(Released(space[t])) /\ used' = used \ Released(space[t]) /\ lost' = lost
      /\ space' = [space EXCEPT ![t] = space[New], ![New] = NoSpace] /\ job' = Idle
      /\ brk' = brk /\ boot' = IF job.op = "launch" THEN t ELSE boot
  BY DEF Commit, Give
<1> HIDE DEF t
<1>4. SpaceInv'
  BY <1>1, <1>3, Install DEF MemInv
<1>5. FreeCountExact'
  BY <1>3, CountGive DEF MemInv, SpaceInv
<1>6. /\ space'[New] = NoSpace /\ space'[t] = space[New]
      /\ \A z \in Owners \ {t, New} : space'[z] = space[z]
  BY <1>2, <1>3 DEF MemInv, SpaceInv
<1>7. JobType' /\ job'.op = "none"
  BY <1>3 DEF JobType, Idle
<1>8. JobPages'
  BY <1>6, <1>7 DEF JobPages, Building
<1>9. IdentAt'
  <2>1. ASSUME NEW x \in Owners, NEW va \in Va, space'[x].pte[va] = Ident
        PROVE  x \in Task /\ x = boot'
    <3>1. x # New
      BY <1>6, <2>1, NoSpaceFine, NotPages
    <3>2. CASE x = t
      <4>1. job.op = "launch"
        BY <1>2, <1>6, <2>1, <3>2, OwnersFacts DEF MemInv, IdentAt
      <4>2. QED
        BY <1>1, <1>3, <3>2, <4>1
    <3>3. CASE x # t
      <4>1. x \in Task /\ x = boot
        BY <1>6, <2>1, <3>1, <3>3 DEF MemInv, IdentAt
      <4>2. job.op # "launch"
        BY <4>1, OwnersFacts DEF MemInv, IdentAt
      <4>3. QED
        BY <1>3, <4>1, <4>2
    <3>4. QED
      BY <3>2, <3>3
  <2>2. QED
    BY <1>7, <2>1 DEF IdentAt
<1>10. boot' \in Owners
  BY <1>2, <1>3 DEF MemInv
<1>11. QED
  BY <1>3, <1>4, <1>5, <1>7, <1>8, <1>9, <1>10 DEF MemInv

LEMMA ExitInv ==
  ASSUME MemInv, NEW t \in Task, Exit(t)
  PROVE  MemInv'
<1>1. t \in Owners /\ t # New /\ New \in Owners
  BY OwnersFacts
<1>2. /\ Give(Released(space[t])) /\ used' = used \ Released(space[t]) /\ lost' = lost
      /\ space' = [space EXCEPT ![t] = NoSpace] /\ job' = job /\ job = Idle
      /\ brk' = brk /\ boot' = IF t = boot THEN New ELSE boot
  BY DEF Exit, Give
<1>3. SpaceInv'
  BY <1>1, <1>2, Delete DEF MemInv
<1>4. FreeCountExact'
  BY <1>2, CountGive DEF MemInv, SpaceInv
<1>5. space'[t] = NoSpace /\ \A z \in Owners \ {t} : space'[z] = space[z]
  BY <1>1, <1>2 DEF MemInv, SpaceInv
<1>6. JobType' /\ job'.op = "none" /\ job.op = "none"
  BY <1>2 DEF JobType, Idle
<1>7. JobPages'
  BY <1>1, <1>5, <1>6 DEF MemInv, JobPages, Building
<1>8. IdentAt'
  BY <1>2, <1>5, <1>6, NoSpaceFine, NotPages DEF MemInv, IdentAt
<1>9. QED
  BY <1>1, <1>2, <1>3, <1>4, <1>6, <1>7, <1>8 DEF MemInv

LEMMA StillInv ==
  ASSUME MemInv, UNCHANGED <<used, freeCount, space, brk, boot, lost>>,
         job' = job \/ (job.op = "sbrk" /\ job' = Idle)
  PROVE  MemInv'
<1>1. SpaceInv' /\ FreeCountExact'
  BY DEF MemInv, SpaceInv, Part, MappedOwned, MappedOnce, FreeCountExact
<1>2. CASE job' = job
  BY <1>1, <1>2 DEF MemInv, JobType, JobPages, IdentAt
<1>3. CASE job.op = "sbrk" /\ job' = Idle
  <2>1. JobType' /\ job'.op = "none"
    BY <1>3 DEF JobType, Idle
  <2>2. JobPages' /\ IdentAt'
    BY <1>3, <2>1 DEF MemInv, JobPages, IdentAt, Building
  <2>3. QED
    BY <1>1, <2>1, <2>2 DEF MemInv
<1>4. QED
  BY <1>2, <1>3

(* A request to sbrk is rounded to its pages, or has wrapped around to none. *)
LEMMA RoundedIs ==
  ASSUME NEW n \in 1 .. MaxSbrk \cup {WordPages}
  PROVE  n \in Nat /\ (Rounded(n) = n \/ Rounded(n) = 0)
<1>1. MaxSbrk \in Nat /\ WordPages \in Nat /\ MaxSbrk < WordPages
  BY SpaceAssumption
<1>2. CASE n = WordPages
  BY <1>1, <1>2 DEF Rounded
<1>3. CASE n # WordPages
  <2>1. n \in Nat /\ n < WordPages
    BY <1>1, <1>3
  <2>2. QED
    BY <1>1, <2>1 DEF Rounded
<1>4. QED
  BY <1>2, <1>3

(* A request that wrapped around changes no page.                          *)
LEMMA WrapInv ==
  ASSUME MemInv, NEW t \in Task, NEW n, Sbrk(t, n), Rounded(n) = 0
  PROVE  MemInv'
<1>1. UNCHANGED <<used, freeCount, space, brk, boot, lost>> /\ job' = job
  BY DEF Sbrk
<1>2. QED
  BY <1>1, StillInv

LEMMA SbrkInv ==
  ASSUME MemInv, NEW t \in Task, NEW n \in Nat, Sbrk(t, n), Rounded(n) = n, n # 0
  PROVE  MemInv'
<1>1. /\ job = Idle /\ brk + n <= HeapTop
      /\ job' = [op |-> "sbrk", t |-> t, todo |-> n, range |-> brk .. (brk + n - 1)]
      /\ UNCHANGED <<used, freeCount, space, brk, boot, lost>>
  BY DEF Sbrk
<1>2. SpaceInv' /\ FreeCountExact'
  BY <1>1 DEF MemInv, SpaceInv, Part, MappedOwned, MappedOnce, FreeCountExact
<1>3. n \in Nat \ {0} /\ brk .. (brk + n - 1) \in SUBSET Int
  BY DEF MemInv
<1>4. JobType' /\ job'.op = "sbrk" /\ job.op = "none"
  BY <1>1, <1>3 DEF JobType, Idle
<1>5. JobPages' /\ IdentAt'
  BY <1>1, <1>4 DEF MemInv, JobPages, IdentAt, Building
<1>6. QED
  BY <1>1, <1>2, <1>4, <1>5 DEF MemInv

-----------------------------------------------------------------------------

LEMMA MemInit == Init => MemInv
<1> SUFFICES ASSUME Init
             PROVE  MemInv
  OBVIOUS
<1>1. /\ used = InitUsed /\ lost = {} /\ space = [x \in Owners |-> NoSpace]
      /\ brk = HeapBase /\ job = Idle /\ boot = New
  BY DEF Init
<1>2. InitUsed \subseteq Page
  BY SpaceAssumption DEF InitUsed, Page
<1>3. \A x \in Owners : space[x] = NoSpace
  BY <1>1
<1>4. Part(used, lost, space)
  BY <1>1, <1>3, NoSpaceFine DEF Part
<1>5. MappedOwned(space, lost) /\ MappedOnce(space)
  BY <1>3, NoSpaceFine, NotPages DEF MappedOwned, MappedOnce
<1>6. SpaceInv
  BY <1>1, <1>2, <1>3, <1>4, <1>5, NoSpaceFine DEF SpaceInv
<1>7. JobType /\ job.op = "none"
  BY <1>1 DEF JobType, Idle
<1>8. JobPages /\ IdentAt
  BY <1>3, <1>7, OwnersFacts, NoSpaceFine, NotPages DEF JobPages, IdentAt, Building
<1>9. QED
  BY <1>1, <1>6, <1>7, <1>8, CountInit, OwnersFacts, SpaceAssumption DEF MemInv

LEMMA MemNext == MemInv /\ [Next]_vars => MemInv'
<1> SUFFICES ASSUME MemInv, [Next]_vars
             PROVE  MemInv'
  OBVIOUS
<1>0. Image \in SUBSET Va
  BY SpaceAssumption DEF Va
<1>1. ASSUME NEW t \in Task, Launch(t)
      PROVE  MemInv'
  BY <1>0, <1>1, StartInv DEF Launch, Building
<1>2. ASSUME NEW t \in Task, Exec(t)
      PROVE  MemInv'
  BY <1>0, <1>2, StartInv DEF Exec, Building
<1>3. ASSUME NEW t \in Task, NEW c \in Task, Fork(t, c)
      PROVE  MemInv'
  <2>1. Copied(space[t]) \in SUBSET Va
    BY DEF Copied, Mapped
  <2>2. QED
    BY <1>3, <2>1, StartInv DEF Fork, Building
<1>4. ASSUME NEW t \in Task, Exit(t)
      PROVE  MemInv'
  BY <1>4, ExitInv
<1>5. ASSUME NEW t \in Task, NEW n \in 1 .. MaxSbrk \cup {WordPages}, Sbrk(t, n)
      PROVE  MemInv'
  <2>1. n \in Nat /\ (Rounded(n) = n \/ Rounded(n) = 0)
    BY RoundedIs
  <2>2. QED
    BY <1>5, <2>1, SbrkInv, WrapInv
<1>6. CASE MapIdentity
  BY <1>6, MapIdentityInv
<1>7. CASE MapPrivate
  BY <1>7, MapPrivateInv
<1>8. CASE OutOfPages \/ ExecUnmapped
  BY <1>8, AbandonInv DEF OutOfPages, ExecUnmapped
<1>9. CASE Commit
  BY <1>9, CommitInv
<1>10. CASE SbrkPage
  BY <1>10, SbrkPageInv
<1>11. CASE SbrkFails
  BY <1>11, StillInv DEF SbrkFails
<1>12. ASSUME NEW t \in Task, Fault(t)
      PROVE  MemInv'
  BY <1>12, StillInv DEF Fault
<1>13. CASE UNCHANGED vars
  BY <1>13, StillInv DEF vars
<1>14. QED
  BY <1>1, <1>2, <1>3, <1>4, <1>5, <1>6, <1>7, <1>8, <1>9, <1>10, <1>11, <1>12, <1>13 DEF Next

LEMMA MemAlways == Spec => []MemInv
BY MemInit, MemNext, PTL DEF Spec

(* No page is freed twice or under a user, none is in two uses and none    *)
(* leaks unless track_owned dropped it: over every order of launch, fork,  *)
(* exec, sbrk and exit, failing at any page, for any sizes.                *)
THEOREM PagesPartitioned == Spec => []PagePartition
<1>1. MemInv => PagePartition
  BY PartIs DEF MemInv, SpaceInv
<1>2. QED
  BY <1>1, MemAlways, PTL

(* free_count is exact, but for the pages of the bitmap.                   *)
THEOREM FreeCountAlwaysExact == Spec => []FreeCountExact
<1>1. MemInv => FreeCountExact
  BY DEF MemInv
<1>2. QED
  BY <1>1, MemAlways, PTL

(* No page is mapped in two programs, or twice in one, and none that is a  *)
(* page table or a directory: fork copies, exec replaces and sbrk extends  *)
(* without ever sharing.                                                   *)
THEOREM ProgramsIsolated == Spec => []PrivatePages
<1>1. MemInv => PrivatePages
  <2> SUFFICES ASSUME MemInv, NEW x \in Owners, NEW y \in Owners,
                      NEW va \in Mapped(space[x]), NEW vb \in Mapped(space[y])
               PROVE  LET p == space[x].pte[va] IN
                      /\ p = Ident \/ p \in space[x].owned \cup lost
                      /\ p = space[y].pte[vb] => x = y /\ (p # Ident => va = vb)
    BY DEF PrivatePages
  <2>1. va \in Va /\ vb \in Va /\ space[x].pte[va] \in Page \cup {Ident}
    <3>1. space[x].pte \in [Va -> Page \cup {NoPage, Ident}]
      BY DEF MemInv, SpaceInv, SpaceType
    <3>2. QED
      BY <3>1 DEF Mapped
  <2>2. space[x].pte[va] = Ident \/ space[x].pte[va] \in space[x].owned \cup lost
    BY <2>1 DEF MemInv, SpaceInv, MappedOwned
  <2>3. ASSUME space[x].pte[va] = space[y].pte[vb]
        PROVE  x = y /\ (space[x].pte[va] # Ident => va = vb)
    <3>1. CASE space[x].pte[va] \in Page
      BY <2>1, <2>3, <3>1 DEF MemInv, SpaceInv, MappedOnce
    <3>2. CASE space[x].pte[va] = Ident
      <4>1. /\ (x = New /\ job.op = "launch") \/ (x \in Task /\ x = boot)
            /\ (y = New /\ job.op = "launch") \/ (y \in Task /\ y = boot)
            /\ job.op = "launch" => boot = New
        BY <2>1, <2>3, <3>2 DEF MemInv, IdentAt
      <4>2. x = y
        BY <4>1, OwnersFacts
      <4>3. QED
        BY <3>2, <4>2
    <3>3. QED
      BY <2>1, <3>1, <3>2
  <2>4. QED
    BY <2>2, <2>3
<1>2. QED
  BY <1>1, MemAlways, PTL

(* A fork or exec that fails gives back every page it took, but for those  *)
(* track_owned dropped.                                                    *)
THEOREM FailureRestores == Spec => FailRestores
<1> DEFINE A == (job.op \in {"fork", "exec"} /\ job' = Idle /\ \A t \in Task : space'[t] = space[t])
                 => used' = job.start \cup lost'
<1>1. MemInv /\ [Next]_vars => [A]_vars
  <2> SUFFICES ASSUME MemInv, Next, job.op \in {"fork", "exec"}, job' = Idle,
                      \A t \in Task : space'[t] = space[t]
               PROVE  used' = job.start \cup lost'
    OBVIOUS
  <2>1. /\ used = job.start \cup lost \cup Pages(space[New])
        /\ job.start \cap Pages(space[New]) = {} /\ lost \cap Pages(space[New]) = {}
    BY OwnersFacts DEF MemInv, JobPages, Building, SpaceInv, Part
  <2>2. job # Idle /\ Idle.op = "none" /\ job.op # "none"
    BY DEF Idle
  <2>3. CASE OutOfPages \/ ExecUnmapped
    BY <2>1, <2>3 DEF OutOfPages, ExecUnmapped, Abandon, Give, Released, Pages
  <2>4. CASE Commit
    <3> DEFINE t == job.t
    <3>1. t \in Task /\ t \in Owners /\ t # New /\ New \in Owners
      BY JobFacts, OwnersFacts DEF MemInv, Building
    <3>2. used' = used \ Pages(space[t]) /\ lost' = lost
          /\ space' = [space EXCEPT ![t] = space[New], ![New] = NoSpace]
      BY <2>4 DEF Commit, Give, Released, Pages
    <3> HIDE DEF t
    <3>3. space'[t] = space[New]
      BY <3>1, <3>2 DEF MemInv, SpaceInv
    <3>4. space[t] = space[New]
      BY <3>1, <3>3
    <3>5. Pages(space[t]) \cap Pages(space[New]) = {}
      BY <3>1 DEF MemInv, SpaceInv, Part
    <3>6. Pages(space[t]) = {} /\ Pages(space[New]) = {}
      BY <3>4, <3>5
    <3>7. QED
      BY <2>1, <3>2, <3>6
  <2>5. CASE MapIdentity \/ MapPrivate
    <3>1. job'.op = job.op
      <4>1. job \in [op : Building, t : Task, src : Task, todo : SUBSET Va, start : SUBSET Page]
        BY JobFacts DEF MemInv, Building
      <4>2. QED
        BY <2>5, <4>1 DEF MapIdentity, MapPrivate
    <3>2. QED
      BY <2>2, <3>1
  <2>6. QED
    BY <2>2, <2>3, <2>4, <2>5
       DEF Next, Launch, Exec, Exit, Fault, Fork, Sbrk, SbrkPage, SbrkFails
<1>2. QED
  BY <1>1, MemAlways, PTL DEF Spec, FailRestores

-----------------------------------------------------------------------------
(* What programs were told *)

TellType ==
    /\ how \in [Task -> {"none"} \cup Building]
    /\ view \in [Task -> SUBSET Int] /\ silent \in BOOLEAN

(* What a call under way still has to map is all that is missing.          *)
ToldPlan ==
    ~silent =>
      /\ \A t \in Task \ wrapped : view[t] \subseteq Mapped(space[t])
      /\ job.op \in {"launch", "exec"} => Image \subseteq Mapped(space[New]) \cup job.todo
      /\ job.op = "fork" /\ job.src \notin wrapped =>
           view[job.src] \subseteq Mapped(space[New]) \cup job.todo
      /\ job.op = "sbrk" =>
           \A v \in job.range : v \in Mapped(space[job.t]) \/ (brk <= v /\ v < brk + job.todo)

(* A fork or exec without a directory cannot map its first page.           *)
DirPlan ==
    (job.op \in {"fork", "exec"} /\ space[New].dir = NoPage)
       => FreePages(used) = {} /\ job.todo # {}

(* An exec that went without a page table had taken the last page, so it   *)
(* fails at the next address, or at the look-up of the last one.           *)
ExecPlan ==
    job.op = "exec" =>
      /\ \A v \in job.todo, w \in Image : v <= w => w \in job.todo
      /\ job.todo \subseteq Image \ Mapped(space[New])
      /\ \/ Image \ job.todo \subseteq Mapped(space[New])
         \/ FreePages(used) = {} /\ (job.todo # {} \/ ~Verified(space[New]))

TellPart == TellType /\ ToldPlan /\ NeverOnPageZero /\ DirPlan /\ ExecPlan

TellInv == MemInv /\ TellPart

(* map_page maps the address or, without a page table, nothing.            *)
LEMMA MapMaps ==
  ASSUME NEW sp \in SpaceType, NEW va \in Va, NEW p \in Page \cup {Ident},
         NEW q \in Page \cup {NoPage}
  PROVE  /\ Map(sp, va, p, q).dir = sp.dir
         /\ Mapped(Map(sp, va, p, q)) = Mapped(sp) \cup (IF Skips(sp, va, q) THEN {} ELSE {va})
<1> DEFINE m == Map(sp, va, p, q)
<1>1. CASE Skips(sp, va, q)
  BY <1>1 DEF Map, Skips
<1>2. CASE ~Skips(sp, va, q)
  <2>1. m = [sp EXCEPT !.pte[va] = p] \/ m = [sp EXCEPT !.tab[va \div PtSize] = q, !.pte[va] = p]
    BY <1>2 DEF Map, Skips
  <2>2. m.dir = sp.dir /\ m.pte = [sp.pte EXCEPT ![va] = p]
    BY <2>1 DEF SpaceType
  <2>3. \A vb \in Va : m.pte[vb] = IF vb = va THEN p ELSE sp.pte[vb]
    BY <2>2 DEF SpaceType
  <2>4. p # NoPage
    BY NotPages
  <2> HIDE DEF m
  <2>5. Mapped(m) = Mapped(sp) \cup {va}
    BY <2>3, <2>4 DEF Mapped
  <2>6. QED
    BY <1>2, <2>2, <2>5 DEF m
<1>3. QED
  BY <1>1, <1>2

(* One page of fork, exec or sbrk                                          *)
TableOf(x, va) == TableFor(space[x], va, used \cup {Alloc(used)})

LEMMA TakePageMaps ==
  ASSUME SpaceInv, NEW x \in Owners, NEW va \in Va, TakesPage(x, va)
  PROVE  /\ space'[x].dir = space[x].dir
         /\ Mapped(space'[x]) =
              Mapped(space[x]) \cup (IF Skips(space[x], va, TableOf(x, va)) THEN {} ELSE {va})
         /\ Skips(space[x], va, TableOf(x, va)) => FreePages(used') = {}
         /\ \A z \in Owners \ {x} : space'[z] = space[z]
<1> DEFINE p == Alloc(used)
           q == TableOf(x, va)
           m == Map(space[x], va, p, q)
<1>1. p \in Page \ used /\ q \in Page \cup {NoPage}
  BY AllocFresh, TableFresh DEF TakesPage, TableOf
<1>2. space[x] \in SpaceType
  BY DEF SpaceInv
<1>3. space' = [space EXCEPT ![x] = Track(m, p)] /\ used' = used \cup ({p, q} \ {NoPage})
  BY DEF TakesPage, Take, TableOf
<1>4. /\ m.dir = space[x].dir
      /\ Mapped(m) = Mapped(space[x]) \cup (IF Skips(space[x], va, q) THEN {} ELSE {va})
  BY <1>1, <1>2, MapMaps
<1>5. /\ space'[x] = Track(m, p)
      /\ \A z \in Owners \ {x} : space'[z] = space[z]
  BY <1>3 DEF SpaceInv
<1> HIDE DEF m, p, q
<1>6. Track(m, p).dir = m.dir /\ Track(m, p).pte = m.pte
  BY DEF Track
<1>7. Mapped(Track(m, p)) = Mapped(m)
  BY <1>6 DEF Mapped
<1>8. ASSUME Skips(space[x], va, q)
      PROVE  FreePages(used') = {}
  <2>1. NeedsTable(space[x], va) /\ q = NoPage
    BY <1>8 DEF Skips
  <2>2. Alloc(used \cup {p}) = NoPage
    BY <2>1 DEF TableOf, TableFor, p, q
  <2>3. FreePages(used \cup {p}) = {}
    BY <2>2, AllocFresh, NotPages
  <2>4. used \cup {p} \subseteq used'
    BY <1>1, <1>3, NotPages
  <2>5. QED
    BY <2>3, <2>4 DEF FreePages
<1>9. QED
  BY <1>4, <1>5, <1>6, <1>7, <1>8 DEF q

LEMMA NoSpaceMaps ==
  ASSUME NEW d
  PROVE  Mapped(EmptySpace(d)) = {} /\ EmptySpace(d).dir = d
BY DEF Mapped, EmptySpace

-----------------------------------------------------------------------------
(* The beginning of launch, fork and exec                                  *)
LEMMA StartTell ==
  ASSUME TellInv, NEW op \in Building, NEW t \in Task, NEW src \in Task,
         NEW todo \in SUBSET Va, todo # {}, op \in {"launch", "exec"} => todo = Image,
         op = "fork" => todo = Mapped(space[src]), Start(op, t, src, todo)
  PROVE  TellPart'
<1> DEFINE d == Alloc(used)
<1>1. /\ space' = [space EXCEPT ![New] = EmptySpace(d)]
      /\ job' = [op |-> op, t |-> t, src |-> src, todo |-> todo, start |-> used]
      /\ used' = used \cup ({d} \ {NoPage})
      /\ UNCHANGED <<brk, how, view, silent, wrapped>>
  BY DEF Start, Take
<1>2. d = NoPage => FreePages(used) = {} /\ used' = used
  BY <1>1, AllocFresh, NotPages
<1> HIDE DEF d
<1>3. /\ Mapped(space'[New]) = {} /\ space'[New].dir = d
      /\ \A z \in Task : space'[z] = space[z]
  BY <1>1, NoSpaceMaps, OwnersFacts DEF TellInv, MemInv, SpaceInv
<1>4. job'.op = op /\ job'.todo = todo /\ job'.src = src
  BY <1>1
<1>5. TellType' /\ NeverOnPageZero'
  BY <1>1, <1>3 DEF TellInv, TellPart, TellType, NeverOnPageZero, Alive
<1>6. ToldPlan'
  BY <1>1, <1>3, <1>4 DEF TellInv, TellPart, ToldPlan, Building
<1>7. DirPlan'
  BY <1>2, <1>3, <1>4 DEF DirPlan
<1>8. ExecPlan'
  BY <1>3, <1>4 DEF ExecPlan
<1>9. QED
  BY <1>5, <1>6, <1>7, <1>8 DEF TellPart

LEMMA MapIdentityTell ==
  ASSUME TellInv, MapIdentity
  PROVE  TellPart'
<1> DEFINE va == Lowest(job.todo)
           q == TableFor(space[New], va, used)
<1>1. job \in [op : Building, t : Task, src : Task, todo : SUBSET Va, start : SUBSET Page]
      /\ job.op = "launch"
  BY JobFacts DEF TellInv, MemInv, MapIdentity, Building
<1>2. va \in Va
  BY <1>1, LowestIn, SpaceAssumption DEF MapIdentity, Va
<1>3. /\ space' = [space EXCEPT ![New] = Map(space[New], va, Ident, q)]
      /\ job' = [job EXCEPT !.todo = job.todo \ {va}]
      /\ silent' = (silent \/ Skips(space[New], va, q))
      /\ UNCHANGED <<brk, how, view, wrapped>>
  BY <1>1 DEF MapIdentity, TellInv, MemInv, SpaceInv
<1>4. q \in Page \cup {NoPage}
  BY TableFresh
<1>5. space[New] \in SpaceType
  BY OwnersFacts DEF TellInv, MemInv, SpaceInv
<1> HIDE DEF va, q
<1>6. /\ Mapped(space'[New]) =
           Mapped(space[New]) \cup (IF Skips(space[New], va, q) THEN {} ELSE {va})
      /\ \A z \in Task : space'[z] = space[z]
  <2>1. Mapped(Map(space[New], va, Ident, q)) =
           Mapped(space[New]) \cup (IF Skips(space[New], va, q) THEN {} ELSE {va})
    BY <1>2, <1>4, <1>5, MapMaps
  <2>2. /\ space'[New] = Map(space[New], va, Ident, q)
        /\ \A z \in Task : space'[z] = space[z]
    BY <1>3, OwnersFacts DEF TellInv, MemInv, SpaceInv
  <2>3. QED
    BY <2>1, <2>2
<1>7. job'.op = "launch" /\ job'.todo = job.todo \ {va}
  BY <1>1, <1>3
<1>8. TellType' /\ NeverOnPageZero'
  BY <1>3, <1>6 DEF TellInv, TellPart, TellType, NeverOnPageZero, Alive
<1>9. ToldPlan'
  BY <1>1, <1>3, <1>6, <1>7 DEF TellInv, TellPart, ToldPlan
<1>10. QED
  BY <1>7, <1>8, <1>9 DEF TellPart, DirPlan, ExecPlan

(* The look-up of the last address                                         *)
LEMMA LastLooked ==
  ASSUME NEW sp, NEW v \in Image, \A w \in Image : w <= v, v \notin Mapped(sp)
  PROVE  ~Verified(sp)
<1> DEFINE h == CHOOSE x \in Image : \A y \in Image : y <= x
<1>1. Image \subseteq Int
  BY SpaceAssumption
<1>2. h \in Image /\ \A y \in Image : y <= h
  OBVIOUS
<1> HIDE DEF h
<1>3. h <= v /\ v <= h /\ h \in Int /\ v \in Int
  BY <1>1, <1>2
<1>4. h = v
  BY <1>3
<1>5. QED
  BY <1>4 DEF Verified, h

LEMMA MapPrivateTell ==
  ASSUME TellInv, MapPrivate
  PROVE  TellPart'
<1> DEFINE va == Lowest(job.todo)
           skip == Skips(space[New], va, TableOf(New, va))
<1>1. job \in [op : Building, t : Task, src : Task, todo : SUBSET Va, start : SUBSET Page]
      /\ job.op \in {"fork", "exec"} /\ FreePages(used) # {}
  BY JobFacts DEF TellInv, MemInv, MapPrivate, Building
<1>2. va \in Va /\ va \in job.todo
  BY <1>1, LowestIn, SpaceAssumption DEF MapPrivate, Va
<1>3. /\ TakesPage(New, va) /\ job' = [job EXCEPT !.todo = job.todo \ {va}]
      /\ silent' = (silent \/ skip)
      /\ UNCHANGED <<brk, how, view, wrapped>>
  BY <1>1 DEF MapPrivate, TakesPage, TableOf
<1> HIDE DEF va
<1>4. /\ space'[New].dir = space[New].dir
      /\ Mapped(space'[New]) = Mapped(space[New]) \cup (IF skip THEN {} ELSE {va})
      /\ skip => FreePages(used') = {}
      /\ \A z \in Task : space'[z] = space[z]
  BY <1>2, <1>3, TakePageMaps, OwnersFacts DEF TellInv, MemInv
<1> HIDE DEF skip
<1>5. job'.op = job.op /\ job'.todo = job.todo \ {va} /\ job'.src = job.src
  BY <1>1, <1>3
<1>6. TellType' /\ NeverOnPageZero'
  BY <1>3, <1>4 DEF TellInv, TellPart, TellType, NeverOnPageZero, Alive, skip, Skips, NeedsTable
<1>7. ToldPlan'
  BY <1>1, <1>3, <1>4, <1>5 DEF TellInv, TellPart, ToldPlan
<1>8. DirPlan'
  BY <1>1, <1>4, <1>5 DEF TellInv, TellPart, DirPlan
<1>9. ASSUME job.op = "exec"
      PROVE  /\ \A v \in job'.todo, w \in Image : v <= w => w \in job'.todo
             /\ job'.todo \subseteq Image \ Mapped(space'[New])
             /\ \/ Image \ job'.todo \subseteq Mapped(space'[New])
                \/ FreePages(used') = {} /\ (job'.todo # {} \/ ~Verified(space'[New]))
  <2>1. /\ \A v \in job.todo, w \in Image : v <= w => w \in job.todo
        /\ job.todo \subseteq Image \ Mapped(space[New])
        /\ Image \ job.todo \subseteq Mapped(space[New])
    BY <1>1, <1>9 DEF TellInv, TellPart, ExecPlan
  <2>2. \A v \in job.todo : va <= v
    <3>1. job.todo \subseteq Nat /\ job.todo # {}
      BY <1>1, <1>2, SpaceAssumption DEF Va
    <3>2. \A v \in job.todo : Lowest(job.todo) <= v
      BY <3>1, LowestLeast
    <3>3. QED
      BY <3>2 DEF va
  <2>3. Image \subseteq Int
    BY SpaceAssumption
  <2>4. \A v \in job'.todo, w \in Image : v <= w => w \in job'.todo
    <3> SUFFICES ASSUME NEW v \in job'.todo, NEW w \in Image, v <= w
                 PROVE  w \in job'.todo
      OBVIOUS
    <3>1. v \in job.todo /\ v # va /\ va <= v /\ w \in job.todo
      BY <1>5, <2>1, <2>2
    <3>2. v \in Int /\ w \in Int /\ va \in Int
      BY <1>2, <2>1, <2>3, <3>1
    <3>3. w # va
      BY <3>1, <3>2
    <3>4. QED
      BY <1>5, <3>1, <3>3
  <2>5. job'.todo \subseteq Image \ Mapped(space'[New])
    BY <1>4, <1>5, <2>1
  <2>6. CASE ~skip
    BY <1>4, <1>5, <2>1, <2>4, <2>5, <2>6
  <2>7. CASE skip /\ job'.todo # {}
    BY <1>4, <2>4, <2>5, <2>7
  <2>8. CASE skip /\ job'.todo = {}
    <3>1. job.todo = {va} /\ va \in Image
      BY <1>2, <1>5, <2>1, <2>8
    <3>2. ASSUME NEW w \in Image
          PROVE  w <= va
      <4>1. w \in Int /\ va \in Int
        BY <2>3, <3>1
      <4>2. va <= w => w = va
        BY <2>1, <3>1
      <4>3. QED
        BY <4>1, <4>2
    <3>3. va \notin Mapped(space'[New])
      BY <1>4, <2>1, <2>8, <3>1
    <3>4. ~Verified(space'[New])
      BY <3>1, <3>2, <3>3, LastLooked
    <3>5. QED
      BY <1>4, <2>4, <2>5, <2>8, <3>4
  <2>9. QED
    BY <2>6, <2>7, <2>8
<1>10. ExecPlan'
  <2>1. CASE job.op = "exec"
    BY <1>5, <1>9, <2>1 DEF ExecPlan, Verified
  <2>2. CASE job.op # "exec"
    BY <1>5, <2>2 DEF ExecPlan
  <2>3. QED
    BY <2>1, <2>2
<1>11. QED
  BY <1>6, <1>7, <1>8, <1>10 DEF TellPart

(* A step after which no call is under way, and that changes no task       *)
LEMMA EndTell ==
  ASSUME TellInv, job'.op = "none", UNCHANGED <<how, view, silent, wrapped>>,
         \A z \in Task : space'[z] = space[z]
  PROVE  TellPart'
<1>1. TellType' /\ NeverOnPageZero'
  BY DEF TellInv, TellPart, TellType, NeverOnPageZero, Alive
<1>2. ToldPlan'
  BY DEF TellInv, TellPart, ToldPlan
<1>3. QED
  BY <1>1, <1>2 DEF TellPart, DirPlan, ExecPlan

LEMMA AbandonTell ==
  ASSUME TellInv, Abandon
  PROVE  TellPart'
<1>1. job'.op = "none" /\ UNCHANGED <<how, view, silent, wrapped>>
  BY DEF Abandon, Idle
<1>2. \A z \in Task : space'[z] = space[z]
  BY OwnersFacts DEF Abandon, TellInv, MemInv, SpaceInv
<1>3. QED
  BY <1>1, <1>2, EndTell

LEMMA CommitTell ==
  ASSUME TellInv, Commit
  PROVE  TellPart'
<1> DEFINE t == job.t
           told == IF job.op = "fork" THEN view[job.src] ELSE Image
<1>1. /\ t \in Task /\ t \in Owners /\ t # New /\ New \in Owners
      /\ job.op \in Building /\ job.src \in Task /\ job.todo = {}
      /\ job.op = "exec" => Verified(space[New])
  BY JobFacts, OwnersFacts DEF TellInv, MemInv, Commit, Building
<1>2. /\ space' = [space EXCEPT ![t] = space[New], ![New] = NoSpace]
      /\ how' = [how EXCEPT ![t] = job.op] /\ view' = [view EXCEPT ![t] = told]
      /\ wrapped' = IF job.op = "fork" /\ job.src \in wrapped THEN wrapped \cup {t} ELSE wrapped \ {t}
      /\ silent' = silent /\ job'.op = "none"
  BY DEF Commit, Idle
<1> HIDE DEF t
<1>3. /\ space'[t] = space[New] /\ how'[t] = job.op /\ view'[t] = told
      /\ \A z \in Task : z # t => space'[z] = space[z] /\ how'[z] = how[z] /\ view'[z] = view[z]
  BY <1>1, <1>2, OwnersFacts DEF TellInv, MemInv, SpaceInv, TellPart, TellType
<1>4. told \in SUBSET Int
  BY <1>1, SpaceAssumption DEF TellInv, TellPart, TellType
<1>5. TellType'
  BY <1>1, <1>2, <1>4 DEF TellInv, TellPart, TellType
<1>6. ASSUME ~silent, t \notin wrapped'
      PROVE  told \subseteq Mapped(space[New])
  <2>1. job.op = "fork" => job.src \notin wrapped
    BY <1>2, <1>6
  <2>2. QED
    BY <1>1, <1>6, <2>1 DEF TellInv, TellPart, ToldPlan, Building
<1> HIDE DEF told
<1>7. ToldPlan'
  <2> SUFFICES ASSUME ~silent', NEW z \in Task, z \notin wrapped'
               PROVE  view'[z] \subseteq Mapped(space'[z])
    BY <1>2 DEF ToldPlan
  <2>1. CASE z = t
    BY <1>2, <1>3, <1>6, <2>1
  <2>2. CASE z # t
    BY <1>2, <1>3, <2>2 DEF TellInv, TellPart, ToldPlan
  <2>3. QED
    BY <2>1, <2>2
<1>8. /\ job.op # "launch" => space[New].dir # NoPage
      /\ job.op = "exec" => Image \subseteq Mapped(space[New])
  BY <1>1 DEF TellInv, TellPart, DirPlan, ExecPlan, Building
<1>9. NeverOnPageZero'
  <2> SUFFICES ASSUME NEW z \in Task, how'[z] # "none"
               PROVE  /\ how'[z] # "launch" => space'[z].dir # NoPage
                      /\ how'[z] = "exec" => Image \subseteq Mapped(space'[z])
    BY DEF NeverOnPageZero, Alive
  <2>1. CASE z = t
    BY <1>3, <1>8, <2>1
  <2>2. CASE z # t
    BY <1>3, <2>2 DEF TellInv, TellPart, NeverOnPageZero, Alive
  <2>3. QED
    BY <2>1, <2>2
<1>10. QED
  BY <1>2, <1>5, <1>7, <1>9 DEF TellPart, DirPlan, ExecPlan

LEMMA ExitTell ==
  ASSUME TellInv, NEW t \in Task, Exit(t)
  PROVE  TellPart'
<1>1. /\ space' = [space EXCEPT ![t] = NoSpace] /\ how' = [how EXCEPT ![t] = "none"]
      /\ view' = [view EXCEPT ![t] = {}] /\ silent' = silent /\ job'.op = "none"
      /\ wrapped' = wrapped \ {t}
  BY DEF Exit, Idle
<1>2. /\ how'[t] = "none" /\ view'[t] = {}
      /\ \A z \in Task : z # t => space'[z] = space[z] /\ how'[z] = how[z] /\ view'[z] = view[z]
  BY <1>1, OwnersFacts DEF TellInv, MemInv, SpaceInv, TellPart, TellType
<1>3. TellType'
  BY <1>1 DEF TellInv, TellPart, TellType
<1>4. ToldPlan'
  BY <1>1, <1>2 DEF TellInv, TellPart, ToldPlan
<1>5. NeverOnPageZero'
  BY <1>2 DEF TellInv, TellPart, NeverOnPageZero, Alive
<1>6. QED
  BY <1>1, <1>3, <1>4, <1>5 DEF TellPart, DirPlan, ExecPlan

(* A program whose request wrapped around was told of too much.            *)
LEMMA WrapTell ==
  ASSUME TellInv, NEW t \in Task, NEW n, Sbrk(t, n), Rounded(n) = 0
  PROVE  TellPart'
<1>1. /\ job' = job /\ job = Idle /\ UNCHANGED <<used, space, brk, how, silent>>
      /\ view' = [view EXCEPT ![t] = @ \cup 0 .. (WordPages - 1)] /\ wrapped' = wrapped \cup {t}
  BY DEF Sbrk
<1>2. 0 .. (WordPages - 1) \in SUBSET Int
  BY SpaceAssumption
<1>3. \A z \in Task : z # t => view'[z] = view[z]
  BY <1>1 DEF TellInv, TellPart, TellType
<1>4. TellType' /\ NeverOnPageZero'
  BY <1>1, <1>2 DEF TellInv, TellPart, TellType, NeverOnPageZero, Alive
<1>5. job'.op = "none"
  BY <1>1 DEF Idle
<1>6. ToldPlan'
  BY <1>1, <1>3, <1>5 DEF TellInv, TellPart, ToldPlan
<1>7. QED
  BY <1>4, <1>5, <1>6 DEF TellPart, DirPlan, ExecPlan

LEMMA SbrkTell ==
  ASSUME TellInv, NEW t \in Task, NEW n \in Nat, Sbrk(t, n), Rounded(n) = n, n # 0
  PROVE  TellPart'
<1>1. /\ job' = [op |-> "sbrk", t |-> t, todo |-> n, range |-> brk .. (brk + n - 1)]
      /\ UNCHANGED <<space, brk, how, view, silent, wrapped>>
  BY DEF Sbrk
<1>2. job'.op = "sbrk" /\ job'.t = t /\ job'.todo = n /\ job'.range = brk .. (brk + n - 1)
  BY <1>1
<1>3. \A v \in job'.range : brk <= v /\ v < brk + n
  <2>1. brk \in Int /\ n \in Int
    BY SpaceAssumption DEF TellInv, MemInv
  <2>2. QED
    BY <1>2, <2>1
<1>4. TellType' /\ NeverOnPageZero'
  BY <1>1 DEF TellInv, TellPart, TellType, NeverOnPageZero, Alive
<1>5. ToldPlan'
  BY <1>1, <1>2, <1>3 DEF TellInv, TellPart, ToldPlan
<1>6. QED
  BY <1>2, <1>4, <1>5 DEF TellPart, DirPlan, ExecPlan

(* sbrk tells the program of its range with the last page.                 *)
LEMMA SbrkPageTell ==
  ASSUME TellInv, SbrkPage
  PROVE  TellPart'
<1> DEFINE t == job.t
           skip == Skips(space[t], brk, TableOf(t, brk))
<1>1. /\ job \in [op : {"sbrk"}, t : Task, todo : Nat \ {0}, range : SUBSET Int]
      /\ brk + job.todo <= HeapTop /\ job.op = "sbrk" /\ brk \in Nat
  BY JobFacts DEF TellInv, MemInv, SbrkPage
<1>2. t \in Task /\ t \in Owners /\ brk \in Va
  BY <1>1, OwnersFacts, SpaceAssumption DEF Va
<1>3. /\ TakesPage(t, brk) /\ silent' = (silent \/ skip)
      /\ brk' = brk + 1 /\ how' = how /\ wrapped' = wrapped
      /\ IF job.todo = 1
         THEN view' = [view EXCEPT ![t] = @ \cup job.range] /\ job' = Idle
         ELSE job' = [job EXCEPT !.todo = job.todo - 1] /\ view' = view
  BY <1>1 DEF SbrkPage, TakesPage, TableOf
<1>4. /\ space'[t].dir = space[t].dir
      /\ Mapped(space'[t]) = Mapped(space[t]) \cup (IF skip THEN {} ELSE {brk})
      /\ \A z \in Task : z # t => space'[z] = space[z]
  BY <1>2, <1>3, TakePageMaps, OwnersFacts DEF TellInv, MemInv
<1>5. skip \in BOOLEAN
  BY DEF skip, Skips, NeedsTable
<1> HIDE DEF t, skip
<1>6. how' \in [Task -> {"none"} \cup Building] /\ silent' \in BOOLEAN
  BY <1>3, <1>5 DEF TellInv, TellPart, TellType
<1>7. view' \in [Task -> SUBSET Int]
  <2>1. view \in [Task -> SUBSET Int] /\ job.range \subseteq Int
    BY <1>1 DEF TellInv, TellPart, TellType
  <2>2. QED
    BY <1>2, <1>3, <2>1
<1>8. NeverOnPageZero'
  <2> SUFFICES ASSUME NEW z \in Task, how'[z] # "none"
               PROVE  /\ how'[z] # "launch" => space'[z].dir # NoPage
                      /\ how'[z] = "exec" => Image \subseteq Mapped(space'[z])
    BY DEF NeverOnPageZero, Alive
  <2>1. /\ how[z] # "launch" => space[z].dir # NoPage
        /\ how[z] = "exec" => Image \subseteq Mapped(space[z])
    BY <1>3 DEF TellInv, TellPart, NeverOnPageZero, Alive
  <2>2. QED
    BY <1>3, <1>4, <2>1
<1>9. ASSUME ~silent'
      PROVE  /\ \A z \in Task \ wrapped : view[z] \subseteq Mapped(space'[z])
             /\ \A v \in job.range : v \in Mapped(space'[t])
                                     \/ (brk + 1 <= v /\ v < brk + job.todo)
  <2>1. ~silent /\ ~skip
    BY <1>3, <1>9
  <2>2. /\ \A z \in Task \ wrapped : view[z] \subseteq Mapped(space[z])
        /\ \A v \in job.range : v \in Mapped(space[t]) \/ (brk <= v /\ v < brk + job.todo)
    BY <1>1, <2>1 DEF TellInv, TellPart, ToldPlan, t
  <2>3. \A z \in Task \ wrapped : view[z] \subseteq Mapped(space'[z])
    BY <1>4, <2>2
  <2>4. ASSUME NEW v \in job.range
        PROVE  v \in Mapped(space'[t]) \/ (brk + 1 <= v /\ v < brk + job.todo)
    <3>1. v \in Int /\ brk \in Int
      BY <1>1
    <3>2. CASE v = brk
      BY <1>4, <2>1, <3>2
    <3>3. CASE v # brk
      BY <1>4, <2>2, <3>1, <3>3
    <3>4. QED
      BY <3>2, <3>3
  <2>5. QED
    BY <2>3, <2>4
<1>10. CASE job.todo = 1
  <2>1. job'.op = "none" /\ view' = [view EXCEPT ![t] = @ \cup job.range]
    BY <1>3, <1>10 DEF Idle
  <2>2. ASSUME ~silent', NEW z \in Task \ wrapped
        PROVE  view'[z] \subseteq Mapped(space'[z])
    <3>1. view'[z] = IF z = t THEN view[z] \cup job.range ELSE view[z]
      BY <2>1 DEF TellInv, TellPart, TellType
    <3>2. \A v \in job.range : v \in Mapped(space'[t])
      <4>1. \A v \in job.range : ~(brk + 1 <= v /\ v < brk + job.todo)
        BY <1>1, <1>10
      <4>2. QED
        BY <1>9, <2>2, <4>1
    <3>3. QED
      BY <1>9, <2>2, <3>1, <3>2
  <2>3. ToldPlan'
    BY <1>3, <2>1, <2>2 DEF ToldPlan
  <2>4. QED
    BY <1>6, <1>7, <1>8, <2>1, <2>3 DEF TellPart, TellType, DirPlan, ExecPlan
<1>11. CASE job.todo # 1
  <2>1. /\ job'.op = "sbrk" /\ job'.t = t /\ job'.range = job.range
        /\ job'.todo = job.todo - 1 /\ view' = view
    BY <1>1, <1>3, <1>11 DEF t
  <2>2. brk' + job'.todo = brk + job.todo
    BY <1>1, <1>3, <2>1
  <2>3. ToldPlan'
    BY <1>3, <1>9, <2>1, <2>2 DEF ToldPlan
  <2>4. QED
    BY <1>6, <1>7, <1>8, <2>1, <2>3 DEF TellPart, TellType, DirPlan, ExecPlan
<1>12. QED
  BY <1>10, <1>11

LEMMA TellInit == Init => TellInv
<1> SUFFICES ASSUME Init
             PROVE  TellInv
  OBVIOUS
<1>1. MemInv /\ job.op = "none"
  BY MemInit DEF Init, Idle
<1>2. TellType /\ ToldPlan /\ NeverOnPageZero
  BY <1>1 DEF Init, TellType, ToldPlan, NeverOnPageZero, Alive
<1>3. QED
  BY <1>1, <1>2 DEF TellInv, TellPart, DirPlan, ExecPlan

LEMMA TellNext == TellInv /\ [Next]_vars => TellInv'
<1> SUFFICES ASSUME TellInv, [Next]_vars
             PROVE  TellInv'
  OBVIOUS
<1>1. MemInv'
  BY MemNext DEF TellInv
<1> SUFFICES TellPart'
  BY <1>1 DEF TellInv
<1>2. Image \in SUBSET Va /\ Image # {}
  BY SpaceAssumption DEF Va
<1>3. ASSUME NEW t \in Task, Launch(t) \/ Exec(t)
      PROVE  TellPart'
  BY <1>2, <1>3, StartTell DEF Launch, Exec, Building
<1>4. ASSUME NEW t \in Task, NEW c \in Task, Fork(t, c)
      PROVE  TellPart'
  <2>1. Copied(space[t]) \in SUBSET Va /\ Copied(space[t]) = Mapped(space[t])
    BY DEF Copied, Mapped
  <2>2. Copied(space[t]) # {}
    BY <1>2, <1>4, <2>1 DEF Fork, Runs
  <2>3. QED
    BY <1>4, <2>1, <2>2, StartTell DEF Fork, Building
<1>5. CASE SbrkFails
  BY <1>5, EndTell DEF SbrkFails, Idle
<1>6. ASSUME NEW t \in Task, Fault(t)
      PROVE  TellPart'
  BY <1>6, EndTell DEF Fault, Idle
<1>7. CASE UNCHANGED vars
  BY <1>7 DEF vars, TellInv, TellPart, TellType, ToldPlan, NeverOnPageZero, Alive,
     DirPlan, ExecPlan
<1>8. ASSUME NEW t \in Task, NEW n \in 1 .. MaxSbrk \cup {WordPages}, Sbrk(t, n)
      PROVE  TellPart'
  <2>1. n \in Nat /\ (Rounded(n) = n \/ Rounded(n) = 0)
    BY RoundedIs
  <2>2. QED
    BY <1>8, <2>1, SbrkTell, WrapTell
<1>9. QED
  BY <1>3, <1>4, <1>5, <1>6, <1>7, <1>8, MapIdentityTell, MapPrivateTell, AbandonTell, CommitTell,
     ExitTell, SbrkPageTell DEF Next, OutOfPages, ExecUnmapped

LEMMA TellAlways == Spec => []TellInv
BY TellInit, TellNext, PTL DEF Spec

(* Unless map_page went without a page table, every address a program was  *)
(* told it has is mapped: its image, what its parent had at the fork, what *)
(* sbrk granted page by page on the break all tasks share.  A request to   *)
(* sbrk that wraps around to no page and is granted deceives the program   *)
(* that made it and the children it forks, and no other.                   *)
THEOREM ToldAlwaysMapped == Spec => []ToldIsMapped
<1>1. TellInv => ToldIsMapped
  BY DEF TellInv, TellPart, ToldPlan, ToldIsMapped
<1>2. QED
  BY <1>1, TellAlways, PTL

(* Whatever runs out and when, a forked program has a directory and an     *)
(* executed one all of its image: the failures that sys_fork does not      *)
(* check, and the three look-ups of exec, cannot let it run on physical    *)
(* page 0.                                                                 *)
THEOREM NobodyOnPageZero == Spec => []NeverOnPageZero
<1>1. TellInv => NeverOnPageZero
  BY DEF TellInv, TellPart
<1>2. QED
  BY <1>1, TellAlways, PTL
=============================================================================
