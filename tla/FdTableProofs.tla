--------------------------- MODULE FdTableProofs ---------------------------
(* The descriptor tables and the pipes, for every number of tasks, slots and *)
(* heap objects and every length of a pipe.                                  *)
(*                                                                           *)
(* Exactness of the reference counts is stated about a table, a count per    *)
(* object and a heap, so that calls which give slots up and then fill slots  *)
(* (dup2) are two applications of a lemma: giving up any set of slots        *)
(* (DropExact) and filling any set of empty slots (AddExact).                *)
EXTENDS FdTable, FiniteSetTheorems, TLAPS

Kinds == {"free", "file", "rpipe", "wpipe", "null", "zero", "input", "fb"}
Held == {"file", "rpipe", "wpipe"}

SlotType == [typ : Kinds, obj : Obj \cup {None}, cap : Nat, size : Nat, pos : Nat]
PipeType == [buf : [0 .. (PipeCap - 1) -> Val \cup {0}], rpos : 0 .. (PipeCap - 1),
             wpos : 0 .. (PipeCap - 1), count : 0 .. PipeCap, refs : Int,
             broken : BOOLEAN, queue : Seq(Val), shared : BOOLEAN, over : BOOLEAN,
             raw : BOOLEAN]

(* The types of the state; the ring positions of a pipe stay in the ring and *)
(* its count within its capacity.                                            *)
FdType ==
    /\ alive \subseteq Task
    /\ fd \in [Slots -> SlotType]
    /\ outfd \in [Task -> -1 .. (MaxFd - 1)]
    /\ heap \subseteq Obj
    /\ pipe \in [Obj -> PipeType]
    /\ stale \subseteq Slots
    /\ wild \in BOOLEAN
    /\ calls \in Nat

(* The table without the slots that name freed memory, and the counts.       *)
Shown == [s \in Slots |-> IF s \in stale THEN NoSlot ELSE fd[s]]
Refs == [o \in Obj |-> pipe[o].refs]

Named(tab, o) == {s \in Slots : tab[s].obj = o}

(* Files and pipes name an allocated object and nothing else names one;      *)
(* every allocated object is named; a file's buffer has one name; a pipe has *)
(* as many references as names.                                              *)
Exact(tab, rf, h) ==
    /\ \A s \in Slots : tab[s].typ \in Held <=> tab[s].obj # None
    /\ \A s \in Slots : tab[s].obj \in h \cup {None}
    /\ \A o \in h : Named(tab, o) # {}
    /\ \A s, r \in Slots : tab[s].typ = "file" /\ tab[r].obj = tab[s].obj => r = s
    /\ \A s \in Slots : tab[s].typ \in Pipes => rf[tab[s].obj] = Cardinality(Named(tab, tab[s].obj))

(* A task that does not exist has an empty table.                            *)
Departed == \A s \in Slots : s[1] \notin alive => fd[s] = NoSlot

TableInv == FdType /\ Departed /\ Exact(Shown, Refs, heap)

(* fd_pos never passes fd_size, and a file's buffer is as large as the file  *)
(* unless the file is larger than the clamp.                                 *)
SlotOK(s) ==
    /\ s.pos <= s.size /\ s.size < Word
    /\ s.typ = "file" => s.cap = s.size \/ s.size > BufMax
SeekInv == \A s \in Slots : SlotOK(fd[s])

(* The ring of every pipe structure holds its queue from rpos on.            *)
RingOK(p) ==
    /\ p.count = Len(p.queue)
    /\ p.wpos = (p.rpos + p.count) % PipeCap
    /\ p.raw \/ \A i \in 1 .. p.count : p.buf[(p.rpos + i - 1) % PipeCap] = p.queue[i]
RingInv == \A o \in Obj : RingOK(pipe[o])

(* What PipeEnds needs besides itself: while no end of a pipe was            *)
(* duplicated it has at most one holder of each end.                         *)
HasEnd(tab, typ, o) == \E s \in Slots : tab[s].typ = typ /\ tab[s].obj = o
Gone(tab, o) == ~HasEnd(tab, "rpipe", o) \/ ~HasEnd(tab, "wpipe", o)
ToldOf(tab, p, o) ==
    HasEnd(tab, "rpipe", o) \/ HasEnd(tab, "wpipe", o) =>
        /\ Gone(tab, o) => p.broken \/ p.over
        /\ p.broken => Gone(tab, o) \/ p.shared
        /\ ~p.shared => \A s, r \in Slots :
              tab[s].typ \in Pipes /\ tab[s].typ = tab[r].typ
              /\ tab[s].obj = o /\ tab[r].obj = o => s = r
EndsInv == \A o \in Obj : ToldOf(Shown, pipe[o], o)

---------------------------------------------------------------------------
(* Counting names.                                                           *)

LEMMA SlotsFinite ==
    /\ IsFiniteSet(Slots)
    /\ \A S \in SUBSET Slots : IsFiniteSet(S) /\ Cardinality(S) \in Nat
<1>1. IsFiniteSet(Fd)
  BY FdAssumption, FS_Interval DEF Fd
<1>2. IsFiniteSet(Slots)
  BY <1>1, FdAssumption, FS_Product DEF Slots
<1> QED
  BY <1>2, FS_Subset, FS_CardinalityType

LEMMA DisjointSlots ==
    ASSUME NEW S \in SUBSET Slots, NEW T \in SUBSET Slots, S \cap T = {}
    PROVE  Cardinality(S \cup T) = Cardinality(S) + Cardinality(T)
<1>1. /\ IsFiniteSet(S) /\ Cardinality(S) \in Nat
      /\ IsFiniteSet(T) /\ Cardinality(T) \in Nat
  BY SlotsFinite
<1>2. Cardinality(S \cup T) = Cardinality(S) + Cardinality(T) - Cardinality(S \cap T)
  BY <1>1, FS_Union
<1>3. Cardinality(S \cap T) = 0
  BY FS_EmptySet
<1> QED
  BY <1>1, <1>2, <1>3

(* What Exact says of the names of one object: a pipe's names are pipe       *)
(* slots, all of them.                                                       *)
LEMMA PipeNames ==
    ASSUME NEW tab, NEW rf, NEW h, Exact(tab, rf, h), NEW D \in SUBSET Slots,
           NEW s \in Slots, tab[s].typ \in Pipes
    PROVE  PipeSlots(tab, D, tab[s].obj) = Named(tab, tab[s].obj) \cap D
<1>1. tab[s].obj # None
  BY DEF Exact, Held, Pipes
<1>2. ASSUME NEW r \in Slots, tab[r].obj = tab[s].obj PROVE tab[r].typ \in Pipes
  <2>1. tab[r].typ \in Held
    BY <1>1, <1>2 DEF Exact
  <2>2. tab[r].typ # "file"
    BY <1>2 DEF Exact, Pipes
  <2> QED
    BY <2>1, <2>2 DEF Held, Pipes
<1> QED
  BY <1>2 DEF PipeSlots, Named

(* Giving up the slots of D: the objects of F are freed, the others lose a   *)
(* reference for each slot.                                                  *)
Dropped(tab, rf, h, D, tab2, rf2, F) ==
    /\ Exact(tab, rf, h) /\ None \notin h /\ D \in SUBSET Slots
    /\ \A s \in Slots : tab2[s] = IF s \in D THEN NoSlot ELSE tab[s]
    /\ \A o : o \in F <=>
           /\ o # None
           /\ \E s \in D : tab[s].obj = o
           /\ \/ \E s \in D : tab[s].obj = o /\ tab[s].typ = "file"
              \/ rf[o] <= Cardinality(PipeSlots(tab, D, o))
    /\ \A o \in h \ F : rf2[o] = rf[o] - Cardinality(PipeSlots(tab, D, o))

LEMMA DropExact ==
    ASSUME NEW tab, NEW rf, NEW h, NEW D, NEW tab2, NEW rf2, NEW F,
           Dropped(tab, rf, h, D, tab2, rf2, F)
    PROVE  Exact(tab2, rf2, h \ F)
<1> USE DEF Dropped
<1> NoSlot.typ = "free" /\ NoSlot.obj = None
  BY DEF NoSlot
<1>1. \A s \in Slots \ D : tab2[s] = tab[s]
  OBVIOUS
<1>2. \A s \in D : tab2[s].typ = "free" /\ tab2[s].obj = None
  OBVIOUS
<1>3. \A o : o # None => Named(tab2, o) = Named(tab, o) \ D
  BY <1>1, <1>2 DEF Named
<1>4. ASSUME NEW s \in Slots, tab[s].typ \in Pipes
      PROVE  LET o == tab[s].obj IN
             /\ Cardinality(Named(tab2, o)) = rf[o] - Cardinality(PipeSlots(tab, D, o))
             /\ o \in F <=> Named(tab2, o) = {}
  <2> DEFINE o == tab[s].obj
  <2>1. o # None
    BY <1>4 DEF Exact, Held, Pipes
  <2>2. PipeSlots(tab, D, o) = Named(tab, o) \cap D
    BY <1>4, PipeNames
  <2>3. rf[o] = Cardinality(Named(tab, o))
    BY <1>4 DEF Exact
  <2>4. Named(tab2, o) = Named(tab, o) \ D
    BY <1>3, <2>1
  <2>5. Named(tab, o) \in SUBSET Slots /\ Named(tab, o) \cap D \in SUBSET Slots
    BY DEF Named
  <2>6. IsFiniteSet(Named(tab, o)) /\ Cardinality(Named(tab, o)) \in Nat
        /\ Cardinality(Named(tab, o) \cap D) \in Nat /\ IsFiniteSet(Named(tab, o) \cap D)
    BY <2>5, SlotsFinite
  <2>7. Cardinality(Named(tab2, o)) = rf[o] - Cardinality(PipeSlots(tab, D, o))
    <3>1. Cardinality(Named(tab, o) \ D) = Cardinality(Named(tab, o)) - Cardinality(Named(tab, o) \cap D)
      BY <2>6, FS_Difference, Zenon
    <3> QED
      BY <2>2, <2>3, <2>4, <3>1
  <2>8. IsFiniteSet(Named(tab2, o)) /\ Cardinality(Named(tab2, o)) \in Nat
    BY <2>4, <2>5, SlotsFinite
  <2>9. Named(tab2, o) = {} <=> Cardinality(Named(tab2, o)) = 0
    BY <2>8, FS_EmptySet
  <2>10. rf[o] <= Cardinality(PipeSlots(tab, D, o)) <=> Named(tab2, o) = {}
    BY <2>2, <2>3, <2>6, <2>7, <2>8, <2>9
  <2>11. s \in Named(tab, o)
    BY DEF Named
  <2>12. Named(tab2, o) = {} => s \in D
    BY <2>4, <2>11
  <2>13. \A r \in D : tab[r].obj = o => tab[r].typ # "file"
    BY <1>4 DEF Exact, Pipes
  <2>14. o \in F <=> Named(tab2, o) = {}
    BY <2>1, <2>10, <2>12, <2>13
  <2> HIDE DEF o
  <2> QED
    BY <2>7, <2>14 DEF o
<1>5. ASSUME NEW o \in h \ F, o # None PROVE Named(tab2, o) # {}
  <2>1. PICK s \in Slots : tab[s].obj = o
    BY DEF Exact, Named
  <2>2. CASE tab[s].typ \in Pipes
    BY <1>4, <2>1, <2>2
  <2>3. CASE tab[s].typ = "file"
    <3>1. s \notin D
      BY <1>5, <2>1, <2>3
    <3> QED
      BY <1>1, <2>1, <3>1 DEF Named
  <2>4. tab[s].typ \in Held
    BY <1>5, <2>1 DEF Exact
  <2> QED
    BY <2>2, <2>3, <2>4 DEF Held, Pipes
<1>6. ASSUME NEW s \in Slots PROVE tab2[s].obj \in (h \ F) \cup {None}
  <2>1. CASE s \in D
    BY <1>2, <2>1
  <2>2. CASE s \notin D
    <3>0. tab2[s] = tab[s]
      BY <1>1, <2>2
    <3>1. tab[s].obj \in h \cup {None}
      BY DEF Exact
    <3>2. ASSUME tab[s].obj # None PROVE tab[s].obj \notin F
      <4>1. CASE tab[s].typ \in Pipes
        <5>1. s \in Named(tab2, tab[s].obj)
          BY <3>0 DEF Named
        <5> QED
          BY <1>4, <4>1, <5>1
      <4>2. CASE tab[s].typ = "file"
        <5>1. \A r \in D : tab[r].obj # tab[s].obj
          BY <2>2, <4>2 DEF Exact
        <5> QED
          BY <5>1
      <4>3. tab[s].typ \in Held
        BY <3>2 DEF Exact
      <4> QED
        BY <4>1, <4>2, <4>3 DEF Held, Pipes
    <3> QED
      BY <3>0, <3>1, <3>2
  <2> QED
    BY <2>1, <2>2
<1>7. \A s \in Slots : tab2[s].typ \in Held <=> tab2[s].obj # None
  BY <1>1, <1>2 DEF Exact, Held
<1>8. ASSUME NEW s \in Slots, NEW r \in Slots, tab2[s].typ = "file", tab2[r].obj = tab2[s].obj
      PROVE  r = s
  <2>1. s \notin D /\ tab2[s] = tab[s]
    BY <1>1, <1>2, <1>8
  <2>2. tab2[s].obj # None
    BY <1>7, <1>8 DEF Held
  <2>3. r \notin D /\ tab2[r] = tab[r]
    BY <1>1, <1>2, <1>8, <2>2
  <2> QED
    BY <1>8, <2>1, <2>3 DEF Exact
<1>9. ASSUME NEW s \in Slots, tab2[s].typ \in Pipes
      PROVE  rf2[tab2[s].obj] = Cardinality(Named(tab2, tab2[s].obj))
  <2>1. tab2[s] = tab[s]
    BY <1>1, <1>2, <1>9 DEF Pipes
  <2>2. s \in Named(tab2, tab2[s].obj)
    BY DEF Named
  <2>3. tab2[s].obj \notin F
    BY <1>4, <1>9, <2>1, <2>2
  <2>4. tab2[s].obj \in h
    BY <1>6, <1>7, <1>9 DEF Held, Pipes
  <2> QED
    BY <1>4, <1>9, <2>1, <2>3, <2>4
<1> QED
  BY <1>5, <1>6, <1>7, <1>8, <1>9 DEF Exact

(* Calls that change neither a type nor an object of a slot.                 *)
LEMMA SameExact ==
    ASSUME NEW tab, NEW rf, NEW h, Exact(tab, rf, h), None \notin h,
           NEW tab2, NEW rf2,
           \A s \in Slots : tab2[s].typ = tab[s].typ /\ tab2[s].obj = tab[s].obj,
           \A o \in h : rf2[o] = rf[o]
    PROVE  Exact(tab2, rf2, h)
<1>1. \A o : Named(tab2, o) = Named(tab, o)
  BY DEF Named
<1>2. ASSUME NEW s \in Slots, tab2[s].typ \in Pipes
      PROVE  rf2[tab2[s].obj] = Cardinality(Named(tab2, tab2[s].obj))
  <2>1. tab[s].typ \in Pipes
    BY <1>2
  <2>2. tab[s].obj \in h
    BY <2>1 DEF Exact, Held, Pipes
  <2> QED
    BY <1>1, <2>1, <2>2 DEF Exact
<1>3. \A o \in h : Named(tab2, o) # {}
  BY <1>1 DEF Exact
<1>4. \A s \in Slots : tab2[s].typ \in Held <=> tab2[s].obj # None
  BY DEF Exact
<1>5. \A s \in Slots : tab2[s].obj \in h \cup {None}
  BY DEF Exact
<1>6. \A s, r \in Slots : tab2[s].typ = "file" /\ tab2[r].obj = tab2[s].obj => r = s
  BY DEF Exact
<1> QED
  BY <1>2, <1>3, <1>4, <1>5, <1>6 DEF Exact

(* Filling the empty slots of A, with the new objects of N: a file takes a   *)
(* new object of its own, a pipe slot a new object or one that a pipe slot   *)
(* already names, and every pipe gains a reference for each slot.            *)
Filled(tab, rf, h, A, N, tab2, rf2) ==
    /\ Exact(tab, rf, h) /\ None \notin h /\ \A o \in h : rf[o] \in Int
    /\ A \in SUBSET Slots /\ N \cap h = {} /\ None \notin N
    /\ \A s \in Slots \ A : tab2[s] = tab[s]
    /\ \A s \in A :
         /\ tab[s].obj = None
         /\ tab2[s].typ \in Held <=> tab2[s].obj # None
         /\ tab2[s].obj \in h \cup N \cup {None}
         /\ tab2[s].typ = "file" =>
              tab2[s].obj \in N /\ \A r \in A : tab2[r].obj = tab2[s].obj => r = s
         /\ tab2[s].typ \in Pipes /\ tab2[s].obj \in h =>
              \E r \in Slots : tab[r].typ \in Pipes /\ tab[r].obj = tab2[s].obj
    /\ \A o \in N : \E s \in A : tab2[s].obj = o
    /\ \A s \in Slots : tab2[s].typ \in Pipes =>
         LET o == tab2[s].obj IN
         rf2[o] = (IF o \in h THEN rf[o] ELSE 0) + Cardinality(PipeSlots(tab2, A, o))

LEMMA AddExact ==
    ASSUME NEW tab, NEW rf, NEW h, NEW A, NEW N, NEW tab2, NEW rf2,
           Filled(tab, rf, h, A, N, tab2, rf2)
    PROVE  Exact(tab2, rf2, h \cup N)
<1> USE DEF Filled
<1>1. ASSUME NEW s \in Slots PROVE tab2[s].typ \in Held <=> tab2[s].obj # None
  BY DEF Exact
<1>2. ASSUME NEW s \in Slots PROVE tab2[s].obj \in h \cup N \cup {None}
  BY DEF Exact
<1>3. \A s \in Slots \ A : tab2[s].obj \notin N
  BY DEF Exact
<1>4. ASSUME NEW s \in Slots, NEW r \in Slots, tab2[s].typ = "file", tab2[r].obj = tab2[s].obj
      PROVE  r = s
  <2>0. tab2[s].obj # None
    BY <1>1, <1>4 DEF Held
  <2>1. CASE s \in A
    BY <1>3, <1>4, <2>1
  <2>2. CASE s \notin A /\ r \notin A
    BY <1>4, <2>2 DEF Exact
  <2>3. CASE s \notin A /\ r \in A
    <3>1. tab[s].typ = "file" /\ tab2[s] = tab[s] /\ tab[s].obj \in h
      BY <1>4, <2>0, <2>3 DEF Exact
    <3>2. tab2[r].typ \in Pipes
      <4>1. tab2[r].typ \in Held
        BY <1>1, <1>4, <2>0
      <4>2. tab2[r].typ # "file"
        BY <1>4, <2>3, <3>1
      <4> QED
        BY <4>1, <4>2 DEF Held, Pipes
    <3>3. PICK q \in Slots : tab[q].typ \in Pipes /\ tab[q].obj = tab[s].obj
      BY <1>4, <2>3, <3>1, <3>2
    <3>4. q = s
      BY <3>1, <3>3 DEF Exact
    <3> QED
      BY <3>1, <3>3, <3>4 DEF Pipes
  <2> QED
    BY <2>1, <2>2, <2>3
<1>5. ASSUME NEW o \in h \cup N PROVE Named(tab2, o) # {}
  <2>1. CASE o \in N
    BY <2>1 DEF Named
  <2>2. CASE o \in h
    <3>1. PICK s \in Slots : tab[s].obj = o
      BY <2>2 DEF Exact, Named
    <3>2. tab2[s].obj = o
      BY <2>2, <3>1
    <3> QED
      BY <3>2 DEF Named
  <2> QED
    BY <2>1, <2>2
<1>6. ASSUME NEW s \in Slots, tab2[s].typ \in Pipes
      PROVE  rf2[tab2[s].obj] = Cardinality(Named(tab2, tab2[s].obj))
  <2> DEFINE o == tab2[s].obj
             Old == Named(tab, o)
             New == PipeSlots(tab2, A, o)
  <2>1. o # None /\ o \in h \cup N
    BY <1>1, <1>2, <1>6 DEF Held, Pipes
  <2>2. ASSUME NEW r \in A, tab2[r].obj = o PROVE tab2[r].typ \in Pipes
    <3>1. tab2[r].typ \in Held
      BY <1>1, <2>1, <2>2
    <3>2. tab2[r].typ # "file"
      BY <1>4, <1>6, <2>2 DEF Pipes
    <3> QED
      BY <3>1, <3>2 DEF Held, Pipes
  <2>3. Named(tab2, o) = Old \cup New
    <3>1. ASSUME NEW r \in Slots PROVE r \in Named(tab2, o) <=> r \in Old \cup New
      <4>1. CASE r \in A
        BY <2>1, <2>2, <4>1 DEF Named, PipeSlots
      <4>2. CASE r \notin A
        BY <4>2 DEF Named, PipeSlots
      <4> QED
        BY <4>1, <4>2
    <3>2. Old \subseteq Slots /\ New \subseteq Slots /\ Named(tab2, o) \subseteq Slots
      BY DEF Named, PipeSlots
    <3> HIDE DEF Old, New, o
    <3> QED
      BY <3>1, <3>2
  <2>4. Old \cap New = {}
    BY <2>1 DEF Named, PipeSlots
  <2>5. Old \in SUBSET Slots /\ New \in SUBSET Slots
    BY DEF Named, PipeSlots
  <2>6. IsFiniteSet(Old) /\ IsFiniteSet(New) /\ Cardinality(Old) \in Nat /\ Cardinality(New) \in Nat
    BY <2>5, SlotsFinite
  <2>8. Cardinality(Old \cup New) = Cardinality(Old) + Cardinality(New)
    BY <2>4, <2>5, DisjointSlots
  <2>9. CASE o \in h
    <3>1. \E r \in Slots : tab[r].typ \in Pipes /\ tab[r].obj = o
      BY <1>6, <2>9
    <3>2. rf[o] = Cardinality(Old)
      BY <3>1 DEF Exact
    <3>3. rf2[o] = rf[o] + Cardinality(New)
      BY <1>6, <2>9
    <3> HIDE DEF Old, New
    <3> QED
      BY <2>3, <2>8, <3>2, <3>3
  <2>10. CASE o \notin h
    <3>1. Old = {}
      BY <2>1, <2>10 DEF Exact, Named
    <3>2. rf2[o] = 0 + Cardinality(New)
      BY <1>6, <2>10
    <3>3. Named(tab2, o) = New
      <4> HIDE DEF Old, New, o
      <4> QED
        BY <2>3, <3>1
    <3> HIDE DEF Old, New
    <3> QED
      BY <2>6, <3>2, <3>3
  <2> QED
    BY <2>9, <2>10
<1> QED
  BY <1>1, <1>2, <1>4, <1>5, <1>6 DEF Exact

---------------------------------------------------------------------------
(* What the operators of the calls return.                                   *)

LEMMA FirstIn ==
    ASSUME NEW S \in SUBSET Fd, S # {}
    PROVE  First(S) \in S /\ First(S) \in Fd
<1> DEFINE R == OpToRel(<, Nat)
<1>1. S \subseteq Nat
  BY FdAssumption DEF Fd
<1>2. PICK m \in S : \A u \in S : ~(<<u, m>> \in R)
  <2>1. IsWellFoundedOn(R, Nat)
    BY NatLessThanWellFounded
  <2> HIDE DEF R
  <2> QED
    BY <1>1, <2>1, WFMin
<1>3. \A u \in S : ~(u < m)
  BY <1>1, <1>2 DEF OpToRel
<1>4. \E f \in S : \A g \in S : f <= g
  BY <1>1, <1>3
<1> QED
  BY <1>4 DEF First

LEMMA Constants ==
    /\ MaxFd \in Nat /\ MaxFd > 0 /\ PipeCap \in Nat /\ PipeCap > 0 /\ BufMax \in Nat
    /\ Word \in Nat /\ Word > PipeCap /\ Sizes \subseteq 1 .. (Word - 1)
    /\ Fd \subseteq Nat /\ 0 \in Fd
  BY FdAssumption DEF Fd

LEMMA SlotTypes ==
    /\ NoSlot \in SlotType
    /\ \A d \in {"null", "zero", "input", "fb"} : Device(d) \in SlotType
    /\ \A o \in Obj : End("rpipe", o) \in SlotType /\ End("wpipe", o) \in SlotType
<1>1. NoSlot \in SlotType
  BY DEF NoSlot, SlotType, Kinds
<1>2. ASSUME NEW d \in {"null", "zero", "input", "fb"} PROVE Device(d) \in SlotType
  BY Constants DEF Device, SlotType, Kinds
<1>3. ASSUME NEW o \in Obj PROVE End("rpipe", o) \in SlotType /\ End("wpipe", o) \in SlotType
  BY Constants DEF End, SlotType, Kinds
<1> QED
  BY <1>1, <1>2, <1>3

LEMMA NewPipeType == NewPipe \in PipeType /\ NewPipe.refs = 2
<1>1. <<>> \in Seq(Val)
  OBVIOUS
<1>2. [i \in 0 .. (PipeCap - 1) |-> 0] \in [0 .. (PipeCap - 1) -> Val \cup {0}]
  OBVIOUS
<1>3. 0 \in 0 .. (PipeCap - 1) /\ 0 \in 0 .. PipeCap
  BY Constants
<1> QED
  BY <1>1, <1>2, <1>3 DEF NewPipe, PipeType

(* A pipe with another count or other flags is the same pipe otherwise.      *)
SameRing(p, q) ==
    /\ q.buf = p.buf /\ q.rpos = p.rpos /\ q.wpos = p.wpos
    /\ q.count = p.count /\ q.queue = p.queue /\ q.raw = p.raw

LEMMA PipeField ==
    ASSUME NEW p \in PipeType
    PROVE  /\ \A l \in Int : [p EXCEPT !.refs = l] \in PipeType
           /\ \A x \in BOOLEAN : [p EXCEPT !.broken = x] \in PipeType
           /\ \A x \in BOOLEAN : [p EXCEPT !.shared = x] \in PipeType
           /\ \A x \in BOOLEAN : [p EXCEPT !.over = x] \in PipeType
<1>1. ASSUME NEW l \in Int PROVE [p EXCEPT !.refs = l] \in PipeType
  BY DEF PipeType
<1>2. ASSUME NEW x \in BOOLEAN
      PROVE  /\ [p EXCEPT !.broken = x] \in PipeType
             /\ [p EXCEPT !.shared = x] \in PipeType
             /\ [p EXCEPT !.over = x] \in PipeType
  BY DEF PipeType
<1> QED
  BY <1>1, <1>2

LEMMA LessRefs ==
    ASSUME NEW p \in PipeType, NEW l \in Int, NEW x \in BOOLEAN
    PROVE  [p EXCEPT !.refs = @ - l, !.broken = x] \in PipeType
<1>1. p.refs - l \in Int
  BY DEF PipeType
<1>2. [[p EXCEPT !.refs = p.refs - l] EXCEPT !.broken = x] \in PipeType
  BY <1>1, PipeField
<1> QED
  BY <1>2

LEMMA MoreRefs ==
    ASSUME NEW p \in PipeType, NEW l \in Int
    PROVE  [p EXCEPT !.refs = @ + l, !.shared = TRUE] \in PipeType
<1>1. p.refs + l \in Int
  BY DEF PipeType
<1>2. [[p EXCEPT !.refs = p.refs + l] EXCEPT !.shared = TRUE] \in PipeType
  BY <1>1, PipeField
<1> QED
  BY <1>2

LEMMA UnrefPipes ==
    ASSUME FdType, NEW S \in SUBSET Slots, NEW b \in BOOLEAN
    PROVE  /\ Unref(S, b) \in [Obj -> PipeType]
           /\ \A o \in Obj : LET q == Unref(S, b)[o] IN
                /\ o \in Freed(S) => q = NewPipe
                /\ o \notin Freed(S) =>
                     /\ q.refs = pipe[o].refs - Lost(S, o)
                     /\ q.broken = (pipe[o].broken \/ (b /\ o \in Names(S)))
                     /\ q.shared = pipe[o].shared /\ q.over = pipe[o].over
                     /\ SameRing(pipe[o], q)
<1>1. ASSUME NEW o \in Obj, o \notin Freed(S)
      PROVE  LET q == Unref(S, b)[o] IN
             /\ q \in PipeType
             /\ q.refs = pipe[o].refs - Lost(S, o)
             /\ q.broken = (pipe[o].broken \/ (b /\ o \in Names(S)))
             /\ q.shared = pipe[o].shared /\ q.over = pipe[o].over
             /\ SameRing(pipe[o], q)
  <2>1. pipe[o] \in PipeType
    BY DEF FdType
  <2>2. PipeSlots(fd, S, o) \in SUBSET Slots
    BY DEF PipeSlots
  <2>3. Lost(S, o) \in Int
    BY <2>2, SlotsFinite DEF Lost
  <2>4. (pipe[o].broken \/ (b /\ o \in Names(S))) \in BOOLEAN
    OBVIOUS
  <2> DEFINE l == Lost(S, o)
             x == pipe[o].broken \/ (b /\ o \in Names(S))
  <2>5. Unref(S, b)[o] = [pipe[o] EXCEPT !.refs = @ - l, !.broken = x]
    BY <1>1 DEF Unref
  <2>6. l \in Int /\ x \in BOOLEAN
    BY <2>3, <2>4
  <2> HIDE DEF l, x
  <2>7. /\ Unref(S, b)[o] \in PipeType
        /\ Unref(S, b)[o].refs = pipe[o].refs - l
        /\ Unref(S, b)[o].broken = x
        /\ Unref(S, b)[o].shared = pipe[o].shared /\ Unref(S, b)[o].over = pipe[o].over
        /\ SameRing(pipe[o], Unref(S, b)[o])
    <3>1. PICK y \in BOOLEAN : y = x
      BY <2>6
    <3>2. Unref(S, b)[o] = [pipe[o] EXCEPT !.refs = @ - l, !.broken = y]
      BY <2>5, <3>1
    <3> DEFINE q == Unref(S, b)[o]
    <3>3. /\ q \in PipeType
          /\ q.refs = pipe[o].refs - l /\ q.broken = y
          /\ q.over = pipe[o].over /\ q.shared = pipe[o].shared /\ SameRing(pipe[o], q)
      <4>1. q \in PipeType
        <5>1. [pipe[o] EXCEPT !.refs = @ - l, !.broken = y] \in PipeType
          BY <2>1, <2>6, LessRefs
        <5> QED
          BY <3>2, <5>1
      <4>2. q.refs = pipe[o].refs - l /\ q.broken = y /\ q.over = pipe[o].over /\ q.shared = pipe[o].shared
        BY <2>1, <3>2 DEF PipeType
      <4>3. SameRing(pipe[o], q)
        BY <2>1, <3>2 DEF PipeType, SameRing
      <4> QED
        BY <4>1, <4>2, <4>3
    <3> QED
      BY <3>1, <3>3
  <2> QED
    BY <2>7 DEF l, x
<1>2. ASSUME NEW o \in Obj, o \in Freed(S) PROVE Unref(S, b)[o] = NewPipe
  BY <1>2 DEF Unref
<1>3. Unref(S, b) \in [Obj -> PipeType]
  <2>1. \A o \in Obj : Unref(S, b)[o] \in PipeType
    BY <1>1, <1>2, NewPipeType
  <2>2. Unref(S, b) = [o \in Obj |-> Unref(S, b)[o]]
    BY DEF Unref
  <2> QED
    BY <2>1, <2>2
<1> QED
  BY <1>1, <1>2, <1>3

LEMMA ReplacedPipes ==
    ASSUME FdType, NEW s \in Slots
    PROVE  /\ Replaced(s) \in [Obj -> PipeType]
           /\ \A o \in Obj : LET q == Replaced(s)[o] IN
                /\ o \in Freed({s}) => q = NewPipe
                /\ o \notin Freed({s}) =>
                     /\ q.refs = pipe[o].refs - Lost({s}, o)
                     /\ q.broken = pipe[o].broken
                     /\ q.shared = pipe[o].shared
                     /\ q.over = (pipe[o].over \/ (fd[s].typ \in Pipes /\ fd[s].obj = o))
                     /\ SameRing(pipe[o], q)
<1> DEFINE pp == Unref({s}, FALSE)
           x == fd[s].obj
<1>1. {s} \in SUBSET Slots
  OBVIOUS
<1>2. /\ pp \in [Obj -> PipeType]
      /\ \A o \in Obj :
                /\ o \in Freed({s}) => pp[o] = NewPipe
                /\ o \notin Freed({s}) =>
                     /\ pp[o].refs = pipe[o].refs - Lost({s}, o)
                     /\ pp[o].broken = pipe[o].broken
                     /\ pp[o].shared = pipe[o].shared /\ pp[o].over = pipe[o].over
                     /\ SameRing(pipe[o], pp[o])
  <2>1. \A o \in Obj : pipe[o].broken \in BOOLEAN
    BY DEF FdType, PipeType
  <2> QED
    BY <1>1, <2>1, UnrefPipes
<1>3. \A o \in Obj : pipe[o].over \in BOOLEAN
  BY DEF FdType, PipeType
<1> HIDE DEF pp
<1>4. CASE fd[s].typ \in Pipes /\ x \notin Freed({s})
  <2>1. Replaced(s) = [pp EXCEPT ![x].over = TRUE]
    BY <1>4 DEF Replaced, pp
  <2>2. \A o \in Obj : Replaced(s)[o] = IF o = x THEN [pp[o] EXCEPT !.over = TRUE] ELSE pp[o]
    BY <1>2, <2>1
  <2>3. ASSUME NEW o \in Obj
        PROVE  LET q == [pp[o] EXCEPT !.over = TRUE] IN
               /\ q \in PipeType
               /\ q.refs = pp[o].refs /\ q.broken = pp[o].broken /\ q.shared = pp[o].shared
               /\ q.over = TRUE /\ SameRing(pp[o], q)
    <3>1. pp[o] \in PipeType
      BY <1>2
    <3>2. [pp[o] EXCEPT !.over = TRUE] \in PipeType
      BY <3>1, PipeField
    <3> QED
      BY <3>1, <3>2 DEF PipeType, SameRing
  <2>4. Replaced(s) \in [Obj -> PipeType]
    <3>1. \A o \in Obj : Replaced(s)[o] \in PipeType
      BY <1>2, <2>2, <2>3
    <3>2. Replaced(s) = [o \in Obj |-> Replaced(s)[o]]
      BY <1>2, <2>1
    <3> QED
      BY <3>1, <3>2
  <2>5. ASSUME NEW o \in Obj, o = x
        PROVE  LET q == Replaced(s)[o] IN
                     /\ q.refs = pipe[o].refs - Lost({s}, o)
                     /\ q.broken = pipe[o].broken
                     /\ q.shared = pipe[o].shared
                     /\ q.over = TRUE
                     /\ SameRing(pipe[o], q)
    <3> DEFINE q == [pp[o] EXCEPT !.over = TRUE]
    <3>1. Replaced(s)[o] = q
      BY <2>2, <2>5
    <3>2. /\ q.refs = pp[o].refs /\ q.broken = pp[o].broken /\ q.shared = pp[o].shared
          /\ q.over = TRUE /\ SameRing(pp[o], q)
      BY <2>3
    <3>3. /\ pp[o].refs = pipe[o].refs - Lost({s}, o)
          /\ pp[o].broken = pipe[o].broken /\ pp[o].shared = pipe[o].shared
          /\ SameRing(pipe[o], pp[o])
      BY <1>2, <1>4, <2>5
    <3> HIDE DEF q
    <3> QED
      BY <3>1, <3>2, <3>3 DEF SameRing
  <2>6. \A o \in Obj : o # x => Replaced(s)[o] = pp[o]
    BY <2>2
  <2> QED
    BY <1>2, <1>3, <1>4, <2>4, <2>5, <2>6, ZenonT(60)
<1>5. CASE ~(fd[s].typ \in Pipes /\ x \notin Freed({s}))
  <2>1. Replaced(s) = pp
    BY <1>5 DEF Replaced, pp
  <2> QED
    BY <1>2, <1>3, <1>5, <2>1
<1> QED
  BY <1>4, <1>5

(* The count of the pipe behind a slot, as dup and fork raise it.            *)
LEMMA ReferencedPipes ==
    ASSUME NEW pp \in [Obj -> PipeType], NEW o \in Obj
    PROVE  /\ Referenced(o, pp) \in [Obj -> PipeType]
           /\ Referenced(o, pp)[o].refs = pp[o].refs + 1
           /\ Referenced(o, pp)[o].shared = TRUE
           /\ Referenced(o, pp)[o].broken = pp[o].broken
           /\ Referenced(o, pp)[o].over = pp[o].over
           /\ SameRing(pp[o], Referenced(o, pp)[o])
           /\ \A x \in Obj \ {o} : Referenced(o, pp)[x] = pp[x]
<1> DEFINE q == [pp[o] EXCEPT !.refs = @ + 1, !.shared = TRUE]
<1>0. pp[o] \in PipeType
  OBVIOUS
<1>1. q \in PipeType
  <2>1. 1 \in Int
    OBVIOUS
  <2> QED
    BY <1>0, <2>1, MoreRefs
<1>2. Referenced(o, pp) = [pp EXCEPT ![o] = q]
  BY DEF Referenced
<1>3. Referenced(o, pp)[o] = q
  BY <1>2
<1>4. \A x \in Obj \ {o} : Referenced(o, pp)[x] = pp[x]
  BY <1>2
<1>5. Referenced(o, pp) \in [Obj -> PipeType]
  <2> HIDE DEF q
  <2> QED
    BY <1>1, <1>2
<1>6. q.refs = pp[o].refs + 1 /\ q.shared = TRUE /\ q.broken = pp[o].broken /\ q.over = pp[o].over
  BY <1>0 DEF PipeType
<1>7. SameRing(pp[o], q)
  BY <1>0 DEF PipeType, SameRing
<1> HIDE DEF q
<1> QED
  BY <1>3, <1>4, <1>5, <1>6, <1>7

LEMMA CountedPipes ==
    ASSUME NEW tab, NEW c, NEW i, NEW pp \in [Obj -> PipeType]
    PROVE  LET cp == Counted(tab, c, i, pp)
               Mine(o) == PipeSlots(tab, ChildSlots(c, i), o) IN
           /\ cp \in [Obj -> PipeType]
           /\ \A o \in Obj :
                /\ cp[o].refs = pp[o].refs + Cardinality(Mine(o))
                /\ cp[o].broken = pp[o].broken /\ cp[o].over = pp[o].over
                /\ SameRing(pp[o], cp[o])
                /\ Mine(o) # {} => cp[o].shared
                /\ Mine(o) = {} => cp[o] = pp[o]
<1> DEFINE cp == Counted(tab, c, i, pp)
           Mine(o) == PipeSlots(tab, ChildSlots(c, i), o)
<1>1. ASSUME NEW o \in Obj
      PROVE  /\ cp[o] \in PipeType
             /\ cp[o].refs = pp[o].refs + Cardinality(Mine(o))
             /\ cp[o].broken = pp[o].broken /\ cp[o].over = pp[o].over
             /\ SameRing(pp[o], cp[o])
             /\ Mine(o) # {} => cp[o].shared
             /\ Mine(o) = {} => cp[o] = pp[o]
  <2>0. pp[o] \in PipeType /\ pp[o].refs \in Int
    BY DEF PipeType
  <2>1. CASE Mine(o) = {}
    <3>1. cp[o] = pp[o]
      BY <2>1 DEF Counted
    <3>2. Cardinality(Mine(o)) = 0
      BY <2>1, FS_EmptySet
    <3> HIDE DEF cp, Mine
    <3> QED
      BY <2>0, <2>1, <3>1, <3>2 DEF SameRing
  <2>2. CASE Mine(o) # {}
    <3> DEFINE n == Cardinality(Mine(o))
               q == [pp[o] EXCEPT !.refs = @ + n, !.shared = TRUE]
    <3>1. cp[o] = q
      BY <2>2 DEF Counted
    <3>2. Mine(o) \in SUBSET Slots
      BY DEF PipeSlots, ChildSlots
    <3>3. n \in Int
      BY <3>2, SlotsFinite
    <3> HIDE DEF n
    <3>4. q \in PipeType
      BY <2>0, <3>3, MoreRefs
    <3>5. q.refs = pp[o].refs + n /\ q.shared = TRUE /\ q.broken = pp[o].broken /\ q.over = pp[o].over
      BY <2>0 DEF PipeType
    <3>6. SameRing(pp[o], q)
      BY <2>0 DEF PipeType, SameRing
    <3> HIDE DEF q, cp, Mine
    <3> QED
      BY <2>2, <3>1, <3>4, <3>5, <3>6 DEF n
  <2> QED
    BY <2>1, <2>2
<1>2. cp \in [Obj -> PipeType]
  <2>1. cp = [o \in Obj |-> cp[o]]
    BY DEF Counted
  <2> HIDE DEF cp
  <2> QED
    BY <1>1, <2>1
<1> QED
  BY <1>1, <1>2

(* A fork that fails half way leaves every pipe as it was, but for shared.   *)
LEMMA UncountedPipes ==
    ASSUME NEW tab, NEW c, NEW i, NEW pp \in [Obj -> PipeType]
    PROVE  LET up == Uncounted(tab, c, i, Counted(tab, c, i, pp)) IN
           /\ up \in [Obj -> PipeType]
           /\ \A o \in Obj :
                /\ up[o].refs = pp[o].refs
                /\ up[o].broken = pp[o].broken /\ up[o].over = pp[o].over
                /\ SameRing(pp[o], up[o])
                /\ pp[o].shared => up[o].shared
<1> DEFINE cp == Counted(tab, c, i, pp)
           up == Uncounted(tab, c, i, cp)
           Mine(o) == PipeSlots(tab, ChildSlots(c, i), o)
<1>1. /\ cp \in [Obj -> PipeType]
      /\ \A o \in Obj :
           /\ cp[o].refs = pp[o].refs + Cardinality(Mine(o))
           /\ cp[o].broken = pp[o].broken /\ cp[o].over = pp[o].over
           /\ SameRing(pp[o], cp[o])
           /\ Mine(o) # {} => cp[o].shared
           /\ Mine(o) = {} => cp[o] = pp[o]
  BY CountedPipes
<1> HIDE DEF cp
<1>2. ASSUME NEW o \in Obj
      PROVE  /\ up[o] \in PipeType
             /\ up[o].refs = pp[o].refs
             /\ up[o].broken = pp[o].broken /\ up[o].over = pp[o].over
             /\ SameRing(pp[o], up[o])
             /\ pp[o].shared => up[o].shared
  <2> DEFINE n == Cardinality(Mine(o))
             q == [cp[o] EXCEPT !.refs = @ - n]
  <2>0. cp[o] \in PipeType /\ cp[o].refs \in Int /\ pp[o].refs \in Int
    BY <1>1 DEF PipeType
  <2>1. up[o] = q
    BY DEF Uncounted
  <2>2. Mine(o) \in SUBSET Slots
    BY DEF PipeSlots, ChildSlots
  <2>3. n \in Int
    BY <2>2, SlotsFinite
  <2>4. cp[o].refs = pp[o].refs + n
    BY <1>1
  <2>5. pp[o].shared => cp[o].shared
    BY <1>1
  <2>6. cp[o].broken = pp[o].broken /\ cp[o].over = pp[o].over /\ SameRing(pp[o], cp[o])
    BY <1>1
  <2> HIDE DEF n
  <2>7. q \in PipeType
    <3>1. cp[o].refs - n \in Int
      BY <2>0, <2>3
    <3>2. [cp[o] EXCEPT !.refs = cp[o].refs - n] \in PipeType
      BY <2>0, <3>1, PipeField
    <3> QED
      BY <3>2
  <2>8. q.refs = cp[o].refs - n /\ q.shared = cp[o].shared /\ q.broken = cp[o].broken /\ q.over = cp[o].over
    BY <2>0 DEF PipeType
  <2>9. SameRing(cp[o], q)
    BY <2>0 DEF PipeType, SameRing
  <2>10. q.refs = pp[o].refs
    BY <2>0, <2>3, <2>4, <2>8
  <2>11. SameRing(pp[o], q)
    BY <2>6, <2>9 DEF SameRing
  <2> HIDE DEF q, up, Mine
  <2> QED
    BY <2>1, <2>5, <2>6, <2>7, <2>8, <2>10, <2>11
<1>3. up \in [Obj -> PipeType]
  <2>1. up = [o \in Obj |-> up[o]]
    BY DEF Uncounted
  <2> HIDE DEF up
  <2> QED
    BY <1>2, <2>1
<1> QED
  BY <1>2, <1>3 DEF cp

---------------------------------------------------------------------------
(* The table invariant, call by call.                                        *)

LEMMA TableFacts ==
    ASSUME TableInv, Sound
    PROVE  /\ FdType /\ Departed /\ Exact(fd, Refs, heap)
           /\ stale = {} /\ wild = FALSE /\ None \notin heap
           /\ \A o \in Obj : Refs[o] = pipe[o].refs /\ pipe[o].refs \in Int
           /\ \A s \in Slots : fd[s] \in SlotType /\ fd[s].obj \in heap \cup {None}
           /\ \A s \in Slots : fd[s].typ \in Held <=> fd[s].obj # None
<1>1. FdType /\ Departed /\ stale = {} /\ wild = FALSE
  BY DEF TableInv, Sound, FdType
<1>2. Shown = fd
  BY <1>1 DEF Shown, FdType
<1>3. Exact(fd, Refs, heap)
  BY <1>2 DEF TableInv
<1>4. None \notin heap
  BY <1>1, FdAssumption DEF FdType
<1>5. \A o \in Obj : Refs[o] = pipe[o].refs /\ pipe[o].refs \in Int
  BY <1>1 DEF FdType, Refs, PipeType
<1> QED
  BY <1>1, <1>3, <1>4, <1>5 DEF FdType, Exact

LEMMA TypeNext ==
    ASSUME FdType, calls' = calls + 1, alive' \subseteq Task,
           fd' \in [Slots -> SlotType], outfd' \in [Task -> -1 .. (MaxFd - 1)],
           heap' \subseteq Obj, pipe' \in [Obj -> PipeType],
           stale' \subseteq Slots, wild' \in BOOLEAN
    PROVE  FdType'
<1>1. calls' \in Nat
  BY DEF FdType
<1> QED
  BY <1>1 DEF FdType

LEMMA TableNext ==
    ASSUME FdType', Departed', stale' = {}, Exact(fd', Refs', heap')
    PROVE  TableInv'
<1>1. Shown' = fd'
  BY DEF Shown, FdType
<1> QED
  BY <1>1 DEF TableInv

(* Giving up the slots D of the tables, in the words of the calls.           *)
LEMMA DropFd ==
    ASSUME TableInv, Sound, NEW D \in SUBSET Slots, NEW tab2, NEW rf2,
           \A s \in Slots : tab2[s] = IF s \in D THEN NoSlot ELSE fd[s],
           \A o \in Obj \ Freed(D) : rf2[o] = pipe[o].refs - Lost(D, o)
    PROVE  Exact(tab2, rf2, heap \ Freed(D))
<1>1. /\ FdType /\ Exact(fd, Refs, heap) /\ None \notin heap
      /\ \A o \in Obj : Refs[o] = pipe[o].refs
      /\ \A s \in Slots : fd[s].obj \in heap \cup {None}
  BY TableFacts
<1>2. heap \subseteq Obj
  BY <1>1 DEF FdType
<1>3. ASSUME NEW o
      PROVE  o \in Freed(D) <=>
               /\ o # None
               /\ \E s \in D : fd[s].obj = o
               /\ \/ \E s \in D : fd[s].obj = o /\ fd[s].typ = "file"
                  \/ Refs[o] <= Cardinality(PipeSlots(fd, D, o))
  <2>1. o \in Names(D) <=> o # None /\ \E s \in D : fd[s].obj = o
    BY DEF Names
  <2>2. o \in Names(D) => Refs[o] = pipe[o].refs
    BY <1>1, <1>2, <2>1
  <2> QED
    BY <2>1, <2>2 DEF Freed
<1>4. \A o \in heap \ Freed(D) : rf2[o] = Refs[o] - Cardinality(PipeSlots(fd, D, o))
  BY <1>1, <1>2 DEF Lost
<1>5. \A o : o \in Freed(D) <=>
               /\ o # None
               /\ \E s \in D : fd[s].obj = o
               /\ \/ \E s \in D : fd[s].obj = o /\ fd[s].typ = "file"
                  \/ Refs[o] <= Cardinality(PipeSlots(fd, D, o))
  BY <1>3
<1>6. Dropped(fd, Refs, heap, D, tab2, rf2, Freed(D))
  BY <1>1, <1>4, <1>5 DEF Dropped
<1> QED
  BY <1>6, DropExact

LEMMA MarksTrue == Marks \in BOOLEAN /\ Marks = TRUE
  BY DEF Marks

LEMMA CloseTable ==
    ASSUME TableInv, Sound, NEW t \in alive, NEW f \in Fd, Close(t, f), calls' = calls + 1
    PROVE  TableInv'
<1> DEFINE x == <<t, f>>
<1>1. FdType /\ Departed /\ stale = {}
  BY TableFacts
<1>2. x \in Slots /\ {x} \in SUBSET Slots
  BY <1>1 DEF FdType, Slots
<1>3. fd' = [fd EXCEPT ![x] = NoSlot] /\ heap' = heap \ Freed({x}) /\ pipe' = Unref({x}, Marks)
      /\ UNCHANGED <<alive, outfd, stale, wild>>
  BY DEF Close
<1> HIDE DEF x
<1>4. pipe' \in [Obj -> PipeType]
  BY <1>1, <1>2, <1>3, UnrefPipes, MarksTrue
<1>5. FdType'
  <2>1. fd' \in [Slots -> SlotType]
    BY <1>1, <1>2, <1>3, SlotTypes DEF FdType
  <2> QED
    BY <1>1, <1>3, <1>4, <2>1, TypeNext DEF FdType
<1>6. Departed'
  BY <1>1, <1>2, <1>3 DEF Departed, FdType
<1>7. \A s \in Slots : fd'[s] = IF s \in {x} THEN NoSlot ELSE fd[s]
  BY <1>1, <1>2, <1>3 DEF FdType
<1>8. \A o \in Obj \ Freed({x}) : Refs'[o] = pipe[o].refs - Lost({x}, o)
  <2>1. \A o \in Obj : Refs'[o] = pipe'[o].refs
    BY DEF Refs
  <2> QED
    BY <1>1, <1>2, <1>3, <2>1, UnrefPipes, MarksTrue
<1>9. Exact(fd', Refs', heap')
  <2>1. {x} \in SUBSET Slots
    BY <1>2
  <2>2. Exact(fd', Refs', heap \ Freed({x}))
    BY <1>7, <1>8, <2>1, DropFd
  <2> QED
    BY <1>3, <2>2
<1> QED
  BY <1>1, <1>3, <1>5, <1>6, <1>9, TableNext

LEMMA ExitTable ==
    ASSUME TableInv, Sound, NEW t \in alive, Exit(t), calls' = calls + 1
    PROVE  TableInv'
<1> DEFINE D == {s \in Slots : s[1] = t /\ Open(s)}
<1>1. FdType /\ Departed /\ stale = {} /\ \A s \in Slots : fd[s].typ \in Held <=> fd[s].obj # None
  BY TableFacts
<1>2. /\ fd' = [s \in Slots |-> IF s[1] = t THEN NoSlot ELSE fd[s]]
      /\ heap' = heap \ Freed(D) /\ pipe' = Unref(D, Marks)
      /\ alive' = alive \ {t} /\ outfd' = [outfd EXCEPT ![t] = -1]
      /\ UNCHANGED <<stale, wild>>
  BY DEF Exit
<1>3. D \in SUBSET Slots
  OBVIOUS
<1>31. \A s \in Slots : s \in D <=> s[1] = t /\ fd[s].typ # "free"
  BY DEF Open
<1> HIDE DEF D
<1>4. pipe' \in [Obj -> PipeType]
  BY <1>1, <1>2, <1>3, UnrefPipes, MarksTrue
<1>5. FdType'
  <2>1. fd' \in [Slots -> SlotType]
    BY <1>1, <1>2, SlotTypes DEF FdType
  <2>2. -1 \in -1 .. (MaxFd - 1)
    BY Constants
  <2>3. outfd' \in [Task -> -1 .. (MaxFd - 1)]
    BY <1>1, <1>2, <2>2 DEF FdType
  <2>4. calls' \in Nat
    BY <1>1 DEF FdType
  <2>5. alive' \subseteq Task /\ heap' \subseteq Obj /\ stale' \subseteq Slots /\ wild' \in BOOLEAN
    BY <1>1, <1>2 DEF FdType
  <2> QED
    BY <1>4, <2>1, <2>3, <2>4, <2>5 DEF FdType
<1>6. Departed'
  BY <1>1, <1>2 DEF Departed, FdType
<1>7. Exact([s \in Slots |-> IF s \in D THEN NoSlot ELSE fd[s]], Refs', heap')
  <2>1. \A o \in Obj \ Freed(D) : Refs'[o] = pipe[o].refs - Lost(D, o)
    <3>1. \A o \in Obj : Refs'[o] = pipe'[o].refs
      BY DEF Refs
    <3> QED
      BY <1>1, <1>2, <1>3, <3>1, UnrefPipes, MarksTrue
  <2> DEFINE tab2 == [s \in Slots |-> IF s \in D THEN NoSlot ELSE fd[s]]
  <2>2. \A s \in Slots : tab2[s] = IF s \in D THEN NoSlot ELSE fd[s]
    OBVIOUS
  <2> HIDE DEF tab2
  <2>3. Exact(tab2, Refs', heap \ Freed(D))
    BY <1>3, <2>1, <2>2, DropFd
  <2> QED
    BY <1>2, <2>3 DEF tab2
<1>8. Exact(fd', Refs', heap')
  <2> DEFINE tab2 == [s \in Slots |-> IF s \in D THEN NoSlot ELSE fd[s]]
  <2>1. ASSUME NEW s \in Slots PROVE fd'[s].typ = tab2[s].typ /\ fd'[s].obj = tab2[s].obj
    <3>1. CASE s[1] = t /\ fd[s].typ = "free"
      <4>1. fd[s].obj = None
        BY <1>1, <3>1 DEF Held
      <4>2. tab2[s] = fd[s] /\ fd'[s] = NoSlot
        BY <1>2, <1>31, <3>1
      <4> QED
        BY <3>1, <4>1, <4>2 DEF NoSlot
    <3>2. CASE s[1] = t /\ fd[s].typ # "free"
      BY <1>2, <1>31, <3>2
    <3>3. CASE s[1] # t
      BY <1>2, <1>31, <3>3
    <3> QED
      BY <3>1, <3>2, <3>3
  <2>2. Exact(tab2, Refs', heap')
    BY <1>7
  <2>3. None \notin heap'
    BY <1>2, TableFacts
  <2> HIDE DEF tab2
  <2> QED
    BY <2>1, <2>2, <2>3, SameExact
<1> QED
  BY <1>1, <1>2, <1>5, <1>6, <1>8, TableNext

(* Filling one empty slot: with a device, with a file, with a pipe that a    *)
(* pipe slot already names.                                                  *)
OneFilled(tab, rf, h, x, rec, tab2, rf2, N) ==
    /\ Exact(tab, rf, h) /\ None \notin h /\ \A p \in h : rf[p] \in Int
    /\ x \in Slots /\ tab[x].obj = None
    /\ \A s \in Slots : tab2[s] = IF s = x THEN rec ELSE tab[s]
    /\ \/ /\ rec.typ \notin Held /\ rec.obj = None /\ N = {}
          /\ \A p \in h : rf2[p] = rf[p]
       \/ /\ rec.typ = "file" /\ rec.obj \notin h /\ rec.obj # None /\ N = {rec.obj}
          /\ \A p \in h : rf2[p] = rf[p]
       \/ /\ rec.typ \in Pipes /\ N = {}
          /\ \E r \in Slots : tab[r].typ \in Pipes /\ tab[r].obj = rec.obj
          /\ \A p \in h : rf2[p] = IF p = rec.obj THEN rf[p] + 1 ELSE rf[p]

LEMMA FillOne ==
    ASSUME NEW tab, NEW rf, NEW h, NEW x, NEW rec, NEW tab2, NEW rf2, NEW N,
           OneFilled(tab, rf, h, x, rec, tab2, rf2, N)
    PROVE  Exact(tab2, rf2, h \cup N)
<1> USE DEF OneFilled
<1>1. tab2[x] = rec /\ \A s \in Slots \ {x} : tab2[s] = tab[s]
  OBVIOUS
<1>2. {x} \in SUBSET Slots /\ N \cap h = {} /\ None \notin N
  OBVIOUS
<1>3. (rec.typ \in Held <=> rec.obj # None)
  BY DEF Held, Pipes, Exact
<1>4. rec.obj \in h \cup N \cup {None}
  BY DEF Exact
<1>5. rec.typ = "file" => rec.obj \in N
  BY DEF Held, Pipes
<1>6. rec.typ \in Pipes /\ rec.obj \in h =>
        \E r \in Slots : tab[r].typ \in Pipes /\ tab[r].obj = rec.obj
  BY DEF Held, Pipes
<1>7. \A o \in N : rec.obj = o
  OBVIOUS
<1>8. ASSUME NEW s \in Slots, tab2[s].typ \in Pipes
      PROVE  LET o == tab2[s].obj IN
             rf2[o] = (IF o \in h THEN rf[o] ELSE 0) + Cardinality(PipeSlots(tab2, {x}, o))
  <2> DEFINE o == tab2[s].obj
  <2>1. CASE rec.typ \in Pipes /\ o = rec.obj
    <3>1. PipeSlots(tab2, {x}, o) = {x}
      BY <1>1, <2>1 DEF PipeSlots
    <3>2. Cardinality(PipeSlots(tab2, {x}, o)) = 1
      BY <3>1, FS_Singleton
    <3>3. o \in h
      BY <1>3, <2>1 DEF Exact, Held, Pipes
    <3>4. rf2[o] = rf[o] + 1
      BY <2>1, <3>3 DEF Held, Pipes
    <3> QED
      BY <3>2, <3>3, <3>4
  <2>2. CASE ~(rec.typ \in Pipes /\ o = rec.obj)
    <3>1. PipeSlots(tab2, {x}, o) = {}
      BY <1>1, <2>2 DEF PipeSlots
    <3>2. Cardinality(PipeSlots(tab2, {x}, o)) = 0
      BY <3>1, FS_EmptySet
    <3>3. s # x
      BY <1>1, <1>8, <2>2
    <3>4. tab2[s] = tab[s]
      BY <1>1, <3>3
    <3>5. o \in h
      BY <1>8, <3>4 DEF Exact, Held, Pipes
    <3>6. rf2[o] = rf[o]
      BY <2>2, <3>5
    <3>7. rf[o] \in Int
      BY <3>5
    <3> QED
      BY <3>2, <3>5, <3>6, <3>7
  <2> QED
    BY <2>1, <2>2
<1>9. Filled(tab, rf, h, {x}, N, tab2, rf2)
  BY <1>1, <1>2, <1>3, <1>4, <1>5, <1>6, <1>7, <1>8 DEF Filled
<1> QED
  BY <1>9, AddExact

LEMMA FreeSlot ==
    ASSUME TableInv, Sound, NEW t \in alive, FreeFds(t) # {}
    PROVE  LET x == <<t, First(FreeFds(t))>> IN
           x \in Slots /\ fd[x].obj = None /\ fd[x].typ = "free"
<1>1. First(FreeFds(t)) \in FreeFds(t) /\ First(FreeFds(t)) \in Fd
  BY FirstIn DEF FreeFds
<1>2. t \in Task
  BY TableFacts DEF FdType
<1>3. <<t, First(FreeFds(t))>> \in Slots /\ fd[<<t, First(FreeFds(t))>>].typ = "free"
  BY <1>1, <1>2 DEF Slots, FreeFds, Open
<1> QED
  BY <1>3, TableFacts DEF Held

LEMMA OpenDeviceTable ==
    ASSUME TableInv, Sound, NEW t \in alive, NEW d \in Devices, OpenDevice(t, d), calls' = calls + 1
    PROVE  TableInv'
<1> DEFINE x == <<t, First(FreeFds(t))>>
<1>1. /\ FdType /\ Departed /\ stale = {} /\ Exact(fd, Refs, heap) /\ None \notin heap
      /\ \A o \in Obj : Refs[o] \in Int
  BY TableFacts
<1>2. x \in Slots /\ fd[x].obj = None
  BY FreeSlot DEF OpenDevice
<1>3. fd' = [fd EXCEPT ![x] = Device(d)] /\ UNCHANGED <<alive, outfd, heap, pipe, stale, wild>>
  BY DEF OpenDevice
<1>31. x[1] = t
  OBVIOUS
<1> HIDE DEF x
<1>4. Device(d) \in SlotType /\ Device(d).typ \notin Held /\ Device(d).obj = None
  BY FdAssumption, SlotTypes DEF Device, Held
<1>5. FdType'
  <2>1. fd' \in [Slots -> SlotType]
    BY <1>1, <1>2, <1>3, <1>4 DEF FdType
  <2> QED
    BY <1>1, <1>3, <2>1, TypeNext DEF FdType
<1>6. Departed'
  BY <1>1, <1>2, <1>3, <1>31 DEF Departed, FdType
<1>7. \A s \in Slots : fd'[s] = IF s = x THEN Device(d) ELSE fd[s]
  BY <1>1, <1>2, <1>3 DEF FdType
<1>8. Refs' = Refs /\ heap' = heap /\ \A p \in heap : Refs[p] \in Int
  BY <1>1, <1>3 DEF Refs, FdType
<1>9. Exact(fd', Refs, heap \cup {})
  <2>1. OneFilled(fd, Refs, heap, x, Device(d), fd', Refs, {})
    BY <1>1, <1>2, <1>4, <1>7, <1>8 DEF OneFilled
  <2> QED
    BY <2>1, FillOne
<1> QED
  BY <1>1, <1>3, <1>5, <1>6, <1>8, <1>9, TableNext

LEMMA OpenFileTable ==
    ASSUME TableInv, Sound, NEW t \in alive, NEW o \in Obj \ heap, NEW n \in Sizes,
           OpenFile(t, o, n), calls' = calls + 1
    PROVE  TableInv'
<1> DEFINE x == <<t, First(FreeFds(t))>>
           rec == [typ |-> "file", obj |-> o, cap |-> AtMost(n), size |-> n, pos |-> 0]
<1>1. /\ FdType /\ Departed /\ stale = {} /\ Exact(fd, Refs, heap) /\ None \notin heap
      /\ \A p \in Obj : Refs[p] \in Int
  BY TableFacts
<1>2. x \in Slots /\ fd[x].obj = None
  BY FreeSlot DEF OpenFile
<1>3. fd' = [fd EXCEPT ![x] = rec] /\ heap' = heap \cup {o} /\ UNCHANGED <<alive, outfd, pipe, stale, wild>>
  BY DEF OpenFile
<1>31. x[1] = t
  OBVIOUS
<1> HIDE DEF x
<1>4. rec \in SlotType /\ rec.typ = "file" /\ rec.obj = o
  BY Constants DEF SlotType, Kinds, AtMost
<1> HIDE DEF rec
<1>41. o # None
  BY FdAssumption
<1>5. FdType'
  <2>1. fd' \in [Slots -> SlotType]
    BY <1>1, <1>2, <1>3, <1>4 DEF FdType
  <2> QED
    BY <1>1, <1>3, <2>1, TypeNext DEF FdType
<1>6. Departed'
  BY <1>1, <1>2, <1>3, <1>31 DEF Departed, FdType
<1>7. \A s \in Slots : fd'[s] = IF s = x THEN rec ELSE fd[s]
  BY <1>1, <1>2, <1>3 DEF FdType
<1>8. Refs' = Refs /\ \A p \in heap : Refs[p] \in Int
  BY <1>1, <1>3 DEF Refs, FdType
<1>9. Exact(fd', Refs, heap \cup {o})
  <2>1. OneFilled(fd, Refs, heap, x, rec, fd', Refs, {o})
    BY <1>1, <1>2, <1>4, <1>41, <1>7, <1>8 DEF OneFilled
  <2> QED
    BY <2>1, FillOne
<1> QED
  BY <1>1, <1>3, <1>5, <1>6, <1>8, <1>9, TableNext

LEMMA LaunchTable ==
    ASSUME TableInv, Sound, NEW t \in Task, Launch(t), calls' = calls + 1
    PROVE  TableInv'
<1> DEFINE x == <<t, 0>>
<1>1. /\ FdType /\ Departed /\ stale = {} /\ Exact(fd, Refs, heap) /\ None \notin heap
      /\ \A p \in Obj : Refs[p] \in Int
  BY TableFacts
<1>2. x \in Slots /\ x[1] = t
  BY Constants DEF Slots
<1>3. /\ alive = {} /\ alive' = {t} /\ fd' = [fd EXCEPT ![x] = Device("fb")]
      /\ outfd' = [outfd EXCEPT ![t] = -1] /\ UNCHANGED <<heap, pipe, stale, wild>>
  BY DEF Launch
<1> HIDE DEF x
<1>4. fd[x].obj = None
  BY <1>1, <1>2, <1>3 DEF Departed, NoSlot
<1>5. Device("fb") \in SlotType /\ Device("fb").typ \notin Held /\ Device("fb").obj = None
  BY SlotTypes DEF Device, Held
<1>6. FdType'
  <2>1. fd' \in [Slots -> SlotType]
    BY <1>1, <1>2, <1>3, <1>5 DEF FdType
  <2>2. -1 \in -1 .. (MaxFd - 1)
    BY Constants
  <2>3. outfd' \in [Task -> -1 .. (MaxFd - 1)]
    BY <1>1, <1>3, <2>2 DEF FdType
  <2> QED
    BY <1>1, <1>3, <2>1, <2>3, TypeNext DEF FdType
<1>7. Departed'
  BY <1>1, <1>2, <1>3 DEF Departed, FdType
<1>8. \A s \in Slots : fd'[s] = IF s = x THEN Device("fb") ELSE fd[s]
  BY <1>1, <1>2, <1>3 DEF FdType
<1>9. Refs' = Refs /\ \A p \in heap : Refs[p] \in Int
  BY <1>1, <1>3 DEF Refs, FdType
<1>10. Exact(fd', Refs, heap \cup {})
  <2>1. OneFilled(fd, Refs, heap, x, Device("fb"), fd', Refs, {})
    BY <1>1, <1>2, <1>4, <1>5, <1>8, <1>9 DEF OneFilled
  <2> QED
    BY <2>1, FillOne
<1> QED
  BY <1>1, <1>3, <1>6, <1>7, <1>9, <1>10, TableNext

(* What dup and dup2 share, on a table in which dst is already empty.        *)
LEMMA DuplicateTable ==
    ASSUME FdType, NEW tab, NEW h \in SUBSET Obj, NEW pp \in [Obj -> PipeType],
           Exact(tab, [o \in Obj |-> pp[o].refs], h),
           NEW src \in Slots, NEW dst \in Slots, src # dst, tab[dst].obj = None,
           \A s \in Slots : s # dst => tab[s] = fd[s],
           Duplicate(src, dst, h, pp)
    PROVE  /\ fd' \in [Slots -> SlotType] /\ heap' \subseteq Obj /\ pipe' \in [Obj -> PipeType]
           /\ \A s \in Slots : s # dst => fd'[s] = fd[s]
           /\ Exact(fd', Refs', heap')
<1> DEFINE rf == [o \in Obj |-> pp[o].refs]
<1>0. None \notin h /\ \A o \in h : rf[o] \in Int
  BY FdAssumption DEF PipeType
<1>1. fd[src] \in SlotType /\ tab[src] = fd[src]
  BY DEF FdType
<1>2. ASSUME NEW rec \in SlotType, fd' = [fd EXCEPT ![dst] = rec]
      PROVE  /\ fd' \in [Slots -> SlotType]
             /\ \A s \in Slots : s # dst => fd'[s] = fd[s]
             /\ \A s \in Slots : fd'[s] = IF s = dst THEN rec ELSE tab[s]
  BY <1>2 DEF FdType
<1>21. \A o \in Obj : Refs'[o] = pipe'[o].refs
  BY DEF Refs
<1>3. CASE fd[src].typ = "file"
  <2>1. PICK o \in Obj \ h :
           /\ heap' = h \cup {o}
           /\ fd' = [fd EXCEPT ![dst] = [fd[src] EXCEPT !.obj = o, !.cap = fd[src].size]]
           /\ pipe' = pp
    BY <1>3 DEF Duplicate
  <2> DEFINE rec == [fd[src] EXCEPT !.obj = o, !.cap = fd[src].size]
  <2>2. rec \in SlotType /\ rec.typ = "file" /\ rec.obj = o
    BY <1>1, <1>3 DEF SlotType
  <2>3. o # None
    BY FdAssumption
  <2> HIDE DEF rec
  <2>4. fd' = [fd EXCEPT ![dst] = rec]
    BY <2>1 DEF rec
  <2>5. /\ fd' \in [Slots -> SlotType]
        /\ \A s \in Slots : s # dst => fd'[s] = fd[s]
        /\ \A s \in Slots : fd'[s] = IF s = dst THEN rec ELSE tab[s]
    BY <1>2, <2>2, <2>4
  <2>6. \A p \in h : Refs'[p] = rf[p]
    BY <1>21, <2>1
  <2> HIDE DEF rf
  <2>7. OneFilled(tab, rf, h, dst, rec, fd', Refs', {o})
    BY <1>0, <2>2, <2>3, <2>5, <2>6 DEF OneFilled, rf
  <2>8. Exact(fd', Refs', h \cup {o})
    BY <2>7, FillOne
  <2> QED
    BY <2>1, <2>5, <2>8
<1>4. CASE fd[src].typ # "file"
  <2>1. /\ heap' = h
        /\ fd' = [fd EXCEPT ![dst] = fd[src]]
        /\ pipe' = IF fd[src].typ \in Pipes THEN Referenced(fd[src].obj, pp) ELSE pp
    BY <1>4 DEF Duplicate
  <2>2. /\ fd' \in [Slots -> SlotType]
        /\ \A s \in Slots : s # dst => fd'[s] = fd[s]
        /\ \A s \in Slots : fd'[s] = IF s = dst THEN fd[src] ELSE tab[s]
    BY <1>1, <1>2, <2>1
  <2>3. CASE fd[src].typ \in Pipes
    <3> DEFINE o == fd[src].obj
    <3>1. o \in h
      BY <1>1, <2>3 DEF Exact, Held, Pipes
    <3>2. o \in Obj
      BY <3>1
    <3>3. /\ pipe' \in [Obj -> PipeType] /\ pipe'[o].refs = pp[o].refs + 1
          /\ \A p \in Obj \ {o} : pipe'[p] = pp[p]
      BY <2>1, <2>3, <3>2, ReferencedPipes, ZenonT(30)
    <3>4. \A p \in h : Refs'[p] = IF p = o THEN rf[p] + 1 ELSE rf[p]
      BY <1>21, <3>3
    <3> HIDE DEF rf
    <3>5. OneFilled(tab, rf, h, dst, fd[src], fd', Refs', {})
      BY <1>0, <1>1, <2>2, <2>3, <3>4 DEF OneFilled, rf
    <3>6. Exact(fd', Refs', h \cup {})
      BY <3>5, FillOne
    <3> QED
      BY <2>1, <2>2, <3>3, <3>6
  <2>4. CASE fd[src].typ \notin Pipes
    <3>1. fd[src].typ \notin Held /\ fd[src].obj = None
      BY <1>1, <1>4, <2>4 DEF Held, Pipes, Exact
    <3>2. pipe' = pp
      BY <2>1, <2>4
    <3>3. \A p \in h : Refs'[p] = rf[p]
      BY <1>21, <3>2
    <3> HIDE DEF rf
    <3>4. OneFilled(tab, rf, h, dst, fd[src], fd', Refs', {})
      BY <1>0, <1>1, <2>2, <3>1, <3>3 DEF OneFilled, rf
    <3>5. Exact(fd', Refs', h \cup {})
      BY <3>4, FillOne
    <3> QED
      BY <2>1, <2>2, <3>2, <3>5
  <2> QED
    BY <2>3, <2>4
<1> QED
  BY <1>3, <1>4

LEMMA DupTable ==
    ASSUME TableInv, Sound, NEW t \in alive, NEW f \in Fd, Dup(t, f), calls' = calls + 1
    PROVE  TableInv'
<1> DEFINE src == <<t, f>>
           dst == <<t, First(FreeFds(t))>>
<1>1. FdType /\ Departed /\ stale = {} /\ Exact(fd, Refs, heap)
  BY TableFacts
<1>2. dst \in Slots /\ fd[dst].obj = None /\ fd[dst].typ = "free"
  BY FreeSlot DEF Dup
<1>3. src \in Slots /\ fd[src].typ # "free" /\ src # dst
  BY <1>1, <1>2 DEF Dup, Open, Slots, FdType
<1>31. dst[1] = t
  OBVIOUS
<1>4. Duplicate(src, dst, heap, pipe) /\ UNCHANGED <<alive, outfd, stale, wild>>
  BY DEF Dup
<1> HIDE DEF src, dst
<1>5. heap \in SUBSET Obj /\ pipe \in [Obj -> PipeType] /\ Refs = [o \in Obj |-> pipe[o].refs]
  BY <1>1 DEF FdType, Refs
<1>6. /\ fd' \in [Slots -> SlotType] /\ heap' \subseteq Obj /\ pipe' \in [Obj -> PipeType]
      /\ \A s \in Slots : s # dst => fd'[s] = fd[s]
      /\ Exact(fd', Refs', heap')
  BY <1>1, <1>2, <1>3, <1>4, <1>5, DuplicateTable
<1>7. FdType'
  BY <1>1, <1>4, <1>6, TypeNext DEF FdType
<1>8. Departed'
  BY <1>1, <1>31, <1>4, <1>6 DEF Departed
<1> QED
  BY <1>1, <1>4, <1>6, <1>7, <1>8, TableNext

(* The table and the pipes after dup2 gave new_fd up.                        *)
LEMMA ReplacedTable ==
    ASSUME TableInv, Sound, NEW x \in Slots,
           NEW tab, \A s \in Slots : tab[s] = IF s = x THEN NoSlot ELSE fd[s]
    PROVE  /\ Exact(tab, [o \in Obj |-> Replaced(x)[o].refs], heap \ Freed({x}))
           /\ Replaced(x) \in [Obj -> PipeType]
<1> DEFINE rf == [o \in Obj |-> Replaced(x)[o].refs]
<1>1. FdType
  BY TableFacts
<1>2. \A o \in Obj \ Freed({x}) : rf[o] = pipe[o].refs - Lost({x}, o)
  BY <1>1, ReplacedPipes
<1>3. {x} \in SUBSET Slots /\ \A s \in Slots : tab[s] = IF s \in {x} THEN NoSlot ELSE fd[s]
  OBVIOUS
<1> HIDE DEF rf
<1>4. Exact(tab, rf, heap \ Freed({x}))
  BY <1>2, <1>3, DropFd
<1> QED
  BY <1>1, <1>4, ReplacedPipes DEF rf

LEMMA Dup2Table ==
    ASSUME TableInv, Sound, NEW t \in alive, NEW f \in Fd, NEW g \in Fd,
           Dup2(t, f, g), calls' = calls + 1
    PROVE  TableInv'
<1> DEFINE src == <<t, f>>
           dst == <<t, g>>
           tab == [s \in Slots |-> IF s = dst THEN NoSlot ELSE fd[s]]
           h == heap \ Freed({dst})
           pp == Replaced(dst)
<1>1. FdType /\ Departed /\ stale = {}
  BY TableFacts
<1>2. src \in Slots /\ dst \in Slots /\ src # dst /\ dst[1] = t
  BY <1>1 DEF Dup2, Slots, FdType
<1>3. Duplicate(src, dst, h, pp) /\ UNCHANGED <<alive, outfd, stale, wild>>
  BY DEF Dup2
<1> HIDE DEF src, dst
<1>4. Exact(tab, [o \in Obj |-> pp[o].refs], h) /\ pp \in [Obj -> PipeType]
  <2>1. \A s \in Slots : tab[s] = IF s = dst THEN NoSlot ELSE fd[s]
    OBVIOUS
  <2> HIDE DEF tab
  <2> QED
    BY <1>2, <2>1, ReplacedTable
<1>5. tab[dst].obj = None /\ \A s \in Slots : s # dst => tab[s] = fd[s]
  BY <1>2 DEF NoSlot
<1>6. h \in SUBSET Obj
  BY <1>1 DEF FdType
<1> HIDE DEF tab, h, pp
<1>7. /\ fd' \in [Slots -> SlotType] /\ heap' \subseteq Obj /\ pipe' \in [Obj -> PipeType]
      /\ \A s \in Slots : s # dst => fd'[s] = fd[s]
      /\ Exact(fd', Refs', heap')
  BY <1>1, <1>2, <1>3, <1>4, <1>5, <1>6, DuplicateTable
<1>8. FdType'
  BY <1>1, <1>3, <1>7, TypeNext DEF FdType
<1>9. Departed'
  BY <1>1, <1>2, <1>3, <1>7 DEF Departed
<1> QED
  BY <1>1, <1>3, <1>7, <1>8, <1>9, TableNext

LEMMA Dup2FailsTable ==
    ASSUME TableInv, Sound, NEW t \in alive, NEW f \in Fd, NEW g \in Fd,
           Dup2Fails(t, f, g), calls' = calls + 1
    PROVE  TableInv'
<1> DEFINE x == <<t, g>>
           tab == [s \in Slots |-> IF s = x THEN NoSlot ELSE fd[s]]
<1>1. FdType /\ Departed /\ stale = {} /\ Exact(fd, Refs, heap) /\ None \notin heap
  BY TableFacts
<1>2. x \in Slots
  BY <1>1 DEF Slots, FdType
<1>3. /\ heap' = heap \ Freed({x}) /\ pipe' = Replaced(x)
      /\ stale' = {s \in {x} : fd[s].obj # None}
      /\ UNCHANGED <<alive, fd, outfd, wild>>
  BY DEF Dup2Fails
<1> HIDE DEF x
<1>4. /\ Exact(tab, [o \in Obj |-> pipe'[o].refs], heap') /\ pipe' \in [Obj -> PipeType]
  <2>1. \A s \in Slots : tab[s] = IF s = x THEN NoSlot ELSE fd[s]
    OBVIOUS
  <2> HIDE DEF tab
  <2> QED
    BY <1>2, <1>3, <2>1, ReplacedTable
<1>5. FdType'
  BY <1>1, <1>2, <1>3, <1>4, TypeNext DEF FdType
<1>6. Departed'
  BY <1>1, <1>3 DEF Departed
<1>7. CASE fd[x].obj # None
  <2>1. stale' = {x}
    BY <1>3, <1>7
  <2>2. Shown' = tab
    BY <1>3, <2>1 DEF Shown
  <2>3. Refs' = [o \in Obj |-> pipe'[o].refs]
    BY DEF Refs
  <2> QED
    BY <1>4, <1>5, <1>6, <2>2, <2>3 DEF TableInv
<1>8. CASE fd[x].obj = None
  <2>1. stale' = {}
    BY <1>3, <1>8
  <2>2. Freed({x}) = {}
    BY <1>8 DEF Freed, Names
  <2>3. \A o \in heap : Refs'[o] = Refs[o]
    <3> SUFFICES ASSUME NEW o \in heap PROVE Refs'[o] = Refs[o]
      OBVIOUS
    <3>1. o \in Obj /\ o # None
      BY <1>1 DEF FdType
    <3>2. PipeSlots(fd, {x}, o) = {}
      BY <1>8, <3>1 DEF PipeSlots
    <3>3. Lost({x}, o) = 0
      BY <3>2, FS_EmptySet DEF Lost
    <3>4. pipe'[o].refs = pipe[o].refs - 0
      BY <1>1, <1>2, <1>3, <2>2, <3>1, <3>3, ReplacedPipes
    <3>5. pipe[o].refs \in Int /\ Refs[o] = pipe[o].refs /\ Refs'[o] = pipe'[o].refs
      BY <3>1, TableFacts DEF Refs
    <3> QED
      BY <3>4, <3>5
  <2>4. heap' = heap /\ fd' = fd
    BY <1>3, <2>2
  <2>5. Exact(fd, Refs', heap)
    BY <1>1, <2>3, SameExact
  <2> QED
    BY <1>5, <1>6, <2>1, <2>4, <2>5, TableNext
<1> QED
  BY <1>7, <1>8

LEMMA TwoFree ==
    ASSUME TableInv, Sound, NEW t \in alive, Cardinality(FreeFds(t)) >= 2
    PROVE  LET r == First(FreeFds(t))
               w == First(FreeFds(t) \ {r}) IN
           /\ r \in FreeFds(t) /\ w \in FreeFds(t) /\ r # w
           /\ <<t, r>> \in Slots /\ <<t, w>> \in Slots
           /\ fd[<<t, r>>].obj = None /\ fd[<<t, w>>].obj = None
<1> DEFINE F == FreeFds(t)
           r == First(F)
           w == First(F \ {r})
<1>1. F \in SUBSET Fd
  BY DEF FreeFds
<1>2. F # {}
  BY FS_EmptySet
<1>3. r \in F /\ r \in Fd
  BY <1>1, <1>2, FirstIn
<1>4. F \ {r} # {}
  <2> SUFFICES ASSUME F = {r} PROVE FALSE
    BY <1>3
  <2>1. Cardinality(F) = 1
    BY FS_Singleton
  <2> QED
    BY <2>1
<1>5. w \in F \ {r} /\ w \in Fd
  <2>1. F \ {r} \in SUBSET Fd
    BY <1>1
  <2> QED
    BY <1>4, <2>1, FirstIn
<1>6. t \in Task
  BY TableFacts DEF FdType
<1>7. \A f \in F : <<t, f>> \in Slots /\ fd[<<t, f>>].typ = "free"
  BY <1>6 DEF FreeFds, Open, Slots
<1>8. \A f \in F : fd[<<t, f>>].obj = None
  BY <1>7, TableFacts DEF Held
<1> HIDE DEF F, r, w
<1> QED
  BY <1>3, <1>5, <1>7, <1>8 DEF F, r, w

LEMMA MakePipeTable ==
    ASSUME TableInv, Sound, NEW t \in alive, NEW o \in Obj \ heap, NEW copied \in BOOLEAN,
           MakePipe(t, o, copied), calls' = calls + 1
    PROVE  TableInv'
<1> DEFINE r == First(FreeFds(t))
           w == First(FreeFds(t) \ {r})
           xr == <<t, r>>
           xw == <<t, w>>
           tab == [fd EXCEPT ![xr] = End("rpipe", o), ![xw] = End("wpipe", o)]
<1>1. /\ FdType /\ Departed /\ stale = {} /\ Exact(fd, Refs, heap) /\ None \notin heap
      /\ \A p \in Obj : Refs[p] = pipe[p].refs /\ Refs[p] \in Int
      /\ \A s \in Slots : fd[s].typ \in Held <=> fd[s].obj # None
  BY TableFacts
<1>2. /\ r \in FreeFds(t) /\ w \in FreeFds(t) /\ r # w /\ xr \in Slots /\ xw \in Slots
      /\ fd[xr].obj = None /\ fd[xw].obj = None
  BY TwoFree DEF MakePipe
<1>3. /\ fd' = IF copied THEN tab ELSE Rollback(tab, t)
      /\ heap' = IF copied THEN heap \cup {o} ELSE heap
      /\ pipe' = [pipe EXCEPT ![o] = NewPipe]
      /\ UNCHANGED <<alive, outfd, stale, wild>>
  BY DEF MakePipe
<1>4. xr # xw /\ xr[1] = t /\ xw[1] = t /\ xr[2] = r /\ xw[2] = w
  BY <1>2
<1> HIDE DEF r, w, xr, xw
<1>5. /\ End("rpipe", o) \in SlotType /\ End("wpipe", o) \in SlotType
      /\ End("rpipe", o).typ = "rpipe" /\ End("wpipe", o).typ = "wpipe"
      /\ End("rpipe", o).obj = o /\ End("wpipe", o).obj = o
  BY SlotTypes DEF End
<1>6. /\ tab \in [Slots -> SlotType]
      /\ tab[xr] = End("rpipe", o) /\ tab[xw] = End("wpipe", o)
      /\ \A s \in Slots \ {xr, xw} : tab[s] = fd[s]
  BY <1>1, <1>2, <1>4, <1>5 DEF FdType
<1> HIDE DEF tab
<1>7. pipe' \in [Obj -> PipeType] /\ pipe'[o] = NewPipe /\ \A p \in Obj \ {o} : pipe'[p] = pipe[p]
  BY <1>1, <1>3, NewPipeType DEF FdType
<1>8. \A p \in Obj : Refs'[p] = pipe'[p].refs
  BY DEF Refs
<1>9. o # None
  BY FdAssumption
<1>10. \A p \in heap : Refs'[p] = Refs[p]
  BY <1>1, <1>7, <1>8 DEF FdType
<1>11. CASE copied
  <2>1. fd' = tab /\ heap' = heap \cup {o}
    BY <1>3, <1>11
  <2>2. FdType'
    BY <1>1, <1>3, <1>6, <1>7, <2>1, TypeNext DEF FdType
  <2>3. Departed'
    BY <1>1, <1>3, <1>4, <1>6, <2>1 DEF Departed
  <2> DEFINE A == {xr, xw}
  <2>4. A \in SUBSET Slots /\ {o} \cap heap = {} /\ None \notin {o}
    BY <1>2, <1>9
  <2>5. \A s \in Slots \ A : tab[s] = fd[s]
    BY <1>6
  <2>6. \A s \in A : /\ fd[s].obj = None /\ tab[s].obj = o /\ tab[s].typ \in Pipes
                     /\ tab[s].typ \in Held /\ tab[s].typ # "file"
    BY <1>2, <1>5, <1>6 DEF Pipes, Held
  <2>7. ASSUME NEW s \in Slots, tab[s].typ \in Pipes
        PROVE  LET q == tab[s].obj IN
               Refs'[q] = (IF q \in heap THEN Refs[q] ELSE 0) + Cardinality(PipeSlots(tab, A, q))
    <3>1. CASE s \in A
      <4>1. tab[s].obj = o
        BY <2>6, <3>1
      <4>2. PipeSlots(tab, A, o) = {xr} \cup {xw}
        BY <2>6 DEF PipeSlots
      <4>3. Cardinality({xr} \cup {xw}) = 2
        <5>1. {xr} \in SUBSET Slots /\ {xw} \in SUBSET Slots /\ {xr} \cap {xw} = {}
          BY <1>2, <1>4
        <5>2. Cardinality({xr}) = 1 /\ Cardinality({xw}) = 1
          BY FS_Singleton
        <5>3. Cardinality({xr} \cup {xw}) = Cardinality({xr}) + Cardinality({xw})
          BY <5>1, DisjointSlots
        <5> QED
          BY <5>2, <5>3
      <4>4. Refs'[o] = 2
        BY <1>7, <1>8, NewPipeType
      <4> QED
        BY <4>1, <4>2, <4>3, <4>4
    <3>2. CASE s \notin A
      <4>1. tab[s] = fd[s]
        BY <2>5, <3>2
      <4>2. tab[s].obj \in heap
        BY <1>1, <2>7, <4>1 DEF Exact, Held, Pipes
      <4>3. PipeSlots(tab, A, tab[s].obj) = {}
        BY <2>6, <4>2 DEF PipeSlots
      <4>4. Cardinality(PipeSlots(tab, A, tab[s].obj)) = 0
        BY <4>3, FS_EmptySet
      <4>5. Refs'[tab[s].obj] = Refs[tab[s].obj] /\ Refs[tab[s].obj] \in Int
        BY <1>1, <1>10, <4>2 DEF FdType
      <4> QED
        BY <4>2, <4>4, <4>5
    <3> QED
      BY <3>1, <3>2
  <2>71. xr \in A
    OBVIOUS
  <2>72. \A q \in heap : Refs[q] \in Int
    BY <1>1 DEF FdType
  <2> HIDE DEF A
  <2>8. Filled(fd, Refs, heap, A, {o}, tab, Refs')
    BY <1>1, <1>9, <2>4, <2>5, <2>6, <2>7, <2>71, <2>72 DEF Filled
  <2>9. Exact(fd', Refs', heap')
    BY <2>1, <2>8, AddExact
  <2> QED
    BY <1>1, <1>3, <2>2, <2>3, <2>9, TableNext
<1>12. CASE ~copied
  <2>1. fd' = Rollback(tab, t) /\ heap' = heap
    BY <1>3, <1>12
  <2>2. \A s \in Slots : fd'[s] = IF s[1] = t /\ s[2] \in FreeFds(t) THEN NoSlot ELSE tab[s]
    BY <2>1 DEF Rollback
  <2>3. fd' \in [Slots -> SlotType]
    BY <1>6, <2>1, SlotTypes DEF Rollback
  <2>4. FdType'
    BY <1>1, <1>3, <1>7, <2>1, <2>3, TypeNext DEF FdType
  <2>5. Departed'
    BY <1>1, <1>3, <1>4, <1>6, <2>2 DEF Departed
  <2>6. ASSUME NEW s \in Slots PROVE fd'[s].typ = fd[s].typ /\ fd'[s].obj = fd[s].obj
    <3>1. CASE s[1] = t /\ s[2] \in FreeFds(t)
      <4>1. fd[s].typ = "free"
        <5>1. s = <<s[1], s[2]>>
          BY DEF Slots
        <5> QED
          BY <3>1, <5>1 DEF FreeFds, Open
      <4>2. fd[s].obj = None
        BY <1>1, <4>1 DEF Held
      <4> QED
        BY <2>2, <3>1, <4>1, <4>2 DEF NoSlot
    <3>2. CASE ~(s[1] = t /\ s[2] \in FreeFds(t))
      <4>1. s # xr /\ s # xw
        BY <1>2, <1>4, <3>2
      <4> QED
        BY <1>6, <2>2, <3>2, <4>1
    <3> QED
      BY <3>1, <3>2
  <2>7. Exact(fd', Refs', heap)
    BY <1>1, <1>10, <2>6, SameExact
  <2> QED
    BY <1>1, <1>3, <2>1, <2>4, <2>5, <2>7, TableNext
<1> QED
  BY <1>11, <1>12

(* An injection of the files into as many objects uses them all.             *)
LEMMA AllCopied ==
    ASSUME NEW F, NEW S, IsFiniteSet(S), Cardinality(S) = Cardinality(F),
           NEW new \in [F -> S], \A f, g \in F : f # g => new[f] # new[g]
    PROVE  \A o \in S : \E f \in F : new[f] = o
<1>1. new \in Injection(F, S)
  BY DEF Injection, IsInjective
<1>2. new \in Surjection(F, S)
  BY <1>1, FS_Injection
<1> QED
  BY <1>2 DEF Surjection

LEMMA ForkTable ==
    ASSUME TableInv, Sound, NEW t \in alive, NEW c \in Task \ alive,
           Fork(t, c), calls' = calls + 1
    PROVE  TableInv'
<1> DEFINE A == {s \in Slots : s[1] = c}
           src(s) == <<t, s[2]>>
<1>1. /\ FdType /\ Departed /\ stale = {} /\ Exact(fd, Refs, heap) /\ None \notin heap
      /\ \A p \in Obj : Refs[p] = pipe[p].refs /\ Refs[p] \in Int
      /\ \A s \in Slots : fd[s] \in SlotType /\ fd[s].obj \in heap \cup {None}
      /\ \A s \in Slots : fd[s].typ \in Held <=> fd[s].obj # None
  BY TableFacts
<1>2. PICK S \in SUBSET (Obj \ heap) :
         /\ Cardinality(S) = Cardinality(Files(t))
         /\ \E new \in [Files(t) -> S] :
              /\ \A f, g \in Files(t) : f # g => new[f] # new[g]
              /\ fd' = Inherited(t, c, new)
              /\ heap' = heap \cup S
              /\ pipe' = Counted(fd', c, MaxFd, pipe)
  BY DEF Fork
<1>3. PICK new \in [Files(t) -> S] :
              /\ \A f, g \in Files(t) : f # g => new[f] # new[g]
              /\ fd' = Inherited(t, c, new)
              /\ heap' = heap \cup S
              /\ pipe' = Counted(fd', c, MaxFd, pipe)
  BY <1>2
<1>4. alive' = alive \cup {c} /\ outfd' = [outfd EXCEPT ![c] = -1] /\ UNCHANGED <<stale, wild>>
  BY DEF Fork
<1>5. t \in Task /\ c \in Task /\ t # c
  BY <1>1 DEF FdType
<1>6. \A s \in Slots : src(s) \in Slots /\ s = <<s[1], s[2]>> /\ s[2] \in Fd
  BY <1>5 DEF Slots
<1>7. \A s \in A : fd[s] = NoSlot /\ fd[s].obj = None
  BY <1>1 DEF Departed, NoSlot
<1>8. \A o \in S : \E f \in Files(t) : new[f] = o
  <2>1. IsFiniteSet(S)
    BY FdAssumption, FS_Subset
  <2> QED
    BY <1>2, <1>3, <2>1, AllCopied
<1>9. \A s \in Slots \ A : fd'[s] = fd[s]
  BY <1>3 DEF Inherited
<1>10. ASSUME NEW s \in A, s[2] \in Files(t)
       PROVE  /\ fd'[s] \in SlotType
              /\ fd'[s].typ = "file" /\ fd'[s].obj = new[s[2]] /\ new[s[2]] \in S
  <2>0. s \in Slots /\ s[1] = c
    OBVIOUS
  <2>1. fd'[s] = [fd[src(s)] EXCEPT !.obj = new[s[2]], !.cap = fd[src(s)].size]
    BY <1>3, <1>10, <2>0 DEF Inherited
  <2>2. fd[src(s)] \in SlotType /\ fd[src(s)].typ = "file"
    BY <1>1, <1>6, <1>10 DEF Files
  <2>3. new[s[2]] \in S /\ new[s[2]] \in Obj
    BY <1>3, <1>10
  <2> QED
    BY <2>1, <2>2, <2>3 DEF SlotType
<1>11. ASSUME NEW s \in A, s[2] \notin Files(t)
       PROVE  fd'[s] = fd[src(s)] /\ fd[src(s)].typ # "file"
  BY <1>3, <1>6, <1>11 DEF Inherited, Files
<1>12. fd' \in [Slots -> SlotType]
  <2>1. \A s \in Slots : fd'[s] \in SlotType
    BY <1>1, <1>6, <1>9, <1>10, <1>11, ZenonT(30)
  <2>2. fd' = [s \in Slots |-> fd'[s]]
    BY <1>3 DEF Inherited
  <2> QED
    BY <2>1, <2>2
<1>13. ChildSlots(c, MaxFd) = A
  BY Constants DEF ChildSlots, Slots, Fd
<1>14. /\ pipe' \in [Obj -> PipeType]
       /\ \A o \in Obj : pipe'[o].refs = pipe[o].refs + Cardinality(PipeSlots(fd', A, o))
  <2>1. pipe \in [Obj -> PipeType]
    BY <1>1 DEF FdType
  <2> HIDE DEF A
  <2> QED
    BY <1>3, <1>13, <2>1, CountedPipes
<1>15. FdType'
  <2>1. -1 \in -1 .. (MaxFd - 1)
    BY Constants
  <2>2. outfd' \in [Task -> -1 .. (MaxFd - 1)]
    BY <1>1, <1>4, <2>1 DEF FdType
  <2> QED
    BY <1>1, <1>3, <1>4, <1>5, <1>12, <1>14, <2>2, TypeNext DEF FdType
<1>16. Departed'
  BY <1>1, <1>4, <1>9 DEF Departed
<1>17. \A o \in Obj : Refs'[o] = pipe'[o].refs
  BY DEF Refs
<1>18. A \in SUBSET Slots /\ S \cap heap = {} /\ None \notin S
  BY FdAssumption
<1>19. \A o \in S : \E s \in A : fd'[s].obj = o
  <2> SUFFICES ASSUME NEW o \in S PROVE \E s \in A : fd'[s].obj = o
    OBVIOUS
  <2>1. PICK f \in Files(t) : new[f] = o
    BY <1>8
  <2>2. <<c, f>> \in A /\ <<c, f>>[2] = f
    BY <1>5 DEF Slots, Files
  <2> QED
    BY <1>10, <2>1, <2>2
<1>20. ASSUME NEW s \in A
       PROVE  /\ fd'[s].typ \in Held <=> fd'[s].obj # None
              /\ fd'[s].obj \in heap \cup S \cup {None}
              /\ fd'[s].typ \in Pipes => \E r \in Slots : fd[r].typ \in Pipes /\ fd[r].obj = fd'[s].obj
  <2>1. CASE s[2] \in Files(t)
    BY <1>10, <1>18, <2>1 DEF Held, Pipes
  <2>2. CASE s[2] \notin Files(t)
    <3>1. fd'[s] = fd[src(s)] /\ src(s) \in Slots
      BY <1>6, <1>11, <2>2
    <3> HIDE DEF src, A
    <3>2. fd[src(s)].obj \in heap \cup {None}
      BY <1>1, <3>1
    <3>3. fd[src(s)].typ \in Held <=> fd[src(s)].obj # None
      BY <1>1, <3>1
    <3> QED
      BY <3>1, <3>2, <3>3
  <2> QED
    BY <2>1, <2>2
<1>21. ASSUME NEW s \in A, fd'[s].typ = "file"
       PROVE  fd'[s].obj \in S /\ \A r \in A : fd'[r].obj = fd'[s].obj => r = s
  <2>1. s[2] \in Files(t)
    BY <1>11, <1>21
  <2>2. fd'[s].obj = new[s[2]] /\ fd'[s].obj \in S
    BY <1>10, <2>1
  <2>3. ASSUME NEW r \in A, fd'[r].obj = fd'[s].obj PROVE r = s
    <3>1. CASE r[2] \in Files(t)
      <4>1. new[r[2]] = new[s[2]]
        BY <1>10, <2>2, <2>3, <3>1
      <4>2. r[2] = s[2]
        BY <1>3, <2>1, <3>1, <4>1
      <4> QED
        BY <1>6, <4>2
    <3>2. CASE r[2] \notin Files(t)
      <4>1. fd'[r].obj \in heap \cup {None}
        BY <1>1, <1>6, <1>11, <3>2
      <4> QED
        BY <1>18, <2>2, <2>3, <4>1
    <3> QED
      BY <3>1, <3>2
  <2> QED
    BY <2>2, <2>3
<1>22. ASSUME NEW s \in Slots, fd'[s].typ \in Pipes
       PROVE  LET o == fd'[s].obj IN
              Refs'[o] = (IF o \in heap THEN Refs[o] ELSE 0) + Cardinality(PipeSlots(fd', A, o))
  <2>1. \E r \in Slots : fd[r].typ \in Pipes /\ fd[r].obj = fd'[s].obj
    BY <1>9, <1>20, <1>22
  <2>2. fd'[s].obj \in heap
    BY <1>1, <2>1 DEF Held, Pipes
  <2>3. fd'[s].obj \in Obj
    BY <1>1, <2>2 DEF FdType
  <2> HIDE DEF A
  <2> QED
    BY <1>1, <1>14, <1>17, <2>2, <2>3
<1>221. \A p \in heap : Refs[p] \in Int
  BY <1>1 DEF FdType
<1> HIDE DEF A
<1>23. Filled(fd, Refs, heap, A, S, fd', Refs')
  BY <1>1, <1>7, <1>9, <1>18, <1>19, <1>20, <1>21, <1>22, <1>221 DEF Filled
<1>24. Exact(fd', Refs', heap')
  BY <1>3, <1>23, AddExact
<1> QED
  BY <1>1, <1>4, <1>15, <1>16, <1>24, TableNext

LEMMA ForkFailsTable ==
    ASSUME TableInv, Sound, NEW t \in alive, NEW c \in Task \ alive,
           ForkFails(t, c), calls' = calls + 1
    PROVE  TableInv'
<1>1. /\ FdType /\ Departed /\ stale = {} /\ Exact(fd, Refs, heap) /\ None \notin heap
      /\ \A p \in Obj : Refs[p] = pipe[p].refs
  BY TableFacts
<1>2. \E i, tab : pipe' = Uncounted(tab, c, i, Counted(tab, c, i, pipe))
  BY DEF ForkFails
<1>3. UNCHANGED <<alive, fd, outfd, heap, stale, wild>>
  BY DEF ForkFails
<1>4. pipe \in [Obj -> PipeType]
  BY <1>1 DEF FdType
<1>5. pipe' \in [Obj -> PipeType] /\ \A o \in Obj : pipe'[o].refs = pipe[o].refs
  BY <1>2, <1>4, UncountedPipes
<1>6. FdType'
  BY <1>1, <1>3, <1>5, TypeNext DEF FdType
<1>7. Departed'
  BY <1>1, <1>3 DEF Departed
<1>8. \A o \in heap : Refs'[o] = Refs[o]
  <2>1. \A o \in Obj : Refs'[o] = pipe'[o].refs
    BY DEF Refs
  <2> QED
    BY <1>1, <1>5, <2>1 DEF FdType
<1>9. Exact(fd', Refs', heap')
  BY <1>1, <1>3, <1>8, SameExact
<1> QED
  BY <1>1, <1>3, <1>6, <1>7, <1>9, TableNext

---------------------------------------------------------------------------
(* The ring of a pipe.                                                       *)

LEMMA ModWrap ==
    ASSUME NEW a \in Nat, NEW C \in Nat, C > 0, a < C + C
    PROVE  a % C = IF a < C THEN a ELSE a - C
<1>1. CASE a < C
  BY <1>1
<1>2. CASE C <= a
  <2>1. a % C = a - C
    BY <1>2
  <2> QED
    BY <1>2, <2>1
<1> QED
  BY <1>1, <1>2

LEMMA RingMove ==
    ASSUME NEW C \in Nat, C > 0, NEW r \in Int, 0 <= r, r < C, NEW n \in Int, 0 <= n,
           NEW m \in Int, 0 <= m, n + m <= C
    PROVE  (((r + n) % C) + m) % C = (r + (n + m)) % C
<1>1. PICK a \in Nat : a = r + n
  OBVIOUS
<1>2. PICK b \in Nat : b = r + (n + m)
  OBVIOUS
<1>21. a < C + C /\ b < C + C
  BY <1>1, <1>2
<1>3. a % C = IF a < C THEN a ELSE a - C
  BY <1>21, ModWrap
<1>4. b % C = IF b < C THEN b ELSE b - C
  BY <1>21, ModWrap
<1>5. PICK e \in Nat : e = (a % C) + m
  BY <1>1, <1>3
<1>6. e % C = IF e < C THEN e ELSE e - C
  BY <1>1, <1>3, <1>5, ModWrap
<1>7. e % C = b % C
  BY <1>1, <1>2, <1>3, <1>4, <1>5, <1>6
<1> QED
  BY <1>1, <1>2, <1>5, <1>7

LEMMA PrefixFacts ==
    ASSUME NEW d \in Seq(Val), NEW n \in Nat
    PROVE  /\ Prefix(d, n) \in Seq(Val)
           /\ Len(Prefix(d, n)) \in Nat /\ Len(Prefix(d, n)) <= n
<1>1. Len(d) \in Nat
  OBVIOUS
<1>2. CASE Len(d) > n
  <2>1. Prefix(d, n) = SubSeq(d, 1, n)
    BY <1>2 DEF Prefix
  <2>2. SubSeq(d, 1, n) \in Seq(Val) /\ Len(SubSeq(d, 1, n)) = n
    BY <1>1, <1>2
  <2> QED
    BY <2>1, <2>2
<1>3. CASE ~(Len(d) > n)
  <2>1. Prefix(d, n) = SubSeq(d, 1, Len(d))
    BY <1>3 DEF Prefix
  <2>2. SubSeq(d, 1, Len(d)) \in Seq(Val) /\ Len(SubSeq(d, 1, Len(d))) = Len(d)
    BY <1>1
  <2> QED
    BY <1>1, <1>3, <2>1, <2>2
<1> QED
  BY <1>2, <1>3

(* Where the i-th byte of a pipe is kept relative to the write position.     *)
LEMMA RingPlace ==
    ASSUME NEW C \in Nat, C > 0, NEW r \in 0 .. (C - 1), NEW n \in 0 .. C, NEW m \in Nat,
           n + m <= C, NEW i \in 1 .. (n + m)
    PROVE  LET j == (r + i - 1) % C
               w == (r + n) % C
               k == (j - w + C) % C IN
           /\ j \in 0 .. (C - 1)
           /\ i <= n => ~(k < m)
           /\ i > n => k < m /\ k = i - n - 1
<1> DEFINE j == (r + i - 1) % C
           w == (r + n) % C
           k == (j - w + C) % C
<1>0. C \in Int /\ r \in Int /\ n \in Int /\ m \in Int /\ i \in Int /\ r < C /\ 0 <= r
      /\ n <= C /\ 0 <= n /\ 1 <= i /\ i <= n + m
  OBVIOUS
<1>1. r + i - 1 \in Nat /\ r + i - 1 < C + C
  BY <1>0
<1>2. j = IF r + i - 1 < C THEN r + i - 1 ELSE r + i - 1 - C
  BY <1>1
<1>3. r + n \in Nat /\ r + n < C + C
  BY <1>0
<1>4. w = IF r + n < C THEN r + n ELSE r + n - C
  BY <1>3
<1> HIDE DEF j, w
<1>5. j \in Int /\ w \in Int /\ 0 <= j /\ j < C /\ 0 <= w /\ w < C
  BY <1>0, <1>2, <1>4
<1>6. j - w + C \in Nat /\ j - w + C < C + C
  BY <1>0, <1>5
<1>7. k = IF j - w + C < C THEN j - w + C ELSE j - w + C - C
  <2>1. PICK a \in Nat : a = j - w + C
    BY <1>6
  <2>2. a % C = IF a < C THEN a ELSE a - C
    BY <1>6, <2>1, ModWrap
  <2>3. k = a % C
    BY <2>1
  <2> HIDE DEF k
  <2> QED
    BY <1>0, <1>5, <2>1, <2>2, <2>3
<1> HIDE DEF k
<1>8. k \in Int
  BY <1>0, <1>5, <1>7
<1>9. i <= n => ~(k < m)
  BY <1>0, <1>2, <1>4, <1>5, <1>7, <1>8
<1>10. i > n => k = i - n - 1
  BY <1>0, <1>2, <1>4, <1>5, <1>7, <1>8
<1>11. i > n => k < m
  BY <1>0, <1>8, <1>10
<1> QED
  BY <1>0, <1>5, <1>9, <1>10, <1>11 DEF j, w, k

SameFlags(p, q) ==
    q.refs = p.refs /\ q.broken = p.broken /\ q.shared = p.shared /\ q.over = p.over

(* Writing what fits keeps the ring and its queue in step.                   *)
LEMMA StoredRing ==
    ASSUME NEW p \in PipeType, NEW d \in Seq(Val), Len(d) <= PipeCap - p.count
    PROVE  /\ Stored(p, d) \in PipeType /\ SameFlags(p, Stored(p, d))
           /\ RingOK(p) => RingOK(Stored(p, d))
<1> DEFINE C == PipeCap
           m == Len(d)
           nbuf == [i \in 0 .. (C - 1) |->
                      LET k == (i - p.wpos + C) % C IN IF k < m THEN d[k + 1] ELSE p.buf[i]]
           nw == (p.wpos + m) % C
           nc == p.count + m
           nq == p.queue \o d
           q == [p EXCEPT !.buf = nbuf, !.wpos = nw, !.count = nc, !.queue = nq]
<1>1. C \in Nat /\ C > 0 /\ C \in Int
  BY Constants
<1>2. /\ p.rpos \in Int /\ 0 <= p.rpos /\ p.rpos < C
      /\ p.wpos \in Int /\ 0 <= p.wpos /\ p.wpos < C
      /\ p.count \in Int /\ 0 <= p.count /\ p.count <= C
      /\ p.queue \in Seq(Val) /\ p.buf \in [0 .. (C - 1) -> Val \cup {0}]
  BY <1>1 DEF PipeType
<1>3. m \in Nat /\ m <= C - p.count /\ \A k \in 1 .. m : d[k] \in Val
  OBVIOUS
<1>4. Stored(p, d) = q
  BY DEF Stored
<1>5. nbuf \in [0 .. (C - 1) -> Val \cup {0}]
  <2> SUFFICES ASSUME NEW i \in 0 .. (C - 1)
               PROVE  LET k == (i - p.wpos + C) % C IN
                      (IF k < m THEN d[k + 1] ELSE p.buf[i]) \in Val \cup {0}
    OBVIOUS
  <2> DEFINE k == (i - p.wpos + C) % C
  <2>1. i - p.wpos + C \in Nat
    BY <1>1, <1>2
  <2>2. k \in Nat
    BY <1>1, <2>1
  <2>3. p.buf[i] \in Val \cup {0}
    BY <1>2
  <2> HIDE DEF k, C
  <2>4. CASE k < m
    <3>1. k + 1 \in 1 .. m
      BY <1>3, <2>2, <2>4
    <3> QED
      BY <1>3, <2>4, <3>1 DEF k
  <2> QED
    BY <2>3, <2>4 DEF k
<1>6. nw \in 0 .. (C - 1)
  <2>1. p.wpos + m \in Nat
    BY <1>2, <1>3
  <2>2. (p.wpos + m) % C \in Nat /\ (p.wpos + m) % C < C
    BY <1>1, <2>1
  <2> QED
    BY <1>1, <2>2
<1>7. nc \in 0 .. C
  BY <1>1, <1>2, <1>3
<1>8. nq \in Seq(Val) /\ Len(nq) = Len(p.queue) + m
  BY <1>2
<1> HIDE DEF nbuf, nw, nc, nq
<1>9. q \in PipeType
  BY <1>5, <1>6, <1>7, <1>8 DEF PipeType
<1>10. /\ q.buf = nbuf /\ q.wpos = nw /\ q.count = nc /\ q.queue = nq
       /\ q.rpos = p.rpos /\ q.raw = p.raw
  BY DEF PipeType
<1>11. SameFlags(p, q)
  BY DEF PipeType, SameFlags
<1> HIDE DEF q
<1>12. ASSUME RingOK(p) PROVE RingOK(q)
  <2>1. p.count = Len(p.queue) /\ p.wpos = (p.rpos + p.count) % C
    BY <1>12 DEF RingOK
  <2>2. q.count = Len(q.queue)
    BY <1>8, <1>10, <2>1 DEF nc
  <2>3. q.wpos = (q.rpos + q.count) % C
    <3>1. p.count + m <= C
      BY <1>1, <1>2, <1>3
    <3>2. PICK r \in Int, n \in Int : r = p.rpos /\ n = p.count
      BY <1>2
    <3>21. 0 <= r /\ r < C /\ 0 <= n /\ m \in Int /\ 0 <= m /\ n + m <= C
      BY <1>2, <1>3, <3>1, <3>2
    <3>3. (((r + n) % C) + m) % C = (r + (n + m)) % C
      <4> HIDE DEF m, C
      <4> QED
        BY <1>1, <3>21, RingMove
    <3>7. nw = (p.rpos + nc) % C
      BY <2>1, <3>2, <3>3 DEF nw, nc
    <3> QED
      BY <1>10, <3>7
  <2>4. ASSUME ~p.raw, NEW i \in 1 .. nc
        PROVE  nbuf[(p.rpos + i - 1) % C] = nq[i]
    <3> DEFINE j == (p.rpos + i - 1) % C
               k == (j - p.wpos + C) % C
    <3>1. /\ j \in 0 .. (C - 1)
          /\ i <= p.count => ~(k < m)
          /\ i > p.count => k < m /\ k = i - p.count - 1
      <4>1. p.rpos \in 0 .. (C - 1) /\ p.count \in 0 .. C /\ p.count + m <= C
            /\ i \in 1 .. (p.count + m)
        BY <1>1, <1>2, <1>3 DEF nc
      <4>2. PICK r \in 0 .. (C - 1), n \in 0 .. C : r = p.rpos /\ n = p.count
        BY <4>1
      <4> DEFINE jj == (r + i - 1) % C
                 kk == (jj - ((r + n) % C) + C) % C
      <4>3. n + m <= C /\ i \in 1 .. (n + m) /\ m \in Nat
        BY <1>3, <4>1, <4>2
      <4>4. /\ jj \in 0 .. (C - 1)
            /\ i <= n => ~(kk < m)
            /\ i > n => kk < m /\ kk = i - n - 1
        <5> HIDE DEF m, C
        <5> QED
          BY <1>1, <4>3, RingPlace
      <4>5. jj = j /\ kk = k
        <5>1. jj = j
          BY <4>2
        <5>2. (r + n) % C = p.wpos
          BY <2>1, <4>2
        <5> HIDE DEF j, jj
        <5> QED
          BY <5>1, <5>2
      <4> HIDE DEF j, k, jj, kk
      <4> QED
        BY <4>2, <4>4, <4>5
    <3>2. nbuf[j] = IF k < m THEN d[k + 1] ELSE p.buf[j]
      BY <3>1 DEF nbuf
    <3>3. \A x \in 1 .. p.count : p.buf[(p.rpos + x - 1) % C] = p.queue[x]
      BY <1>12, <2>4 DEF RingOK
    <3> HIDE DEF k
    <3>4. CASE i <= p.count
      <4>1. i \in 1 .. p.count
        BY <1>2, <3>4
      <4>2. nbuf[j] = p.queue[i]
        BY <3>1, <3>2, <3>3, <3>4, <4>1
      <4>3. nq[i] = p.queue[i]
        BY <1>2, <2>1, <4>1 DEF nq
      <4> QED
        BY <4>2, <4>3
    <3>5. CASE i > p.count
      <4>1. i \in Int /\ i <= p.count + m
        BY <1>2, <1>3 DEF nc
      <4>2. k + 1 = i - p.count
        BY <1>2, <3>1, <3>5, <4>1
      <4>3. nbuf[j] = d[i - p.count]
        BY <3>1, <3>2, <3>5, <4>2
      <4>4. i \in (Len(p.queue) + 1) .. (Len(p.queue) + Len(d))
        BY <1>2, <1>3, <2>1, <3>5, <4>1
      <4>5. nq[i] = d[i - Len(p.queue)]
        BY <1>2, <4>4 DEF nq
      <4> QED
        BY <2>1, <4>3, <4>5
    <3>6. i \in Int
      OBVIOUS
    <3> QED
      BY <1>2, <3>4, <3>5, <3>6
  <2> HIDE DEF C
  <2> QED
    BY <1>10, <2>2, <2>3, <2>4 DEF RingOK, C
<1> QED
  BY <1>4, <1>9, <1>11, <1>12

(* Reading takes the oldest bytes.                                           *)
Taken(p, k) == [p EXCEPT !.rpos = (@ + k) % PipeCap, !.count = @ - k,
                         !.queue = SubSeq(@, k + 1, Len(@))]

LEMMA TakenRing ==
    ASSUME NEW p \in PipeType, NEW k \in Nat, k <= p.count
    PROVE  /\ Taken(p, k) \in PipeType /\ SameFlags(p, Taken(p, k))
           /\ RingOK(p) => RingOK(Taken(p, k))
<1> DEFINE q == Taken(p, k)
<1> DEFINE C == PipeCap
           nr == (p.rpos + k) % C
           nc == p.count - k
           nq == SubSeq(p.queue, k + 1, Len(p.queue))
<1>1. C \in Nat /\ C > 0 /\ C \in Int
  BY Constants
<1>2. /\ p.rpos \in Int /\ 0 <= p.rpos /\ p.rpos < C
      /\ p.count \in Int /\ 0 <= p.count /\ p.count <= C
      /\ p.queue \in Seq(Val) /\ Len(p.queue) \in Nat
  BY <1>1 DEF PipeType
<1>3. q = [p EXCEPT !.rpos = nr, !.count = nc, !.queue = nq]
  BY DEF Taken
<1> HIDE DEF q
<1>4. nr \in 0 .. (C - 1)
  <2>1. PICK a \in Nat : a = p.rpos + k
    BY <1>2
  <2>2. a % C \in Nat /\ a % C < C
    BY <1>1
  <2> QED
    BY <1>1, <2>1, <2>2
<1>5. nc \in 0 .. C
  BY <1>1, <1>2
<1>6. nq \in Seq(Val)
  BY <1>2
<1>7. ASSUME p.count = Len(p.queue)
      PROVE  Len(nq) = nc /\ \A i \in 1 .. nc : nq[i] = p.queue[k + i]
  <2>1. k <= Len(p.queue)
    BY <1>7
  <2>2. Len(nq) = Len(p.queue) - k
    BY <1>2, <2>1
  <2>3. ASSUME NEW i \in 1 .. nc PROVE nq[i] = p.queue[k + i]
    <3>1. i \in 1 .. (Len(p.queue) - k)
      BY <1>7
    <3>2. nq[i] = p.queue[(k + 1) + i - 1]
      BY <1>2, <2>1, <3>1
    <3>3. (k + 1) + i - 1 = k + i
      BY <3>1
    <3> QED
      BY <3>2, <3>3
  <2> QED
    BY <1>7, <2>2, <2>3
<1> HIDE DEF nr, nc, nq
<1>8. q \in PipeType
  BY <1>3, <1>4, <1>5, <1>6 DEF PipeType
<1>9. q.rpos = nr /\ q.count = nc /\ q.queue = nq /\ q.buf = p.buf /\ q.wpos = p.wpos /\ q.raw = p.raw
  BY <1>3 DEF PipeType
<1>10. SameFlags(p, q)
  BY <1>3 DEF PipeType, SameFlags
<1>11. ASSUME RingOK(p) PROVE RingOK(q)
  <2>1. p.count = Len(p.queue) /\ p.wpos = (p.rpos + p.count) % C
    BY <1>11 DEF RingOK
  <2>2. PICK r \in Int, n \in Int : r = p.rpos /\ n = p.count
    BY <1>2
  <2>3. 0 <= r /\ r < C /\ k <= n /\ n <= C /\ k \in Int /\ 0 <= k
    BY <1>2, <2>2
  <2>4. ASSUME NEW m \in Int, 0 <= m, k + m <= C
        PROVE  (((r + k) % C) + m) % C = (r + (k + m)) % C
    <3> HIDE DEF C
    <3> QED
      BY <1>1, <2>3, <2>4, RingMove
  <2>5. nr = (r + k) % C /\ nc = n - k
    BY <2>2 DEF nr, nc
  <2>6. q.count = Len(q.queue)
    BY <1>7, <1>9, <2>1
  <2>7. q.wpos = (q.rpos + q.count) % C
    <3>1. n - k \in Int /\ 0 <= n - k /\ k + (n - k) <= C /\ k + (n - k) = n
      BY <2>3
    <3>2. (((r + k) % C) + (n - k)) % C = (r + (k + (n - k))) % C
      BY <2>4, <3>1
    <3>3. (nr + nc) % C = (r + n) % C
      BY <2>5, <3>1, <3>2
    <3> QED
      BY <1>9, <2>1, <2>2, <3>3
  <2>8. ASSUME ~p.raw, NEW i \in 1 .. nc
        PROVE  p.buf[(nr + i - 1) % C] = nq[i]
    <3>1. i \in Int /\ 1 <= i /\ i <= n - k
      BY <2>3, <2>5
    <3>2. i - 1 \in Int /\ 0 <= i - 1 /\ k + (i - 1) <= C
      BY <1>1, <2>3, <3>1
    <3>3. (((r + k) % C) + (i - 1)) % C = (r + (k + (i - 1))) % C
      BY <2>4, <3>2
    <3>4. k + i \in 1 .. p.count
      BY <2>2, <2>3, <3>1
    <3>5. p.buf[(p.rpos + (k + i) - 1) % C] = p.queue[k + i]
      BY <1>11, <2>8, <3>4 DEF RingOK
    <3>6. p.rpos + (k + i) - 1 = r + (k + (i - 1))
      BY <2>2, <2>3, <3>1
    <3>7. nq[i] = p.queue[k + i]
      BY <1>7, <2>1
    <3>8. (nr + i - 1) = ((r + k) % C) + (i - 1)
      BY <2>5
    <3> QED
      BY <3>3, <3>5, <3>6, <3>7, <3>8
  <2> HIDE DEF C
  <2> QED
    BY <1>9, <2>6, <2>7, <2>8 DEF RingOK, C
<1> QED
  BY <1>8, <1>10, <1>11 DEF q

(* Output redirected into a pipe overwrites a byte behind its counters.      *)
Overwritten(p, i, v) == [p EXCEPT !.buf[i] = v, !.raw = TRUE]

LEMMA RawRing ==
    ASSUME NEW p \in PipeType, NEW i, NEW v \in Val
    PROVE  /\ Overwritten(p, i, v) \in PipeType /\ SameFlags(p, Overwritten(p, i, v))
           /\ RingOK(p) => RingOK(Overwritten(p, i, v))
<1> DEFINE q == Overwritten(p, i, v)
<1> DEFINE nb == [p.buf EXCEPT ![i] = v]
<1>1. nb \in [0 .. (PipeCap - 1) -> Val \cup {0}]
  BY DEF PipeType
<1>2. q = [p EXCEPT !.buf = nb, !.raw = TRUE]
  BY DEF Overwritten
<1> HIDE DEF nb, q
<1>3. q \in PipeType
  BY <1>1, <1>2 DEF PipeType
<1>4. q.raw = TRUE /\ q.count = p.count /\ q.queue = p.queue /\ q.rpos = p.rpos /\ q.wpos = p.wpos
  BY <1>2 DEF PipeType
<1>5. SameFlags(p, q)
  BY <1>2 DEF PipeType, SameFlags
<1>6. RingOK(p) => RingOK(q)
  BY <1>4 DEF RingOK
<1> QED
  BY <1>3, <1>5, <1>6 DEF q

---------------------------------------------------------------------------
(* The calls that move data: what they leave alone.                          *)

(* Nothing is opened, closed or counted, only positions and rings move.      *)
DataOnly(t) ==
    /\ FdType' /\ alive' = alive /\ heap' = heap /\ stale' = stale
    /\ \A s \in Slots : s[1] # t => fd'[s] = fd[s]
    /\ \A s \in Slots : /\ fd'[s].typ = fd[s].typ /\ fd'[s].obj = fd[s].obj
                        /\ fd'[s].cap = fd[s].cap /\ fd'[s].size = fd[s].size
    /\ \A o \in Obj : SameFlags(pipe[o], pipe'[o]) /\ (RingOK(pipe[o]) => RingOK(pipe'[o]))

LEMMA MovedSlot ==
    ASSUME FdType, NEW x \in Slots, NEW v \in Nat, fd' = [fd EXCEPT ![x].pos = v]
    PROVE  /\ fd' \in [Slots -> SlotType]
           /\ \A s \in Slots : s # x => fd'[s] = fd[s]
           /\ fd'[x].pos = v
           /\ \A s \in Slots : /\ fd'[s].typ = fd[s].typ /\ fd'[s].obj = fd[s].obj
                               /\ fd'[s].cap = fd[s].cap /\ fd'[s].size = fd[s].size
<1> DEFINE r == [fd[x] EXCEPT !.pos = v]
<1>1. fd[x] \in SlotType /\ fd \in [Slots -> SlotType]
  BY DEF FdType
<1>2. /\ r \in SlotType /\ r.typ = fd[x].typ /\ r.obj = fd[x].obj /\ r.cap = fd[x].cap
      /\ r.size = fd[x].size /\ r.pos = v
  BY <1>1 DEF SlotType
<1>3. fd' = [fd EXCEPT ![x] = r]
  OBVIOUS
<1> HIDE DEF r
<1>4. \A s \in Slots : s # x => fd'[s] = fd[s]
  BY <1>1, <1>3
<1>5. fd'[x] = r
  BY <1>1, <1>3
<1> QED
  BY <1>1, <1>2, <1>3, <1>4, <1>5

LEMMA ChangedPipe ==
    ASSUME FdType, NEW o \in Obj, NEW q \in PipeType, pipe' = [pipe EXCEPT ![o] = q],
           SameFlags(pipe[o], q), RingOK(pipe[o]) => RingOK(q)
    PROVE  /\ pipe' \in [Obj -> PipeType]
           /\ \A p \in Obj : SameFlags(pipe[p], pipe'[p]) /\ (RingOK(pipe[p]) => RingOK(pipe'[p]))
<1>1. pipe \in [Obj -> PipeType]
  BY DEF FdType
<1>2. pipe'[o] = q /\ \A p \in Obj \ {o} : pipe'[p] = pipe[p]
  BY <1>1
<1>3. \A p : SameFlags(p, p)
  BY DEF SameFlags
<1>4. pipe' \in [Obj -> PipeType]
  BY <1>1
<1> QED
  BY <1>2, <1>3, <1>4

LEMMA SamePipes ==
    ASSUME pipe' = pipe
    PROVE  \A p \in Obj : SameFlags(pipe[p], pipe'[p]) /\ (RingOK(pipe[p]) => RingOK(pipe'[p]))
  BY DEF SameFlags

LEMMA HeldObj ==
    ASSUME TableInv, Sound, NEW t \in alive, NEW f \in Fd
    PROVE  /\ <<t, f>> \in Slots /\ t \in Task
           /\ fd[<<t, f>>].typ \in Pipes => fd[<<t, f>>].obj \in Obj
<1>1. t \in Task
  BY TableFacts DEF FdType
<1>2. <<t, f>> \in Slots
  BY <1>1 DEF Slots
<1>3. fd[<<t, f>>].obj \in heap \cup {None} /\ heap \subseteq Obj
  BY <1>2, TableFacts DEF FdType
<1>4. fd[<<t, f>>].typ \in Held <=> fd[<<t, f>>].obj # None
  BY <1>2, TableFacts
<1> QED
  BY <1>1, <1>2, <1>3, <1>4 DEF Held, Pipes

LEMMA WritePipeData ==
    ASSUME TableInv, Sound, NEW t \in alive, NEW f \in Fd, NEW d \in Bytes,
           WritePipe(t, f, d), calls' = calls + 1
    PROVE  DataOnly(t)
<1> DEFINE o == fd[<<t, f>>].obj
           b == Prefix(d, Room(pipe[o]))
           q == Stored(pipe[o], b)
<1>1. FdType
  BY TableFacts
<1>2. pipe' = [pipe EXCEPT ![o] = q] /\ UNCHANGED <<alive, fd, outfd, heap, stale, wild>>
  BY DEF WritePipe
<1>3. o \in Obj
  BY HeldObj DEF WritePipe, Pipes
<1>4. pipe[o] \in PipeType
  BY <1>1, <1>3 DEF FdType
<1>5. d \in Seq(Val)
  BY Constants DEF Bytes
<1>6. Room(pipe[o]) \in Nat /\ Room(pipe[o]) = PipeCap - pipe[o].count
  <2>1. pipe[o].count \in 0 .. PipeCap
    BY <1>4 DEF PipeType
  <2> QED
    BY <2>1, Constants DEF Room
<1>7. b \in Seq(Val) /\ Len(b) <= PipeCap - pipe[o].count
  BY <1>5, <1>6, PrefixFacts
<1> HIDE DEF b, o
<1>8. q \in PipeType /\ SameFlags(pipe[o], q) /\ (RingOK(pipe[o]) => RingOK(q))
  BY <1>4, <1>7, StoredRing
<1> HIDE DEF q
<1>9. /\ pipe' \in [Obj -> PipeType]
      /\ \A p \in Obj : SameFlags(pipe[p], pipe'[p]) /\ (RingOK(pipe[p]) => RingOK(pipe'[p]))
  BY <1>1, <1>2, <1>3, <1>8, ChangedPipe
<1>10. FdType'
  BY <1>1, <1>2, <1>9, TypeNext DEF FdType
<1> QED
  BY <1>2, <1>9, <1>10 DEF DataOnly

LEMMA ReadPipeData ==
    ASSUME TableInv, Sound, NEW t \in alive, NEW f \in Fd, NEW n \in 1 .. PipeCap,
           ReadPipe(t, f, n), calls' = calls + 1
    PROVE  DataOnly(t)
<1> DEFINE o == fd[<<t, f>>].obj
           k == IF n > pipe[o].count THEN pipe[o].count ELSE n
           q == [pipe[o] EXCEPT !.rpos = (@ + k) % PipeCap, !.count = @ - k,
                                !.queue = SubSeq(@, k + 1, Len(@))]
<1>1. FdType
  BY TableFacts
<1>2. /\ pipe' = [pipe EXCEPT ![o].rpos = (@ + k) % PipeCap, ![o].count = @ - k,
                              ![o].queue = SubSeq(@, k + 1, Len(@))]
      /\ UNCHANGED <<alive, fd, outfd, heap, stale, wild>>
  BY DEF ReadPipe
<1>3. o \in Obj
  BY HeldObj DEF ReadPipe, Pipes
<1>4. pipe[o] \in PipeType
  BY <1>1, <1>3 DEF FdType
<1>5. k \in Nat /\ k <= pipe[o].count
  <2>1. pipe[o].count \in 0 .. PipeCap
    BY <1>4 DEF PipeType
  <2> QED
    BY <2>1, Constants
<1> HIDE DEF k, o
<1>6. pipe' = [pipe EXCEPT ![o] = q]
  BY <1>1, <1>2, <1>3 DEF FdType
<1>7. q \in PipeType /\ SameFlags(pipe[o], q) /\ (RingOK(pipe[o]) => RingOK(q))
  <2>1. q = Taken(pipe[o], k)
    BY DEF Taken
  <2> HIDE DEF q
  <2> QED
    BY <1>4, <1>5, <2>1, TakenRing
<1> HIDE DEF q
<1>8. /\ pipe' \in [Obj -> PipeType]
      /\ \A p \in Obj : SameFlags(pipe[p], pipe'[p]) /\ (RingOK(pipe[p]) => RingOK(pipe'[p]))
  BY <1>1, <1>3, <1>6, <1>7, ChangedPipe
<1>9. FdType'
  BY <1>1, <1>2, <1>8, TypeNext DEF FdType
<1> QED
  BY <1>2, <1>8, <1>9 DEF DataOnly

(* What a read or write of a file moves the position by.                     *)
LEMMA RemainNat ==
    ASSUME NEW s \in SlotType
    PROVE  /\ Remain(s) \in Nat
           /\ s.pos <= s.size /\ s.size < Word => Remain(s) = s.size - s.pos
<1>1. s.pos \in Nat /\ s.size \in Nat
  BY DEF SlotType
<1>2. Word \in Nat /\ Word > 0
  BY Constants
<1>3. PICK d \in Int : d = s.size - s.pos
  BY <1>1
<1>4. d % Word \in Nat
  BY <1>2
<1>5. s.pos <= s.size /\ s.size < Word => d \in Nat /\ d < Word
  BY <1>1, <1>2, <1>3
<1>6. d \in Nat /\ d < Word => d % Word = d
  BY <1>2
<1> QED
  BY <1>3, <1>4, <1>5, <1>6 DEF Remain

LEMMA MoveFileData ==
    ASSUME TableInv, Sound, NEW t \in alive, NEW f \in Fd, NEW n \in 1 .. PipeCap,
           NEW writes \in BOOLEAN, MoveFile(t, f, n, writes), calls' = calls + 1
    PROVE  DataOnly(t)
<1> DEFINE x == <<t, f>>
           k == IF n > Remain(fd[x]) THEN Remain(fd[x]) ELSE n
<1>1. FdType
  BY TableFacts
<1>2. x \in Slots /\ x[1] = t
  BY HeldObj
<1>3. fd[x] \in SlotType /\ fd[x].pos \in Nat
  BY <1>1, <1>2 DEF FdType, SlotType
<1>4. /\ fd' = [fd EXCEPT ![x].pos = @ + k]
      /\ UNCHANGED <<alive, outfd, heap, pipe, stale>>
  BY DEF MoveFile
<1>41. wild' \in BOOLEAN
  BY DEF MoveFile
<1>5. k \in Nat
  BY <1>3, RemainNat, Constants
<1> HIDE DEF x, k
<1>6. fd[x].pos + k \in Nat /\ fd' = [fd EXCEPT ![x].pos = fd[x].pos + k]
  BY <1>1, <1>2, <1>3, <1>4, <1>5 DEF FdType
<1>7. /\ fd' \in [Slots -> SlotType]
      /\ \A s \in Slots : s # x => fd'[s] = fd[s]
      /\ \A s \in Slots : /\ fd'[s].typ = fd[s].typ /\ fd'[s].obj = fd[s].obj
                          /\ fd'[s].cap = fd[s].cap /\ fd'[s].size = fd[s].size
  BY <1>1, <1>2, <1>6, MovedSlot
<1>8. FdType'
  BY <1>1, <1>4, <1>41, <1>7, TypeNext DEF FdType
<1> QED
  BY <1>2, <1>4, <1>7, <1>8, SamePipes DEF DataOnly

LEMMA LseekTo ==
    ASSUME TableInv, Sound, NEW t \in alive, NEW f \in Fd, NEW off \in -1 .. 1,
           NEW whence \in 0 .. 2, Lseek(t, f, off, whence)
    PROVE  \E v \in Nat : fd' = [fd EXCEPT ![<<t, f>>].pos = v] /\ v <= fd[<<t, f>>].size
<1> DEFINE s == fd[<<t, f>>]
           base == CASE whence = 0 -> 0 [] whence = 1 -> s.pos [] whence = 2 -> s.size
           n == (base + off) % Word
<1>1. s.pos \in Nat /\ s.size \in Nat
  <2>1. s \in SlotType
    BY TableFacts, HeldObj DEF FdType
  <2> QED
    BY <2>1 DEF SlotType
<1>2. fd' = [fd EXCEPT ![<<t, f>>].pos = Clamped(n, s)]
  BY DEF Lseek
<1>3. base \in Int
  <2>1. whence = 0 \/ whence = 1 \/ whence = 2
    OBVIOUS
  <2> QED
    BY <1>1, <2>1
<1> HIDE DEF base
<1>4. n \in Nat
  <2>1. PICK d \in Int : d = base + off
    BY <1>3
  <2>2. Word \in Nat /\ Word > 0
    BY Constants
  <2>3. d % Word \in Nat
    BY <2>2
  <2> QED
    BY <2>1, <2>3
<1> HIDE DEF n
<1>5. Clamped(n, s) \in Nat /\ Clamped(n, s) <= s.size
  BY <1>1, <1>4 DEF Clamped
<1> HIDE DEF s
<1> QED
  BY <1>2, <1>5 DEF s

LEMMA LseekData ==
    ASSUME TableInv, Sound, NEW t \in alive, NEW f \in Fd, NEW off \in -1 .. 1,
           NEW whence \in 0 .. 2, Lseek(t, f, off, whence), calls' = calls + 1
    PROVE  DataOnly(t)
<1> DEFINE x == <<t, f>>
<1>1. FdType
  BY TableFacts
<1>2. x \in Slots /\ x[1] = t
  BY HeldObj
<1>3. PICK v \in Nat : fd' = [fd EXCEPT ![x].pos = v]
  BY LseekTo
<1>4. UNCHANGED <<alive, outfd, heap, pipe, stale, wild>>
  BY DEF Lseek
<1> HIDE DEF x
<1>5. /\ fd' \in [Slots -> SlotType]
      /\ \A s \in Slots : s # x => fd'[s] = fd[s]
      /\ \A s \in Slots : /\ fd'[s].typ = fd[s].typ /\ fd'[s].obj = fd[s].obj
                          /\ fd'[s].cap = fd[s].cap /\ fd'[s].size = fd[s].size
  BY <1>1, <1>2, <1>3, MovedSlot
<1>6. FdType'
  BY <1>1, <1>4, <1>5, TypeNext DEF FdType
<1> QED
  BY <1>2, <1>4, <1>5, <1>6, SamePipes DEF DataOnly

LEMMA SetOutfdData ==
    ASSUME TableInv, Sound, NEW t \in alive, NEW f \in -1 .. (MaxFd - 1),
           SetOutfd(t, f), calls' = calls + 1
    PROVE  DataOnly(t)
<1>1. FdType
  BY TableFacts
<1>2. UNCHANGED <<alive, fd, heap, pipe, stale, wild>>
  BY DEF SetOutfd
<1>3. outfd' \in [Task -> -1 .. (MaxFd - 1)]
  <2>1. -1 \in -1 .. (MaxFd - 1)
    BY Constants
  <2> QED
    BY <1>1, <2>1 DEF SetOutfd, FdType
<1>4. FdType'
  BY <1>1, <1>2, <1>3, TypeNext DEF FdType
<1> QED
  BY <1>2, <1>4, SamePipes DEF DataOnly

LEMMA PutOutData ==
    ASSUME TableInv, Sound, NEW t \in alive, NEW v \in Val, PutOut(t, v), calls' = calls + 1
    PROVE  DataOnly(t)
<1> DEFINE x == <<t, outfd[t]>>
           s == fd[x]
           q == [pipe[s.obj] EXCEPT !.buf[s.pos] = v, !.raw = TRUE]
<1>1. FdType
  BY TableFacts
<1>2. outfd[t] \in Fd
  <2>1. outfd[t] >= 0
    BY DEF PutOut
  <2>2. outfd[t] \in -1 .. (MaxFd - 1)
    BY <1>1 DEF FdType
  <2>3. MaxFd \in Nat
    BY Constants
  <2> QED
    BY <2>1, <2>2, <2>3 DEF Fd
<1>3. x \in Slots /\ x[1] = t /\ (s.typ \in Pipes => s.obj \in Obj)
  BY <1>2, HeldObj
<1>4. s \in SlotType /\ s.pos \in Nat
  BY <1>1, <1>3 DEF FdType, SlotType
<1>5. /\ fd' = [fd EXCEPT ![x].pos = @ + 1]
      /\ pipe' = IF s.typ \in Pipes THEN [pipe EXCEPT ![s.obj].buf[s.pos] = v, ![s.obj].raw = TRUE]
                 ELSE pipe
      /\ UNCHANGED <<alive, outfd, heap, stale>>
  BY DEF PutOut
<1>51. wild' \in BOOLEAN
  BY DEF PutOut
<1> HIDE DEF x
<1>6. s.pos + 1 \in Nat /\ fd' = [fd EXCEPT ![x].pos = s.pos + 1]
  BY <1>1, <1>3, <1>4, <1>5 DEF FdType
<1>7. /\ fd' \in [Slots -> SlotType]
      /\ \A r \in Slots : r # x => fd'[r] = fd[r]
      /\ \A r \in Slots : /\ fd'[r].typ = fd[r].typ /\ fd'[r].obj = fd[r].obj
                          /\ fd'[r].cap = fd[r].cap /\ fd'[r].size = fd[r].size
  BY <1>1, <1>3, <1>6, MovedSlot
<1>8. /\ pipe' \in [Obj -> PipeType]
      /\ \A p \in Obj : SameFlags(pipe[p], pipe'[p]) /\ (RingOK(pipe[p]) => RingOK(pipe'[p]))
  <2>1. CASE s.typ \in Pipes
    <3>1. s.obj \in Obj /\ pipe[s.obj] \in PipeType
      BY <1>1, <1>3, <2>1 DEF FdType
    <3>2. pipe' = [pipe EXCEPT ![s.obj] = q]
      BY <1>1, <1>5, <2>1, <3>1 DEF FdType
    <3> HIDE DEF s
    <3>3. q \in PipeType /\ SameFlags(pipe[s.obj], q) /\ (RingOK(pipe[s.obj]) => RingOK(q))
      <4>1. q = Overwritten(pipe[s.obj], s.pos, v)
        BY DEF Overwritten
      <4> HIDE DEF q
      <4> QED
        BY <3>1, <4>1, RawRing
    <3> HIDE DEF q
    <3> QED
      BY <1>1, <3>1, <3>2, <3>3, ChangedPipe
  <2>2. CASE s.typ \notin Pipes
    BY <1>1, <1>5, <2>2, SamePipes DEF FdType
  <2> QED
    BY <2>1, <2>2
<1>9. FdType'
  BY <1>1, <1>5, <1>51, <1>7, <1>8, TypeNext DEF FdType
<1> QED
  BY <1>3, <1>5, <1>7, <1>8, <1>9 DEF DataOnly

---------------------------------------------------------------------------
(* The theorems about the tables and the heap.                               *)

LEMMA DataStep ==
    ASSUME TableInv, Sound, NEW t \in alive, DataCall(t), calls' = calls + 1
    PROVE  DataOnly(t)
  BY WritePipeData, ReadPipeData, MoveFileData, LseekData, SetOutfdData, PutOutData DEF DataCall

LEMMA DataTable ==
    ASSUME TableInv, Sound, NEW t \in alive, DataOnly(t)
    PROVE  TableInv'
<1>1. /\ Departed /\ stale = {} /\ Exact(fd, Refs, heap) /\ None \notin heap /\ heap \subseteq Obj
      /\ \A p \in Obj : Refs[p] = pipe[p].refs
  BY TableFacts DEF FdType
<1>2. FdType' /\ alive' = alive /\ heap' = heap /\ stale' = {}
  BY <1>1 DEF DataOnly
<1>3. Departed'
  BY <1>1, <1>2 DEF DataOnly, Departed
<1>4. \A o \in heap : Refs'[o] = Refs[o]
  <2>1. \A o \in Obj : Refs'[o] = pipe'[o].refs
    BY DEF Refs
  <2> QED
    <3>1. \A o \in Obj : SameFlags(pipe[o], pipe'[o])
      BY DEF DataOnly
    <3>2. \A o \in Obj : pipe'[o].refs = pipe[o].refs
      BY <3>1 DEF SameFlags
    <3> QED
      BY <1>1, <2>1, <3>2
<1>5. \A s \in Slots : fd'[s].typ = fd[s].typ /\ fd'[s].obj = fd[s].obj
  BY DEF DataOnly
<1>6. Exact(fd', Refs', heap)
  BY <1>1, <1>4, <1>5, SameExact
<1> QED
  BY <1>2, <1>3, <1>6, TableNext

LEMMA TableCallTable ==
    ASSUME TableInv, Sound, NEW t \in alive, TableCall(t), calls' = calls + 1
    PROVE  TableInv'
<1>1. CASE Exit(t)
  BY <1>1, ExitTable
<1>2. CASE \E f \in Fd : Close(t, f)
  BY <1>2, CloseTable
<1>3. CASE \E d \in Devices : OpenDevice(t, d)
  BY <1>3, OpenDeviceTable
<1>4. CASE \E o \in Obj \ heap, n \in Sizes : OpenFile(t, o, n)
  BY <1>4, OpenFileTable
<1>5. CASE \E o \in Obj \ heap, copied \in BOOLEAN : MakePipe(t, o, copied)
  BY <1>5, MakePipeTable
<1>6. CASE \E f \in Fd : Dup(t, f)
  BY <1>6, DupTable
<1>7. CASE \E f, g \in Fd : Dup2(t, f, g) \/ Dup2Fails(t, f, g)
  BY <1>7, Dup2Table, Dup2FailsTable
<1>8. CASE \E c \in Task \ alive : Fork(t, c) \/ ForkFails(t, c)
  BY <1>8, ForkTable, ForkFailsTable
<1> QED
  BY <1>1, <1>2, <1>3, <1>4, <1>5, <1>6, <1>7, <1>8 DEF TableCall

LEMMA TableStutters ==
    ASSUME TableInv, UNCHANGED vars
    PROVE  TableInv'
<1>1. /\ alive' = alive /\ fd' = fd /\ outfd' = outfd /\ heap' = heap /\ pipe' = pipe
      /\ stale' = stale /\ wild' = wild /\ calls' = calls
  BY DEF vars
<1>2. FdType'
  BY <1>1 DEF TableInv, FdType
<1>3. Departed'
  BY <1>1 DEF TableInv, Departed
<1>4. Shown' = Shown /\ Refs' = Refs
  BY <1>1 DEF Shown, Refs
<1> QED
  BY <1>1, <1>2, <1>3, <1>4 DEF TableInv

LEMMA TableStep == TableInv /\ [Next]_vars => TableInv'
<1> SUFFICES ASSUME TableInv, [Next]_vars PROVE TableInv'
  OBVIOUS
<1>1. CASE UNCHANGED vars
  BY <1>1, TableStutters
<1>2. CASE Next
  <2>1. Sound /\ calls' = calls + 1
    BY <1>2 DEF Next
  <2>2. CASE \E t \in Task : Launch(t)
    BY <2>1, <2>2, LaunchTable
  <2>3. CASE \E t \in alive : TableCall(t)
    BY <2>1, <2>3, TableCallTable
  <2>4. CASE \E t \in alive : DataCall(t)
    BY <2>1, <2>4, DataStep, DataTable
  <2> QED
    BY <1>2, <2>2, <2>3, <2>4 DEF Next
<1> QED
  BY <1>1, <1>2

LEMMA TableInit == Init => TableInv
<1> SUFFICES ASSUME Init PROVE TableInv
  OBVIOUS
<1>1. FdType
  <2>1. -1 \in -1 .. (MaxFd - 1)
    BY Constants
  <2> QED
    BY <2>1, SlotTypes, NewPipeType DEF Init, FdType
<1>2. Departed
  BY DEF Init, Departed
<1>3. heap = {} /\ \A s \in Slots : Shown[s] = NoSlot
  BY DEF Init, Shown
<1>4. \A s \in Slots : Shown[s].typ = "free" /\ Shown[s].obj = None
  BY <1>3 DEF NoSlot
<1>5. Exact(Shown, Refs, heap)
  BY <1>3, <1>4 DEF Exact, Held, Pipes
<1> QED
  BY <1>1, <1>2, <1>5 DEF TableInv

LEMMA TableAlways == Spec => []TableInv
  BY TableInit, TableStep, PTL DEF Spec

(* Theorem: whatever open, pipe, dup, dup2, fork, a fork undone half way,    *)
(* close and exit did in any order, a pipe's refs is the number of slots     *)
(* that name it and a file's buffer has one slot, for any number of tasks,   *)
(* slots and heap objects (syscall.cpp:481, 776, 848, 1174).                 *)
THEOREM RefsAlwaysExact == Spec => []RefsExact
<1>1. TableInv => RefsExact
  <2> SUFFICES ASSUME TableInv, NEW s \in Slots \ stale
               PROVE  /\ fd[s].typ \in Pipes => pipe[fd[s].obj].refs = Cardinality(Holders(fd[s].obj))
                      /\ fd[s].typ = "file" => Holders(fd[s].obj) = {s}
    BY DEF RefsExact
  <2>1. \A r \in Slots : Shown[r] = IF r \in stale THEN NoSlot ELSE fd[r]
    BY DEF Shown
  <2>2. Shown[s] = fd[s]
    BY <2>1
  <2>3. Exact(Shown, Refs, heap) /\ heap \subseteq Obj
    BY DEF TableInv, FdType
  <2>4. ASSUME fd[s].typ \in Held
        PROVE  fd[s].obj # None /\ fd[s].obj \in Obj /\ Holders(fd[s].obj) = Named(Shown, fd[s].obj)
    <3>1. fd[s].obj # None /\ fd[s].obj \in Obj
      BY <2>2, <2>3, <2>4 DEF Exact
    <3>2. \A r \in Slots : r \in Holders(fd[s].obj) <=> r \in Named(Shown, fd[s].obj)
      BY <2>1, <3>1 DEF Holders, Named, NoSlot
    <3> QED
      BY <3>1, <3>2 DEF Holders, Named
  <2>5. ASSUME fd[s].typ \in Pipes PROVE pipe[fd[s].obj].refs = Cardinality(Holders(fd[s].obj))
    <3>1. Refs[fd[s].obj] = Cardinality(Named(Shown, fd[s].obj))
      BY <2>2, <2>3, <2>5 DEF Exact
    <3>2. fd[s].typ \in Held
      BY <2>5 DEF Held, Pipes
    <3> QED
      BY <2>4, <3>1, <3>2 DEF Refs
  <2>6. ASSUME fd[s].typ = "file" PROVE Holders(fd[s].obj) = {s}
    <3>1. Holders(fd[s].obj) = Named(Shown, fd[s].obj)
      BY <2>4, <2>6 DEF Held
    <3>2. \A r \in Slots : r \in Named(Shown, fd[s].obj) <=> r = s
      BY <2>2, <2>3, <2>6 DEF Exact, Named
    <3> QED
      BY <3>1, <3>2 DEF Named
  <2> QED
    BY <2>5, <2>6
<1> QED
  BY <1>1, TableAlways, PTL

(* Theorem: the heap holds exactly what the slots name: no call leaks a      *)
(* buffer or a pipe, and no slot names freed memory, also when an            *)
(* allocation or a copy to the caller failed half way.                       *)
THEOREM HeapAlwaysExact == Spec => []HeapExact
<1>1. TableInv => HeapExact
  <2> SUFFICES ASSUME TableInv PROVE HeapExact
    OBVIOUS
  <2>1. \A r \in Slots : Shown[r] = IF r \in stale THEN NoSlot ELSE fd[r]
    BY DEF Shown
  <2>2. Exact(Shown, Refs, heap) /\ None \notin heap
    BY FdAssumption DEF TableInv, FdType
  <2>3. \A s \in Slots \ stale : fd[s].obj # None => fd[s].obj \in heap
    BY <2>1, <2>2 DEF Exact
  <2>4. ASSUME NEW o \in heap PROVE \E s \in Slots \ stale : fd[s].obj = o
    <3>1. PICK s \in Slots : Shown[s].obj = o
      BY <2>2 DEF Exact, Named
    <3>2. s \notin stale
      BY <2>1, <2>2, <3>1 DEF NoSlot
    <3> QED
      BY <2>1, <3>1, <3>2
  <2> QED
    BY <2>2, <2>3, <2>4 DEF HeapExact
<1> QED
  BY <1>1, TableAlways, PTL

---------------------------------------------------------------------------
(* Positions and writes outside a buffer.                                    *)

LEMMA SlotsOK ==
    /\ SlotOK(NoSlot)
    /\ \A d \in {"null", "zero", "input", "fb"} : SlotOK(Device(d))
    /\ \A o \in Obj : SlotOK(End("rpipe", o)) /\ SlotOK(End("wpipe", o))
<1>1. SlotOK(NoSlot)
  BY Constants DEF NoSlot, SlotOK
<1>2. ASSUME NEW d \in {"null", "zero", "input", "fb"} PROVE SlotOK(Device(d))
  BY Constants DEF Device, SlotOK
<1>3. ASSUME NEW o \in Obj PROVE SlotOK(End("rpipe", o)) /\ SlotOK(End("wpipe", o))
  BY Constants DEF End, SlotOK
<1> QED
  BY <1>1, <1>2, <1>3

LEMMA CopyOK ==
    ASSUME NEW r \in SlotType, SlotOK(r), NEW o
    PROVE  SlotOK([r EXCEPT !.obj = o, !.cap = r.size])
  BY DEF SlotOK, SlotType

(* The calls that open, copy and close fill a slot with one of these.        *)
LEMMA DuplicateSeek ==
    ASSUME FdType, SeekInv, NEW src \in Slots, NEW dst \in Slots, NEW h, NEW pp,
           Duplicate(src, dst, h, pp)
    PROVE  SeekInv'
<1>1. fd[src] \in SlotType /\ SlotOK(fd[src])
  BY DEF FdType, SeekInv
<1>2. PICK r : SlotOK(r) /\ fd' = [fd EXCEPT ![dst] = r]
  <2>1. CASE fd[src].typ = "file"
    <3>1. PICK o \in Obj \ h : fd' = [fd EXCEPT ![dst] = [fd[src] EXCEPT !.obj = o, !.cap = fd[src].size]]
      BY <2>1 DEF Duplicate
    <3>2. SlotOK([fd[src] EXCEPT !.obj = o, !.cap = fd[src].size])
      BY <1>1, CopyOK
    <3> QED
      BY <3>1, <3>2
  <2>2. CASE fd[src].typ # "file"
    BY <1>1, <2>2 DEF Duplicate
  <2> QED
    BY <2>1, <2>2
<1>3. \A s \in Slots : fd'[s] = IF s = dst THEN r ELSE fd[s]
  BY <1>2 DEF FdType
<1> QED
  BY <1>2, <1>3 DEF SeekInv

LEMMA TableCallSeek ==
    ASSUME TableInv, Sound, SeekInv, NEW t \in alive, TableCall(t)
    PROVE  SeekInv' /\ wild' = wild
<1>0. /\ FdType /\ t \in Task
      /\ fd \in [Slots -> SlotType]
  BY TableFacts DEF FdType
<1>1. CASE Exit(t)
  BY <1>1, SlotsOK DEF Exit, SeekInv
<1>2. CASE \E f \in Fd : Close(t, f)
  <2>1. PICK f \in Fd : Close(t, f)
    BY <1>2
  <2>2. fd' = [fd EXCEPT ![<<t, f>>] = NoSlot] /\ wild' = wild
    BY <2>1 DEF Close
  <2> QED
    BY <1>0, <2>2, SlotsOK DEF SeekInv
<1>3. CASE \E d \in Devices : OpenDevice(t, d)
  <2>1. PICK d \in Devices : OpenDevice(t, d)
    BY <1>3
  <2>2. fd' = [fd EXCEPT ![<<t, First(FreeFds(t))>>] = Device(d)] /\ wild' = wild
    BY <2>1 DEF OpenDevice
  <2>3. SlotOK(Device(d))
    BY SlotsOK, FdAssumption
  <2> QED
    BY <1>0, <2>2, <2>3 DEF SeekInv
<1>4. CASE \E o \in Obj \ heap, n \in Sizes : OpenFile(t, o, n)
  <2>1. PICK o \in Obj \ heap, n \in Sizes : OpenFile(t, o, n)
    BY <1>4
  <2> DEFINE rec == [typ |-> "file", obj |-> o, cap |-> AtMost(n), size |-> n, pos |-> 0]
  <2>2. fd' = [fd EXCEPT ![<<t, First(FreeFds(t))>>] = rec] /\ wild' = wild
    BY <2>1 DEF OpenFile
  <2>3. SlotOK(rec)
    BY Constants DEF SlotOK, AtMost
  <2> HIDE DEF rec
  <2> QED
    BY <1>0, <2>2, <2>3 DEF SeekInv
<1>5. CASE \E o \in Obj \ heap, copied \in BOOLEAN : MakePipe(t, o, copied)
  <2>1. PICK o \in Obj \ heap, copied \in BOOLEAN : MakePipe(t, o, copied)
    BY <1>5
  <2> DEFINE r == First(FreeFds(t))
             w == First(FreeFds(t) \ {r})
             tab == [fd EXCEPT ![<<t, r>>] = End("rpipe", o), ![<<t, w>>] = End("wpipe", o)]
  <2>2. fd' = (IF copied THEN tab ELSE Rollback(tab, t)) /\ wild' = wild
    BY <2>1 DEF MakePipe
  <2> HIDE DEF r, w
  <2>3. \A s \in Slots : SlotOK(tab[s])
    BY <1>0, SlotsOK DEF SeekInv
  <2> HIDE DEF tab
  <2>4. \A s \in Slots : SlotOK(Rollback(tab, t)[s])
    BY <2>3, SlotsOK DEF Rollback
  <2> QED
    BY <2>2, <2>3, <2>4 DEF SeekInv
<1>6. CASE \E f \in Fd : Dup(t, f)
  <2>1. PICK f \in Fd : Dup(t, f)
    BY <1>6
  <2>2. Duplicate(<<t, f>>, <<t, First(FreeFds(t))>>, heap, pipe) /\ wild' = wild
    BY <2>1 DEF Dup
  <2>3. <<t, f>> \in Slots
    BY <1>0 DEF Slots
  <2>4. <<t, First(FreeFds(t))>> \in Slots
    BY <2>1, FreeSlot DEF Dup
  <2> QED
    BY <1>0, <2>2, <2>3, <2>4, DuplicateSeek
<1>7. CASE \E f, g \in Fd : Dup2(t, f, g) \/ Dup2Fails(t, f, g)
  <2>1. PICK f \in Fd, g \in Fd : Dup2(t, f, g) \/ Dup2Fails(t, f, g)
    BY <1>7
  <2>2. <<t, f>> \in Slots /\ <<t, g>> \in Slots
    BY <1>0 DEF Slots
  <2>3. CASE Dup2(t, f, g)
    <3>1. Duplicate(<<t, f>>, <<t, g>>, heap \ Freed({<<t, g>>}), Replaced(<<t, g>>)) /\ wild' = wild
      BY <2>3 DEF Dup2
    <3> QED
      BY <1>0, <2>2, <3>1, DuplicateSeek
  <2>4. CASE Dup2Fails(t, f, g)
    BY <2>4 DEF Dup2Fails, SeekInv
  <2> QED
    BY <2>1, <2>3, <2>4
<1>8. CASE \E c \in Task \ alive : Fork(t, c) \/ ForkFails(t, c)
  <2>1. PICK c \in Task \ alive : Fork(t, c) \/ ForkFails(t, c)
    BY <1>8
  <2>2. CASE ForkFails(t, c)
    BY <2>2 DEF ForkFails, SeekInv
  <2>3. CASE Fork(t, c)
    <3>1. PICK new : fd' = Inherited(t, c, new)
      BY <2>3 DEF Fork
    <3>2. wild' = wild
      BY <2>3 DEF Fork
    <3>3. ASSUME NEW s \in Slots PROVE SlotOK(fd'[s])
      <4>1. <<t, s[2]>> \in Slots
        BY <1>0 DEF Slots
      <4>2. fd[<<t, s[2]>>] \in SlotType /\ SlotOK(fd[<<t, s[2]>>]) /\ SlotOK(fd[s])
        BY <1>0, <4>1 DEF SeekInv
      <4>3. SlotOK([fd[<<t, s[2]>>] EXCEPT !.obj = new[s[2]], !.cap = fd[<<t, s[2]>>].size])
        BY <4>2, CopyOK
      <4> QED
        BY <3>1, <4>2, <4>3 DEF Inherited
    <3> QED
      BY <3>2, <3>3 DEF SeekInv
  <2> QED
    BY <2>1, <2>2, <2>3
<1> QED
  BY <1>1, <1>2, <1>3, <1>4, <1>5, <1>6, <1>7, <1>8 DEF TableCall

LEMMA MoveFileSeek ==
    ASSUME TableInv, Sound, SeekInv, NEW t \in alive, NEW f \in Fd, NEW n \in 1 .. PipeCap,
           NEW writes \in BOOLEAN, MoveFile(t, f, n, writes)
    PROVE  SeekInv' /\ WildCause'
<1> DEFINE x == <<t, f>>
           k == IF n > Remain(fd[x]) THEN Remain(fd[x]) ELSE n
<1>1. FdType
  BY TableFacts
<1>2. x \in Slots
  BY HeldObj
<1>3. fd[x] \in SlotType /\ SlotOK(fd[x])
  BY <1>1, <1>2 DEF FdType, SeekInv
<1>4. fd[x].pos \in Nat /\ fd[x].size \in Nat /\ fd[x].cap \in Nat
  BY <1>3 DEF SlotType
<1>5. fd[x].pos <= fd[x].size /\ fd[x].size < Word
      /\ (fd[x].typ = "file" => fd[x].cap = fd[x].size \/ fd[x].size > BufMax)
  BY <1>3 DEF SlotOK
<1>6. Remain(fd[x]) = fd[x].size - fd[x].pos
  BY <1>3, <1>5, RemainNat
<1>7. /\ fd' = [fd EXCEPT ![x].pos = @ + k]
      /\ wild' = (writes /\ k > 0 /\ fd[x].pos + k > fd[x].cap)
      /\ writes => fd[x].typ = "file"
  BY DEF MoveFile
<1>8. k \in Nat /\ fd[x].pos + k <= fd[x].size
  BY <1>4, <1>5, <1>6, Constants
<1> HIDE DEF x, k
<1>9. fd[x].pos + k \in Nat /\ fd' = [fd EXCEPT ![x].pos = fd[x].pos + k]
  BY <1>1, <1>2, <1>4, <1>7, <1>8 DEF FdType
<1>10. /\ \A s \in Slots : s # x => fd'[s] = fd[s]
       /\ fd'[x].pos = fd[x].pos + k /\ fd'[x].typ = fd[x].typ
       /\ fd'[x].cap = fd[x].cap /\ fd'[x].size = fd[x].size
  BY <1>1, <1>2, <1>9, MovedSlot
<1>11. SlotOK(fd'[x])
  BY <1>5, <1>8, <1>10 DEF SlotOK
<1>12. SeekInv'
  BY <1>10, <1>11 DEF SeekInv
<1>13. WildCause'
  <2> SUFFICES ASSUME wild' PROVE fd'[x].typ = "file" /\ fd'[x].size > BufMax
    BY <1>2 DEF WildCause
  <2>1. fd[x].typ = "file" /\ fd[x].pos + k > fd[x].cap
    BY <1>7
  <2>2. fd[x].cap # fd[x].size
    BY <1>4, <1>8, <2>1
  <2> QED
    BY <1>5, <1>10, <2>1, <2>2
<1> QED
  BY <1>12, <1>13

LEMMA PutOutSeek ==
    ASSUME TableInv, Sound, SeekInv, NEW t \in alive, NEW v \in Val, PutOut(t, v)
    PROVE  SeekInv' /\ WildCause'
<1> DEFINE x == <<t, outfd[t]>>
<1>1. FdType
  BY TableFacts
<1>2. outfd[t] \in Fd
  <2>1. outfd[t] >= 0
    BY DEF PutOut
  <2>2. outfd[t] \in -1 .. (MaxFd - 1)
    BY <1>1 DEF FdType
  <2>3. MaxFd \in Nat
    BY Constants
  <2> QED
    BY <2>1, <2>2, <2>3 DEF Fd
<1>3. x \in Slots /\ x[1] = t /\ x[2] = outfd[t]
  BY <1>2, HeldObj
<1>4. fd[x] \in SlotType /\ SlotOK(fd[x])
  BY <1>1, <1>3 DEF FdType, SeekInv
<1>5. fd[x].pos \in Nat /\ fd[x].size \in Nat /\ fd[x].cap \in Nat
  BY <1>4 DEF SlotType
<1>6. fd[x].pos <= fd[x].size /\ fd[x].size < Word
      /\ (fd[x].typ = "file" => fd[x].cap = fd[x].size \/ fd[x].size > BufMax)
  BY <1>4 DEF SlotOK
<1>7. /\ fd[x].pos < fd[x].size
      /\ fd' = [fd EXCEPT ![x].pos = @ + 1]
      /\ wild' = (fd[x].typ \in {"zero", "input"} \/ (fd[x].typ = "file" /\ fd[x].pos >= fd[x].cap))
      /\ outfd' = outfd
  BY DEF PutOut
<1> HIDE DEF x
<1>8. fd[x].pos + 1 \in Nat /\ fd' = [fd EXCEPT ![x].pos = fd[x].pos + 1]
  BY <1>1, <1>3, <1>5, <1>7 DEF FdType
<1>9. /\ \A s \in Slots : s # x => fd'[s] = fd[s]
      /\ fd'[x].pos = fd[x].pos + 1 /\ fd'[x].typ = fd[x].typ
      /\ fd'[x].cap = fd[x].cap /\ fd'[x].size = fd[x].size
  BY <1>1, <1>3, <1>8, MovedSlot
<1>10. SlotOK(fd'[x])
  BY <1>5, <1>6, <1>7, <1>9 DEF SlotOK
<1>11. SeekInv'
  BY <1>9, <1>10 DEF SeekInv
<1>12. WildCause'
  <2> SUFFICES ASSUME wild'
               PROVE  \/ fd'[x].typ = "file" /\ fd'[x].size > BufMax
                      \/ fd'[x].typ \in {"zero", "input"} /\ outfd'[x[1]] = x[2]
    BY <1>3 DEF WildCause
  <2>1. CASE fd[x].typ \in {"zero", "input"}
    BY <1>3, <1>7, <1>9, <2>1
  <2>2. CASE fd[x].typ = "file" /\ fd[x].pos >= fd[x].cap
    <3>1. fd[x].cap # fd[x].size
      BY <1>5, <1>7, <2>2
    <3> QED
      BY <1>6, <1>9, <2>2, <3>1
  <2> QED
    BY <1>7, <2>1, <2>2
<1> QED
  BY <1>11, <1>12

LEMMA DataSeek ==
    ASSUME TableInv, Sound, SeekInv, NEW t \in alive, DataCall(t), calls' = calls + 1
    PROVE  SeekInv' /\ WildCause'
<1>0. wild = FALSE
  BY TableFacts
<1>1. CASE \E f \in Fd, d \in Bytes : WritePipe(t, f, d)
  BY <1>0, <1>1 DEF WritePipe, SeekInv, WildCause
<1>2. CASE \E f \in Fd, n \in 1 .. PipeCap : ReadPipe(t, f, n)
  BY <1>0, <1>2 DEF ReadPipe, SeekInv, WildCause
<1>3. CASE \E f \in Fd, n \in 1 .. PipeCap, writes \in BOOLEAN : MoveFile(t, f, n, writes)
  BY <1>3, MoveFileSeek
<1>4. CASE \E f \in Fd, off \in -1 .. 1, whence \in 0 .. 2 : Lseek(t, f, off, whence)
  <2>1. PICK f \in Fd, off \in -1 .. 1, whence \in 0 .. 2 : Lseek(t, f, off, whence)
    BY <1>4
  <2> DEFINE x == <<t, f>>
  <2>2. FdType /\ x \in Slots
    BY TableFacts, HeldObj
  <2>3. PICK v \in Nat : fd' = [fd EXCEPT ![x].pos = v] /\ v <= fd[x].size
    BY <2>1, LseekTo
  <2>4. wild' = wild
    BY <2>1 DEF Lseek
  <2> HIDE DEF x
  <2>5. /\ \A s \in Slots : s # x => fd'[s] = fd[s]
        /\ fd'[x].pos = v /\ fd'[x].typ = fd[x].typ
        /\ fd'[x].cap = fd[x].cap /\ fd'[x].size = fd[x].size
    BY <2>2, <2>3, MovedSlot
  <2>6. SlotOK(fd[x])
    BY <2>2 DEF SeekInv
  <2>7. SlotOK(fd'[x])
    BY <2>3, <2>5, <2>6 DEF SlotOK
  <2> QED
    BY <1>0, <2>4, <2>5, <2>7 DEF SeekInv, WildCause
<1>5. CASE \E f \in -1 .. (MaxFd - 1) : SetOutfd(t, f)
  BY <1>0, <1>5 DEF SetOutfd, SeekInv, WildCause
<1>6. CASE \E v \in Val : PutOut(t, v)
  BY <1>6, PutOutSeek
<1> QED
  BY <1>1, <1>2, <1>3, <1>4, <1>5, <1>6 DEF DataCall

(* Theorem: for every file size and every sequence of seeks, reads, writes   *)
(* and redirected output, fd_pos stays within fd_size, so the unsigned       *)
(* size - pos never wraps, and the kernel writes outside a buffer only for a *)
(* file above the 64 KB clamp or a device found in a redirected slot         *)
(* (syscall.cpp:88, 254, 751).                                               *)
THEOREM WildHasCause == Spec => [](SeekInv /\ WildCause)
<1> DEFINE I == TableInv /\ SeekInv /\ WildCause
<1>1. Init => I
  <2> SUFFICES ASSUME Init PROVE I
    OBVIOUS
  <2>1. SeekInv
    BY SlotsOK DEF Init, SeekInv
  <2>2. WildCause
    BY DEF Init, WildCause
  <2> QED
    BY <2>1, <2>2, TableInit
<1>2. I /\ [Next]_vars => I'
  <2> SUFFICES ASSUME TableInv, SeekInv, WildCause, [Next]_vars PROVE SeekInv' /\ WildCause'
    BY TableStep
  <2>1. CASE UNCHANGED vars
    BY <2>1 DEF vars, SeekInv, WildCause
  <2>2. CASE Next
    <3>1. Sound /\ calls' = calls + 1
      BY <2>2 DEF Next
    <3>2. wild = FALSE /\ FdType
      BY <3>1, TableFacts
    <3>3. CASE \E t \in Task : Launch(t)
      <4>1. PICK t \in Task : Launch(t)
        BY <3>3
      <4>2. fd' = [fd EXCEPT ![<<t, 0>>] = Device("fb")] /\ wild' = wild
        BY <4>1 DEF Launch
      <4>3. SlotOK(Device("fb")) /\ fd \in [Slots -> SlotType]
        BY <3>2, SlotsOK DEF FdType
      <4> QED
        BY <3>2, <4>2, <4>3 DEF SeekInv, WildCause
    <3>4. CASE \E t \in alive : TableCall(t)
      BY <3>1, <3>2, <3>4, TableCallSeek DEF WildCause
    <3>5. CASE \E t \in alive : DataCall(t)
      BY <3>1, <3>5, DataSeek
    <3> QED
      BY <2>2, <3>3, <3>4, <3>5 DEF Next
  <2> QED
    BY <2>1, <2>2
<1> QED
  BY <1>1, <1>2, PTL DEF Spec

---------------------------------------------------------------------------
(* The rings and the ends of the pipes.                                      *)

LEMMA NewRing == RingOK(NewPipe)
<1>1. NewPipe.count = 0 /\ NewPipe.rpos = 0 /\ NewPipe.wpos = 0 /\ NewPipe.queue = <<>>
  BY DEF NewPipe
<1>2. 0 % PipeCap = 0
  BY Constants
<1> QED
  BY <1>1, <1>2 DEF RingOK

LEMMA SameRingOK ==
    ASSUME NEW p, NEW q, SameRing(p, q), RingOK(p)
    PROVE  RingOK(q)
  BY DEF SameRing, RingOK

LEMMA DuplicateRing ==
    ASSUME FdType, NEW src \in Slots, NEW dst, NEW h \in SUBSET Obj, NEW pp \in [Obj -> PipeType],
           fd[src].typ \in Pipes => fd[src].obj \in Obj,
           \A o \in Obj : RingOK(pp[o]), Duplicate(src, dst, h, pp)
    PROVE  RingInv'
<1>1. CASE fd[src].typ = "file"
  BY <1>1 DEF Duplicate, RingInv
<1>2. CASE fd[src].typ \in Pipes
  <2> DEFINE o == fd[src].obj
  <2>1. pipe' = Referenced(o, pp) /\ o \in Obj
    BY <1>2 DEF Duplicate, Pipes
  <2> HIDE DEF o
  <2>2. SameRing(pp[o], pipe'[o]) /\ \A x \in Obj \ {o} : pipe'[x] = pp[x]
    BY <2>1, ReferencedPipes
  <2>3. RingOK(pipe'[o])
    BY <2>1, <2>2, SameRingOK
  <2> QED
    BY <2>2, <2>3 DEF RingInv
<1>3. CASE fd[src].typ # "file" /\ fd[src].typ \notin Pipes
  BY <1>3 DEF Duplicate, RingInv
<1> QED
  BY <1>1, <1>2, <1>3

LEMMA TableCallRing ==
    ASSUME TableInv, Sound, RingInv, NEW t \in alive, TableCall(t)
    PROVE  RingInv'
<1>0. FdType /\ t \in Task /\ pipe \in [Obj -> PipeType]
  BY TableFacts DEF FdType
<1>u. ASSUME NEW D \in SUBSET Slots, pipe' = Unref(D, Marks) PROVE RingInv'
  <2> SUFFICES ASSUME NEW o \in Obj PROVE RingOK(pipe'[o])
    BY DEF RingInv
  <2>1. CASE o \in Freed(D)
    BY <1>0, <1>u, <2>1, UnrefPipes, MarksTrue, NewRing
  <2>2. CASE o \notin Freed(D)
    <3>1. SameRing(pipe[o], pipe'[o])
      BY <1>0, <1>u, <2>2, UnrefPipes, MarksTrue
    <3> QED
      BY <3>1, SameRingOK DEF RingInv
  <2> QED
    BY <2>1, <2>2
<1>r. ASSUME NEW x \in Slots PROVE \A o \in Obj : RingOK(Replaced(x)[o])
  <2> SUFFICES ASSUME NEW o \in Obj PROVE RingOK(Replaced(x)[o])
    OBVIOUS
  <2>1. CASE o \in Freed({x})
    BY <1>0, <2>1, ReplacedPipes, NewRing
  <2>2. CASE o \notin Freed({x})
    <3>1. SameRing(pipe[o], Replaced(x)[o])
      BY <1>0, <2>2, ReplacedPipes
    <3> QED
      BY <3>1, SameRingOK DEF RingInv
  <2> QED
    BY <2>1, <2>2
<1>1. CASE Exit(t)
  <2> DEFINE D == {s \in Slots : s[1] = t /\ Open(s)}
  <2>1. D \in SUBSET Slots /\ pipe' = Unref(D, Marks)
    BY <1>1 DEF Exit
  <2> HIDE DEF D
  <2> QED
    BY <1>u, <2>1
<1>2. CASE \E f \in Fd : Close(t, f)
  <2>1. PICK f \in Fd : Close(t, f)
    BY <1>2
  <2>2. {<<t, f>>} \in SUBSET Slots
    BY <1>0 DEF Slots
  <2>3. pipe' = Unref({<<t, f>>}, Marks)
    BY <2>1 DEF Close
  <2> QED
    BY <1>u, <2>2, <2>3
<1>3. CASE \E d \in Devices : OpenDevice(t, d)
  BY <1>3 DEF OpenDevice, RingInv
<1>4. CASE \E o \in Obj \ heap, n \in Sizes : OpenFile(t, o, n)
  BY <1>4 DEF OpenFile, RingInv
<1>5. CASE \E o \in Obj \ heap, copied \in BOOLEAN : MakePipe(t, o, copied)
  <2>1. PICK o \in Obj : pipe' = [pipe EXCEPT ![o] = NewPipe]
    BY <1>5 DEF MakePipe
  <2> QED
    BY <1>0, <2>1, NewRing DEF RingInv
<1>6. CASE \E f \in Fd : Dup(t, f)
  <2>1. PICK f \in Fd : Dup(t, f)
    BY <1>6
  <2>2. Duplicate(<<t, f>>, <<t, First(FreeFds(t))>>, heap, pipe)
    BY <2>1 DEF Dup
  <2>3. <<t, f>> \in Slots /\ (fd[<<t, f>>].typ \in Pipes => fd[<<t, f>>].obj \in Obj)
    BY HeldObj
  <2>4. heap \in SUBSET Obj /\ \A o \in Obj : RingOK(pipe[o])
    BY <1>0 DEF FdType, RingInv
  <2> QED
    BY <1>0, <2>2, <2>3, <2>4, DuplicateRing
<1>7. CASE \E f, g \in Fd : Dup2(t, f, g) \/ Dup2Fails(t, f, g)
  <2>1. PICK f \in Fd, g \in Fd : Dup2(t, f, g) \/ Dup2Fails(t, f, g)
    BY <1>7
  <2>2. /\ <<t, f>> \in Slots /\ (fd[<<t, f>>].typ \in Pipes => fd[<<t, f>>].obj \in Obj)
        /\ <<t, g>> \in Slots
    BY HeldObj
  <2>3. CASE Dup2(t, f, g)
    <3>1. Duplicate(<<t, f>>, <<t, g>>, heap \ Freed({<<t, g>>}), Replaced(<<t, g>>))
      BY <2>3 DEF Dup2
    <3>2. heap \ Freed({<<t, g>>}) \in SUBSET Obj
      BY <1>0 DEF FdType
    <3>3. Replaced(<<t, g>>) \in [Obj -> PipeType] /\ \A o \in Obj : RingOK(Replaced(<<t, g>>)[o])
      BY <1>0, <1>r, <2>2, ReplacedPipes
    <3> QED
      BY <1>0, <2>2, <3>1, <3>2, <3>3, DuplicateRing
  <2>4. CASE Dup2Fails(t, f, g)
    <3>1. pipe' = Replaced(<<t, g>>)
      BY <2>4 DEF Dup2Fails
    <3> QED
      BY <1>r, <2>2, <3>1 DEF RingInv
  <2> QED
    BY <2>1, <2>3, <2>4
<1>8. CASE \E c \in Task \ alive : Fork(t, c) \/ ForkFails(t, c)
  <2>1. PICK c \in Task \ alive : Fork(t, c) \/ ForkFails(t, c)
    BY <1>8
  <2>2. CASE Fork(t, c)
    <3>1. PICK tab : pipe' = Counted(tab, c, MaxFd, pipe)
      BY <2>2 DEF Fork
    <3>2. \A o \in Obj : SameRing(pipe[o], pipe'[o])
      BY <1>0, <3>1, CountedPipes
    <3> QED
      BY <3>2, SameRingOK DEF RingInv
  <2>3. CASE ForkFails(t, c)
    <3>1. \E i, tab : pipe' = Uncounted(tab, c, i, Counted(tab, c, i, pipe))
      BY <2>3 DEF ForkFails
    <3>2. \A o \in Obj : SameRing(pipe[o], pipe'[o])
      BY <1>0, <3>1, UncountedPipes
    <3> QED
      BY <3>2, SameRingOK DEF RingInv
  <2> QED
    BY <2>1, <2>2, <2>3
<1> QED
  BY <1>1, <1>2, <1>3, <1>4, <1>5, <1>6, <1>7, <1>8 DEF TableCall

(* Theorem: for every capacity of a pipe and every interleaving of readers   *)
(* and writers, the ring holds the bytes written and not yet read, oldest    *)
(* first, unless output was redirected into it (syscall.cpp:30, 724).        *)
THEOREM PipesAreFifo == Spec => []PipeFifo
<1> DEFINE I == TableInv /\ RingInv
<1>1. Init => I
  BY TableInit, NewRing DEF Init, RingInv
<1>2. I /\ [Next]_vars => I'
  <2> SUFFICES ASSUME TableInv, RingInv, [Next]_vars PROVE RingInv'
    BY TableStep
  <2>1. CASE UNCHANGED vars
    BY <2>1 DEF vars, RingInv
  <2>2. CASE Next
    <3>1. Sound /\ calls' = calls + 1
      BY <2>2 DEF Next
    <3>2. CASE \E t \in Task : Launch(t)
      BY <3>2 DEF Launch, RingInv
    <3>3. CASE \E t \in alive : TableCall(t)
      BY <3>1, <3>3, TableCallRing
    <3>4. CASE \E t \in alive : DataCall(t)
      BY <3>1, <3>4, DataStep DEF DataOnly, RingInv
    <3> QED
      BY <2>2, <3>2, <3>3, <3>4 DEF Next
  <2> QED
    BY <2>1, <2>2
<1>3. I => PipeFifo
  <2> SUFFICES ASSUME TableInv, RingInv, NEW o \in heap
               PROVE  LET p == pipe[o] IN
                      /\ p.count = Len(p.queue) /\ p.count <= PipeCap
                      /\ p.raw \/ \A i \in 1 .. p.count : p.buf[(p.rpos + i - 1) % PipeCap] = p.queue[i]
    BY DEF PipeFifo
  <2>1. o \in Obj /\ pipe[o] \in PipeType
    BY DEF TableInv, FdType
  <2>2. RingOK(pipe[o])
    BY <2>1 DEF RingInv
  <2>3. pipe[o].count <= PipeCap
    BY <2>1, Constants DEF PipeType
  <2> QED
    BY <2>2, <2>3 DEF RingOK
<1> QED
  BY <1>1, <1>2, <1>3, PTL DEF Spec

LEMMA PipesOnly ==
    ASSUME NEW tab, NEW rf, NEW h, Exact(tab, rf, h), NEW s \in Slots, tab[s].typ \in Pipes,
           NEW r \in Slots, tab[r].obj = tab[s].obj
    PROVE  tab[r].typ \in Pipes
<1>1. tab[s].obj # None
  BY DEF Exact, Held, Pipes
<1>2. tab[r].typ \in Held
  BY <1>1 DEF Exact
<1>3. tab[r].typ # "file"
  BY DEF Exact, Pipes
<1> QED
  BY <1>2, <1>3 DEF Held, Pipes

(* One pipe, when the slots of D are given up: q is broken or over whenever  *)
(* an end went, and newly broken only then.                                  *)
LEMMA DropTold ==
    ASSUME NEW tab, NEW rf, NEW h, Exact(tab, rf, h), NEW D \in SUBSET Slots, NEW tab2,
           \A s \in Slots : tab2[s] = IF s \in D THEN NoSlot ELSE tab[s],
           NEW o, NEW p, NEW q, ToldOf(tab, p, o), q.shared <=> p.shared,
           p.broken => q.broken, p.over => q.over,
           (\E s \in D : tab[s].obj = o) => q.broken \/ q.over,
           q.broken => p.broken \/ \E s \in D : tab[s].obj = o
    PROVE  ToldOf(tab2, q, o)
<1> SUFFICES ASSUME NEW s0 \in Slots, tab2[s0].typ \in Pipes, tab2[s0].obj = o
             PROVE  /\ Gone(tab2, o) => q.broken \/ q.over
                    /\ q.broken => Gone(tab2, o) \/ q.shared
                    /\ ~q.shared => \A s, r \in Slots :
                         tab2[s].typ \in Pipes /\ tab2[s].typ = tab2[r].typ
                         /\ tab2[s].obj = o /\ tab2[r].obj = o => s = r
  BY DEF ToldOf, HasEnd, Pipes
<1>1. NoSlot.typ \notin Pipes
  BY DEF NoSlot, Pipes
<1>2. \A s \in Slots : tab2[s].typ \in Pipes => s \notin D /\ tab2[s] = tab[s]
  BY <1>1
<1>3. tab[s0].typ \in Pipes /\ tab[s0].obj = o
  BY <1>2
<1>4. \A r \in Slots : tab[r].obj = o => tab[r].typ \in Pipes
  BY <1>3, PipesOnly
<1>5. HasEnd(tab, "rpipe", o) \/ HasEnd(tab, "wpipe", o)
  BY <1>3 DEF HasEnd, Pipes
<1>6. /\ Gone(tab, o) => p.broken \/ p.over
      /\ p.broken => Gone(tab, o) \/ p.shared
      /\ ~p.shared => \A s, r \in Slots :
           tab[s].typ \in Pipes /\ tab[s].typ = tab[r].typ
           /\ tab[s].obj = o /\ tab[r].obj = o => s = r
  BY <1>5 DEF ToldOf
<1>7. Gone(tab, o) => Gone(tab2, o)
  BY <1>2 DEF Gone, HasEnd, Pipes
<1>8. Gone(tab2, o) => Gone(tab, o) \/ \E s \in D : tab[s].obj = o
  BY DEF Gone, HasEnd
<1>9. ASSUME NEW s \in D, tab[s].obj = o, ~p.shared PROVE Gone(tab2, o)
  <2>1. tab[s].typ \in Pipes
    BY <1>4, <1>9
  <2>2. ~HasEnd(tab2, tab[s].typ, o)
    <3> SUFFICES ASSUME NEW r \in Slots, tab2[r].typ = tab[s].typ, tab2[r].obj = o PROVE FALSE
      BY DEF HasEnd
    <3>1. r \notin D /\ tab[r] = tab2[r]
      BY <1>2, <2>1
    <3>2. r = s
      BY <1>6, <1>9, <2>1, <3>1
    <3> QED
      BY <3>1, <3>2
  <2> QED
    BY <2>1, <2>2 DEF Gone, Pipes
<1>10. Gone(tab2, o) => q.broken \/ q.over
  BY <1>6, <1>8
<1>11. q.broken => Gone(tab2, o) \/ q.shared
  BY <1>6, <1>7, <1>9
<1>12. ~q.shared => \A s, r \in Slots :
                         tab2[s].typ \in Pipes /\ tab2[s].typ = tab2[r].typ
                         /\ tab2[s].obj = o /\ tab2[r].obj = o => s = r
  BY <1>2, <1>6
<1> QED
  BY <1>10, <1>11, <1>12

(* One pipe, when empty slots are filled: a pipe that gains a holder is      *)
(* shared from then on.                                                      *)
LEMMA AddTold ==
    ASSUME NEW tab, NEW tab2, NEW o, NEW p, NEW q, o # None, ToldOf(tab, p, o),
           \A s \in Slots : \/ tab2[s].typ = tab[s].typ /\ tab2[s].obj = tab[s].obj
                            \/ tab[s].obj = None,
           q.broken <=> p.broken, q.over <=> p.over, p.shared => q.shared,
           \A s \in Slots : tab2[s].typ \in Pipes /\ tab2[s].obj = o =>
               \/ tab[s].typ = tab2[s].typ /\ tab[s].obj = o
               \/ q.shared /\ \E r \in Slots : tab[r].typ \in Pipes /\ tab[r].obj = o
    PROVE  ToldOf(tab2, q, o)
<1> SUFFICES ASSUME NEW s0 \in Slots, tab2[s0].typ \in Pipes, tab2[s0].obj = o
             PROVE  /\ Gone(tab2, o) => q.broken \/ q.over
                    /\ q.broken => Gone(tab2, o) \/ q.shared
                    /\ ~q.shared => \A s, r \in Slots :
                         tab2[s].typ \in Pipes /\ tab2[s].typ = tab2[r].typ
                         /\ tab2[s].obj = o /\ tab2[r].obj = o => s = r
  BY DEF ToldOf, HasEnd, Pipes
<1>1. \E r \in Slots : tab[r].typ \in Pipes /\ tab[r].obj = o
  OBVIOUS
<1>2. HasEnd(tab, "rpipe", o) \/ HasEnd(tab, "wpipe", o)
  BY <1>1 DEF HasEnd, Pipes
<1>3. /\ Gone(tab, o) => p.broken \/ p.over
      /\ p.broken => Gone(tab, o) \/ p.shared
      /\ ~p.shared => \A s, r \in Slots :
           tab[s].typ \in Pipes /\ tab[s].typ = tab[r].typ
           /\ tab[s].obj = o /\ tab[r].obj = o => s = r
  BY <1>2 DEF ToldOf
<1>4. \A typ : HasEnd(tab, typ, o) => HasEnd(tab2, typ, o)
  BY DEF HasEnd
<1>5. ~q.shared => \A s \in Slots : tab2[s].typ \in Pipes /\ tab2[s].obj = o =>
                      tab[s].typ = tab2[s].typ /\ tab[s].obj = o
  OBVIOUS
<1>6. Gone(tab2, o) => Gone(tab, o)
  BY <1>4 DEF Gone
<1>7. ~q.shared /\ Gone(tab, o) => Gone(tab2, o)
  BY <1>5 DEF Gone, HasEnd, Pipes
<1>8. q.broken => Gone(tab2, o) \/ q.shared
  BY <1>3, <1>7
<1>9. ~q.shared => \A s, r \in Slots :
                         tab2[s].typ \in Pipes /\ tab2[s].typ = tab2[r].typ
                         /\ tab2[s].obj = o /\ tab2[r].obj = o => s = r
  BY <1>3, <1>5
<1> QED
  BY <1>3, <1>6, <1>8, <1>9

LEMMA Unheld ==
    ASSUME NEW tab, NEW p, NEW o, \A s \in Slots : tab[s].obj # o
    PROVE  ToldOf(tab, p, o)
  BY DEF ToldOf, HasEnd

LEMMA SameTold ==
    ASSUME NEW tab, NEW tab2, NEW o, NEW p, NEW q, o # None, ToldOf(tab, p, o),
           \A s \in Slots : tab2[s].typ = tab[s].typ /\ tab2[s].obj = tab[s].obj,
           q.broken <=> p.broken, q.over <=> p.over, p.shared => q.shared
    PROVE  ToldOf(tab2, q, o)
  BY AddTold

LEMMA EndsNow ==
    ASSUME TableInv, Sound, EndsInv
    PROVE  \A o \in Obj : o # None /\ ToldOf(fd, pipe[o], o)
<1>1. FdType /\ stale = {}
  BY TableFacts
<1>2. Shown = fd
  BY <1>1 DEF Shown, FdType
<1> QED
  BY <1>2, FdAssumption DEF EndsInv

LEMMA EndsNext ==
    ASSUME TableInv', stale' = {}, \A o \in Obj : ToldOf(fd', pipe'[o], o)
    PROVE  EndsInv'
<1>1. Shown' = fd'
  BY DEF Shown, TableInv, FdType
<1> QED
  BY <1>1 DEF EndsInv

(* Giving up the slots of D: pp are the pipes afterwards.                    *)
Marked(D, pp) ==
    \A o \in Obj \ Freed(D) :
        /\ pp[o].shared <=> pipe[o].shared
        /\ pipe[o].broken => pp[o].broken
        /\ pipe[o].over => pp[o].over
        /\ (\E s \in D : fd[s].obj = o) => pp[o].broken \/ pp[o].over
        /\ pp[o].broken => pipe[o].broken \/ \E s \in D : fd[s].obj = o

LEMMA DropEnds ==
    ASSUME TableInv, Sound, EndsInv, NEW D \in SUBSET Slots, NEW tab2, NEW rf2, NEW pp,
           \A s \in Slots : tab2[s] = IF s \in D THEN NoSlot ELSE fd[s],
           Exact(tab2, rf2, heap \ Freed(D)), Marked(D, pp)
    PROVE  \A o \in Obj : ToldOf(tab2, pp[o], o)
<1> SUFFICES ASSUME NEW o \in Obj PROVE ToldOf(tab2, pp[o], o)
  OBVIOUS
<1>1. o # None /\ ToldOf(fd, pipe[o], o) /\ Exact(fd, Refs, heap)
  BY EndsNow, TableFacts
<1>2. CASE o \in Freed(D)
  <2>1. \A s \in Slots : tab2[s].obj # o
    BY <1>1, <1>2 DEF Exact
  <2> QED
    BY <2>1, Unheld
<1>3. CASE o \notin Freed(D)
  <2>1. /\ pp[o].shared <=> pipe[o].shared
        /\ pipe[o].broken => pp[o].broken
        /\ pipe[o].over => pp[o].over
        /\ (\E s \in D : fd[s].obj = o) => pp[o].broken \/ pp[o].over
        /\ pp[o].broken => pipe[o].broken \/ \E s \in D : fd[s].obj = o
    BY <1>3 DEF Marked
  <2> QED
    BY <1>1, <2>1, DropTold
<1> QED
  BY <1>2, <1>3

LEMMA UnrefMarks ==
    ASSUME TableInv, Sound, NEW D \in SUBSET Slots
    PROVE  Marked(D, Unref(D, Marks))
<1> SUFFICES ASSUME NEW o \in Obj, o \notin Freed(D)
             PROVE  LET q == Unref(D, Marks)[o] IN
                    /\ q.shared <=> pipe[o].shared
                    /\ pipe[o].broken => q.broken
                    /\ pipe[o].over => q.over
                    /\ (\E s \in D : fd[s].obj = o) => q.broken \/ q.over
                    /\ q.broken => pipe[o].broken \/ \E s \in D : fd[s].obj = o
  BY DEF Marked
<1>1. FdType
  BY TableFacts
<1> DEFINE q == Unref(D, Marks)[o]
<1>2. /\ q.broken = (pipe[o].broken \/ (Marks /\ o \in Names(D)))
      /\ q.shared = pipe[o].shared /\ q.over = pipe[o].over
  BY <1>1, UnrefPipes, MarksTrue
<1>3. o \in Names(D) <=> \E s \in D : fd[s].obj = o
  BY FdAssumption DEF Names
<1> HIDE DEF q
<1>4. q.broken <=> (pipe[o].broken \/ \E s \in D : fd[s].obj = o)
  BY <1>2, <1>3, MarksTrue
<1> QED
  BY <1>2, <1>4 DEF q

LEMMA ReplacedMarks ==
    ASSUME TableInv, Sound, NEW x \in Slots
    PROVE  Marked({x}, Replaced(x))
<1> SUFFICES ASSUME NEW o \in Obj, o \notin Freed({x})
             PROVE  LET q == Replaced(x)[o] IN
                    /\ q.shared <=> pipe[o].shared
                    /\ pipe[o].broken => q.broken
                    /\ pipe[o].over => q.over
                    /\ (\E s \in {x} : fd[s].obj = o) => q.broken \/ q.over
                    /\ q.broken => pipe[o].broken \/ \E s \in {x} : fd[s].obj = o
  BY DEF Marked
<1>1. FdType /\ (fd[x].typ \in Held <=> fd[x].obj # None) /\ o # None
  BY TableFacts, FdAssumption
<1> DEFINE q == Replaced(x)[o]
<1>2. /\ q.broken = pipe[o].broken /\ q.shared = pipe[o].shared
      /\ q.over = (pipe[o].over \/ (fd[x].typ \in Pipes /\ fd[x].obj = o))
  BY <1>1, ReplacedPipes
<1>3. fd[x].obj = o => fd[x].typ \in Pipes
  <2> SUFFICES ASSUME fd[x].obj = o PROVE fd[x].typ # "file"
    BY <1>1 DEF Held, Pipes
  <2> QED
    BY <1>1 DEF Freed, Names
<1> HIDE DEF q
<1>4. q.over <=> (pipe[o].over \/ fd[x].obj = o)
  BY <1>2, <1>3
<1> QED
  BY <1>2, <1>4 DEF q

LEMMA CloseEnds ==
    ASSUME TableInv, Sound, EndsInv, NEW t \in alive, NEW f \in Fd, Close(t, f), TableInv'
    PROVE  EndsInv'
<1> DEFINE x == <<t, f>>
<1>1. FdType /\ stale = {} /\ x \in Slots
  BY TableFacts, HeldObj
<1>2. /\ fd' = [fd EXCEPT ![x] = NoSlot] /\ heap' = heap \ Freed({x})
      /\ pipe' = Unref({x}, Marks) /\ stale' = {}
  BY <1>1 DEF Close
<1> HIDE DEF x
<1>3. {x} \in SUBSET Slots /\ \A s \in Slots : fd'[s] = IF s \in {x} THEN NoSlot ELSE fd[s]
  BY <1>1, <1>2 DEF FdType
<1>4. Exact(fd', Refs', heap \ Freed({x}))
  <2>1. Shown' = fd'
    BY <1>2 DEF Shown, TableInv, FdType
  <2> QED
    BY <1>2, <2>1 DEF TableInv
<1>5. Marked({x}, pipe')
  BY <1>2, <1>3, UnrefMarks
<1>6. \A o \in Obj : ToldOf(fd', pipe'[o], o)
  BY <1>3, <1>4, <1>5, DropEnds
<1> QED
  BY <1>2, <1>6, EndsNext

LEMMA ExitEnds ==
    ASSUME TableInv, Sound, EndsInv, NEW t \in alive, Exit(t), TableInv'
    PROVE  EndsInv'
<1> DEFINE D == {s \in Slots : s[1] = t /\ Open(s)}
           tab2 == [s \in Slots |-> IF s \in D THEN NoSlot ELSE fd[s]]
<1>1. FdType /\ stale = {} /\ \A s \in Slots : fd[s].typ \in Held <=> fd[s].obj # None
  BY TableFacts
<1>2. /\ fd' = [s \in Slots |-> IF s[1] = t THEN NoSlot ELSE fd[s]]
      /\ heap' = heap \ Freed(D) /\ pipe' = Unref(D, Marks) /\ stale' = {}
  BY <1>1 DEF Exit
<1>3. D \in SUBSET Slots /\ \A s \in Slots : s \in D <=> s[1] = t /\ fd[s].typ # "free"
  BY DEF Open
<1> HIDE DEF D
<1>4. \A s \in Slots : tab2[s] = IF s \in D THEN NoSlot ELSE fd[s]
  OBVIOUS
<1> HIDE DEF tab2
<1>5. ASSUME NEW s \in Slots PROVE fd'[s].typ = tab2[s].typ /\ fd'[s].obj = tab2[s].obj
  <2>1. CASE s[1] = t /\ fd[s].typ = "free"
    <3>1. fd[s].obj = None
      BY <1>1, <2>1 DEF Held
    <3>2. tab2[s] = fd[s] /\ fd'[s] = NoSlot
      BY <1>2, <1>3, <1>4, <2>1
    <3> QED
      BY <2>1, <3>1, <3>2 DEF NoSlot
  <2>2. CASE s[1] = t /\ fd[s].typ # "free"
    BY <1>2, <1>3, <1>4, <2>2
  <2>3. CASE s[1] # t
    BY <1>2, <1>3, <1>4, <2>3
  <2> QED
    BY <2>1, <2>2, <2>3
<1>6. Exact(tab2, Refs', heap \ Freed(D))
  <2>1. Shown' = fd'
    BY <1>2 DEF Shown, TableInv, FdType
  <2>2. Exact(fd', Refs', heap')
    BY <2>1 DEF TableInv
  <2>3. None \notin heap'
    BY <1>2, TableFacts
  <2>4. Exact(tab2, Refs', heap')
    BY <1>5, <2>2, <2>3, SameExact
  <2> QED
    BY <1>2, <2>4
<1>7. Marked(D, pipe')
  BY <1>2, <1>3, UnrefMarks
<1>8. \A o \in Obj : ToldOf(tab2, pipe'[o], o)
  BY <1>3, <1>4, <1>6, <1>7, DropEnds
<1>9. \A o \in Obj : ToldOf(fd', pipe'[o], o)
  <2> SUFFICES ASSUME NEW o \in Obj PROVE ToldOf(fd', pipe'[o], o)
    OBVIOUS
  <2>1. o # None
    BY FdAssumption
  <2> QED
    BY <1>5, <1>8, <2>1, SameTold
<1> QED
  BY <1>2, <1>9, EndsNext

(* Filling one empty slot x with something that is not a pipe, or with a     *)
(* pipe somebody holds and that is shared from then on.                      *)
LateEnd(tab, pp, x, tab2, qq) ==
    /\ x \in Slots /\ tab[x].obj = None
    /\ \A s \in Slots : s # x => tab2[s] = tab[s]
    /\ \A o \in Obj : /\ qq[o].broken <=> pp[o].broken
                      /\ qq[o].over <=> pp[o].over
                      /\ pp[o].shared => qq[o].shared
    /\ \/ tab2[x].typ \notin Pipes
       \/ /\ \E r \in Slots : tab[r].typ \in Pipes /\ tab[r].obj = tab2[x].obj
          /\ qq[tab2[x].obj].shared

LEMMA FillEnds ==
    ASSUME NEW tab, NEW x, NEW pp, NEW tab2, NEW qq, LateEnd(tab, pp, x, tab2, qq),
           \A o \in Obj : ToldOf(tab, pp[o], o)
    PROVE  \A o \in Obj : ToldOf(tab2, qq[o], o)
<1> USE DEF LateEnd
<1> SUFFICES ASSUME NEW o \in Obj PROVE ToldOf(tab2, qq[o], o)
  OBVIOUS
<1>1. o # None
  BY FdAssumption
<1>2. \A s \in Slots : \/ tab2[s].typ = tab[s].typ /\ tab2[s].obj = tab[s].obj
                       \/ tab[s].obj = None
  OBVIOUS
<1>3. \A s \in Slots : tab2[s].typ \in Pipes /\ tab2[s].obj = o =>
               \/ tab[s].typ = tab2[s].typ /\ tab[s].obj = o
               \/ qq[o].shared /\ \E r \in Slots : tab[r].typ \in Pipes /\ tab[r].obj = o
  OBVIOUS
<1> QED
  BY <1>1, <1>2, <1>3, AddTold

LEMMA OpenEnds ==
    ASSUME TableInv, Sound, EndsInv, NEW x \in Slots, fd[x].obj = None, NEW rec,
           rec.typ \notin Pipes, fd' = [fd EXCEPT ![x] = rec], pipe' = pipe, stale' = stale,
           TableInv'
    PROVE  EndsInv'
<1>1. FdType /\ stale = {} /\ \A o \in Obj : ToldOf(fd, pipe[o], o)
  BY TableFacts, EndsNow
<1>2. fd'[x] = rec /\ \A s \in Slots : s # x => fd'[s] = fd[s]
  BY <1>1 DEF FdType
<1>3. fd'[x].typ \notin Pipes
  BY <1>2
<1>4. LateEnd(fd, pipe, x, fd', pipe')
  BY <1>2, <1>3 DEF LateEnd
<1>5. \A o \in Obj : ToldOf(fd', pipe'[o], o)
  BY <1>1, <1>4, FillEnds
<1> QED
  BY <1>1, <1>5, EndsNext

LEMMA DuplicateFile ==
    ASSUME NEW src, NEW dst, NEW h, NEW pp, fd[src].typ = "file", Duplicate(src, dst, h, pp)
    PROVE  \E o \in Obj \ h :
              /\ heap' = h \cup {o}
              /\ fd' = [fd EXCEPT ![dst] = [fd[src] EXCEPT !.obj = o, !.cap = fd[src].size]]
              /\ pipe' = pp
  BY Zenon DEF Duplicate

LEMMA DuplicateEnds ==
    ASSUME FdType, NEW tab, NEW h \in SUBSET Obj, NEW pp \in [Obj -> PipeType],
           NEW src \in Slots, NEW dst \in Slots, src # dst, tab[dst].obj = None,
           \A s \in Slots : s # dst => tab[s] = fd[s],
           fd[src].typ \in Pipes => fd[src].obj \in Obj,
           \A o \in Obj : ToldOf(tab, pp[o], o),
           Duplicate(src, dst, h, pp)
    PROVE  \A o \in Obj : ToldOf(fd', pipe'[o], o)
<1>0. fd[src] \in SlotType /\ tab[src] = fd[src]
  BY DEF FdType
<1>1. CASE fd[src].typ = "file"
  <2>1. PICK o \in Obj \ h :
           /\ heap' = h \cup {o}
           /\ fd' = [fd EXCEPT ![dst] = [fd[src] EXCEPT !.obj = o, !.cap = fd[src].size]]
           /\ pipe' = pp
    BY <1>1, DuplicateFile, Zenon
  <2> DEFINE rec == [fd[src] EXCEPT !.obj = o, !.cap = fd[src].size]
  <2>2. rec.typ = "file"
    BY <1>0, <1>1 DEF SlotType
  <2> HIDE DEF rec
  <2>3. fd' = [fd EXCEPT ![dst] = rec]
    BY <2>1 DEF rec
  <2>4. fd'[dst] = rec /\ \A s \in Slots : s # dst => fd'[s] = tab[s]
    BY <2>3 DEF FdType
  <2>5. fd'[dst].typ \notin Pipes
    BY <2>2, <2>4 DEF Pipes
  <2>6. LateEnd(tab, pp, dst, fd', pipe')
    BY <2>1, <2>4, <2>5 DEF LateEnd
  <2> QED
    BY <2>6, FillEnds
<1>2. CASE fd[src].typ # "file"
  <2>1. /\ fd' = [fd EXCEPT ![dst] = fd[src]]
        /\ pipe' = IF fd[src].typ \in Pipes THEN Referenced(fd[src].obj, pp) ELSE pp
    BY <1>2 DEF Duplicate
  <2>2. fd'[dst] = fd[src] /\ \A s \in Slots : s # dst => fd'[s] = tab[s]
    BY <2>1 DEF FdType
  <2>3. CASE fd[src].typ \in Pipes
    <3>1. PICK o \in Obj : o = fd[src].obj
      BY <2>3
    <3>2. pipe' = Referenced(o, pp)
      BY <2>1, <2>3, <3>1
    <3>3. /\ pipe'[o].shared = TRUE /\ pipe'[o].broken = pp[o].broken /\ pipe'[o].over = pp[o].over
          /\ \A x \in Obj \ {o} : pipe'[x] = pp[x]
      BY <3>2, ReferencedPipes
    <3>4. \A x \in Obj : /\ pipe'[x].broken <=> pp[x].broken
                         /\ pipe'[x].over <=> pp[x].over
                         /\ pp[x].shared => pipe'[x].shared
      <4> TAKE x \in Obj
      <4>1. CASE x = o
        BY <3>3, <4>1
      <4>2. CASE x # o
        BY <3>3, <4>2
      <4> QED
        BY <4>1, <4>2
    <3>5. /\ \E r \in Slots : tab[r].typ \in Pipes /\ tab[r].obj = fd'[dst].obj
          /\ pipe'[fd'[dst].obj].shared
      BY <1>0, <2>2, <2>3, <3>1, <3>3
    <3>6. LateEnd(tab, pp, dst, fd', pipe')
      BY <2>2, <3>4, <3>5 DEF LateEnd
    <3> QED
      BY <3>6, FillEnds
  <2>4. CASE fd[src].typ \notin Pipes
    <3>1. pipe' = pp /\ fd'[dst].typ \notin Pipes
      BY <2>1, <2>2, <2>4
    <3>2. LateEnd(tab, pp, dst, fd', pipe')
      BY <2>2, <3>1 DEF LateEnd
    <3> QED
      BY <3>2, FillEnds
  <2> QED
    BY <2>3, <2>4
<1> QED
  BY <1>1, <1>2

LEMMA DupEnds ==
    ASSUME TableInv, Sound, EndsInv, NEW t \in alive, NEW f \in Fd, Dup(t, f), TableInv'
    PROVE  EndsInv'
<1> DEFINE src == <<t, f>>
           dst == <<t, First(FreeFds(t))>>
<1>1. FdType /\ stale = {} /\ \A o \in Obj : ToldOf(fd, pipe[o], o)
  BY TableFacts, EndsNow
<1>2. dst \in Slots /\ fd[dst].obj = None /\ fd[dst].typ = "free"
  BY FreeSlot DEF Dup
<1>3. /\ src \in Slots /\ fd[src].typ # "free" /\ src # dst
      /\ fd[src].typ \in Pipes => fd[src].obj \in Obj
  BY <1>1, <1>2, HeldObj DEF Dup, Open
<1>4. Duplicate(src, dst, heap, pipe) /\ stale' = {}
  BY <1>1 DEF Dup
<1> HIDE DEF src, dst
<1>5. heap \in SUBSET Obj /\ pipe \in [Obj -> PipeType]
  BY <1>1 DEF FdType
<1>6. \A o \in Obj : ToldOf(fd', pipe'[o], o)
  BY <1>1, <1>2, <1>3, <1>4, <1>5, DuplicateEnds
<1> QED
  BY <1>4, <1>6, EndsNext

(* The table and the pipes after dup2 gave new_fd up.                        *)
LEMMA ReplacedEnds ==
    ASSUME TableInv, Sound, EndsInv, NEW x \in Slots,
           NEW tab, \A s \in Slots : tab[s] = IF s = x THEN NoSlot ELSE fd[s]
    PROVE  \A o \in Obj : ToldOf(tab, Replaced(x)[o], o)
<1> DEFINE rf == [o \in Obj |-> Replaced(x)[o].refs]
<1>1. Exact(tab, rf, heap \ Freed({x}))
  BY ReplacedTable
<1> HIDE DEF rf
<1>2. {x} \in SUBSET Slots /\ \A s \in Slots : tab[s] = IF s \in {x} THEN NoSlot ELSE fd[s]
  OBVIOUS
<1>3. Marked({x}, Replaced(x))
  BY ReplacedMarks
<1> QED
  BY <1>1, <1>2, <1>3, DropEnds

LEMMA Dup2Ends ==
    ASSUME TableInv, Sound, EndsInv, NEW t \in alive, NEW f \in Fd, NEW g \in Fd,
           Dup2(t, f, g), TableInv'
    PROVE  EndsInv'
<1> DEFINE src == <<t, f>>
           dst == <<t, g>>
           tab == [s \in Slots |-> IF s = dst THEN NoSlot ELSE fd[s]]
           h == heap \ Freed({dst})
           pp == Replaced(dst)
<1>1. FdType /\ stale = {}
  BY TableFacts
<1>2. /\ src \in Slots /\ dst \in Slots /\ src # dst
      /\ fd[src].typ \in Pipes => fd[src].obj \in Obj
  BY HeldObj DEF Dup2
<1>3. Duplicate(src, dst, h, pp) /\ stale' = {}
  BY <1>1 DEF Dup2
<1> HIDE DEF src, dst
<1>4. \A s \in Slots : tab[s] = IF s = dst THEN NoSlot ELSE fd[s]
  OBVIOUS
<1> HIDE DEF tab
<1>5. pp \in [Obj -> PipeType] /\ \A o \in Obj : ToldOf(tab, pp[o], o)
  BY <1>2, <1>4, ReplacedTable, ReplacedEnds
<1>6. tab[dst].obj = None /\ \A s \in Slots : s # dst => tab[s] = fd[s]
  BY <1>2, <1>4 DEF NoSlot
<1>7. h \in SUBSET Obj
  BY <1>1 DEF FdType
<1> HIDE DEF h, pp
<1>8. \A o \in Obj : ToldOf(fd', pipe'[o], o)
  BY <1>1, <1>2, <1>3, <1>5, <1>6, <1>7, DuplicateEnds
<1> QED
  BY <1>3, <1>8, EndsNext

LEMMA Dup2FailsEnds ==
    ASSUME TableInv, Sound, EndsInv, NEW t \in alive, NEW f \in Fd, NEW g \in Fd,
           Dup2Fails(t, f, g), TableInv'
    PROVE  EndsInv'
<1> DEFINE x == <<t, g>>
           tab == [s \in Slots |-> IF s = x THEN NoSlot ELSE fd[s]]
<1>1. FdType /\ stale = {} /\ x \in Slots /\ (fd[x].typ \in Held <=> fd[x].obj # None)
  BY TableFacts, HeldObj
<1>2. pipe' = Replaced(x) /\ stale' = {s \in {x} : fd[s].obj # None} /\ fd' = fd
  BY DEF Dup2Fails
<1> HIDE DEF x
<1>3. \A s \in Slots : tab[s] = IF s = x THEN NoSlot ELSE fd[s]
  OBVIOUS
<1>31. \A s \in Slots : s \in stale' <=> s = x /\ fd[x].obj # None
  BY <1>2
<1>32. PICK sh : sh = Shown'
  OBVIOUS
<1>4. \A s \in Slots : sh[s] = IF s \in stale' THEN NoSlot ELSE fd[s]
  BY <1>2, <1>32 DEF Shown
<1> HIDE DEF tab
<1>5. \A o \in Obj : ToldOf(tab, pipe'[o], o)
  BY <1>1, <1>2, <1>3, ReplacedEnds
<1>6. ASSUME NEW s \in Slots
      PROVE  sh[s].obj = tab[s].obj /\ (tab[s].typ = sh[s].typ \/ (s = x /\ fd[x].obj = None))
  <2>1. CASE s # x
    <3>1. sh[s] = fd[s] /\ tab[s] = fd[s]
      BY <1>3, <1>31, <1>4, <2>1
    <3> QED
      BY <3>1
  <2>2. CASE s = x /\ fd[x].obj # None
    <3>1. sh[s] = NoSlot /\ tab[s] = NoSlot
      BY <1>3, <1>31, <1>4, <2>2
    <3> QED
      BY <3>1
  <2>3. CASE s = x /\ fd[x].obj = None
    <3>1. sh[s] = fd[x] /\ tab[s] = NoSlot
      BY <1>3, <1>31, <1>4, <2>3
    <3> QED
      BY <2>3, <3>1 DEF NoSlot
  <2> QED
    BY <2>1, <2>2, <2>3
<1>7. ASSUME NEW o \in Obj PROVE ToldOf(sh, pipe'[o], o)
  <2>1. o # None /\ ToldOf(tab, pipe'[o], o)
    BY <1>5, FdAssumption
  <2>2. \A s \in Slots : \/ sh[s].typ = tab[s].typ /\ sh[s].obj = tab[s].obj
                         \/ tab[s].obj = None
    BY <1>3, <1>6 DEF NoSlot
  <2>3. \A s \in Slots : sh[s].typ \in Pipes /\ sh[s].obj = o =>
               \/ tab[s].typ = sh[s].typ /\ tab[s].obj = o
               \/ pipe'[o].shared /\ \E r \in Slots : tab[r].typ \in Pipes /\ tab[r].obj = o
    BY <1>3, <1>6, <2>1 DEF NoSlot
  <2> QED
    BY <2>1, <2>2, <2>3, AddTold
<1> QED
  BY <1>7, <1>32 DEF EndsInv

LEMMA MakePipeEnds ==
    ASSUME TableInv, Sound, EndsInv, NEW t \in alive, NEW o \in Obj \ heap, NEW copied \in BOOLEAN,
           MakePipe(t, o, copied), TableInv'
    PROVE  EndsInv'
<1> DEFINE r == First(FreeFds(t))
           w == First(FreeFds(t) \ {r})
           xr == <<t, r>>
           xw == <<t, w>>
           tab == [fd EXCEPT ![xr] = End("rpipe", o), ![xw] = End("wpipe", o)]
<1>1. /\ FdType /\ stale = {} /\ heap \subseteq Obj /\ None \notin heap
      /\ \A s \in Slots : fd[s].obj \in heap \cup {None}
      /\ \A s \in Slots : fd[s].typ \in Held <=> fd[s].obj # None
      /\ \A p \in Obj : ToldOf(fd, pipe[p], p)
  BY TableFacts, EndsNow DEF FdType
<1>2. /\ r \in FreeFds(t) /\ w \in FreeFds(t) /\ r # w /\ xr \in Slots /\ xw \in Slots
      /\ fd[xr].obj = None /\ fd[xw].obj = None
  BY TwoFree DEF MakePipe
<1>3. /\ fd' = IF copied THEN tab ELSE Rollback(tab, t)
      /\ pipe' = [pipe EXCEPT ![o] = NewPipe] /\ stale' = {}
  BY <1>1 DEF MakePipe
<1>4. xr # xw /\ xr[1] = t /\ xw[1] = t /\ xr[2] = r /\ xw[2] = w
  BY <1>2
<1> HIDE DEF r, w, xr, xw
<1>5. /\ End("rpipe", o).typ = "rpipe" /\ End("wpipe", o).typ = "wpipe"
      /\ End("rpipe", o).obj = o /\ End("wpipe", o).obj = o
  BY DEF End
<1>6. /\ tab[xr] = End("rpipe", o) /\ tab[xw] = End("wpipe", o)
      /\ \A s \in Slots \ {xr, xw} : tab[s] = fd[s]
  BY <1>1, <1>2, <1>4 DEF FdType
<1> HIDE DEF tab
<1>7. pipe'[o] = NewPipe /\ \A p \in Obj \ {o} : pipe'[p] = pipe[p]
  BY <1>1, <1>3 DEF FdType
<1>8. o # None /\ \A s \in Slots : fd[s].obj # o
  BY <1>1, FdAssumption
<1>9. CASE copied
  <2>1. fd' = tab
    BY <1>3, <1>9
  <2>2. ASSUME NEW p \in Obj, p # o PROVE ToldOf(tab, pipe'[p], p)
    <3>1. p # None /\ ToldOf(fd, pipe[p], p) /\ pipe'[p] = pipe[p]
      BY <1>1, <1>7, <2>2, FdAssumption
    <3>2. \A s \in Slots : \/ tab[s].typ = fd[s].typ /\ tab[s].obj = fd[s].obj
                           \/ fd[s].obj = None
      BY <1>2, <1>6
    <3>3. \A s \in Slots : tab[s].obj = p => s \notin {xr, xw}
      BY <1>5, <1>6, <2>2
    <3>4. \A s \in Slots : tab[s].typ \in Pipes /\ tab[s].obj = p =>
               \/ fd[s].typ = tab[s].typ /\ fd[s].obj = p
               \/ pipe'[p].shared /\ \E q \in Slots : fd[q].typ \in Pipes /\ fd[q].obj = p
      BY <1>6, <3>3
    <3> QED
      BY <3>1, <3>2, <3>4, AddTold
  <2>3. ToldOf(tab, NewPipe, o)
    <3>1. ~NewPipe.broken
      BY DEF NewPipe
    <3>2. HasEnd(tab, "rpipe", o) /\ HasEnd(tab, "wpipe", o)
      BY <1>2, <1>5, <1>6 DEF HasEnd
    <3>3. \A s \in Slots : tab[s].obj = o => s = xr \/ s = xw
      BY <1>6, <1>8
    <3>4. \A s, q \in Slots :
             tab[s].typ \in Pipes /\ tab[s].typ = tab[q].typ
             /\ tab[s].obj = o /\ tab[q].obj = o => s = q
      BY <1>5, <1>6, <3>3
    <3> QED
      BY <3>1, <3>2, <3>4 DEF ToldOf, Gone
  <2>4. \A p \in Obj : ToldOf(fd', pipe'[p], p)
    BY <1>7, <2>1, <2>2, <2>3
  <2> QED
    BY <1>3, <2>4, EndsNext
<1>10. CASE ~copied
  <2>1. fd' = Rollback(tab, t)
    BY <1>3, <1>10
  <2>2. \A s \in Slots : fd'[s] = IF s[1] = t /\ s[2] \in FreeFds(t) THEN NoSlot ELSE tab[s]
    BY <2>1 DEF Rollback
  <2>3. ASSUME NEW s \in Slots PROVE fd'[s].typ = fd[s].typ /\ fd'[s].obj = fd[s].obj
    <3>1. CASE s[1] = t /\ s[2] \in FreeFds(t)
      <4>1. fd[s].typ = "free"
        <5>1. s = <<s[1], s[2]>>
          BY DEF Slots
        <5> QED
          BY <3>1, <5>1 DEF FreeFds, Open
      <4>2. fd[s].obj = None
        BY <1>1, <4>1 DEF Held
      <4> QED
        BY <2>2, <3>1, <4>1, <4>2 DEF NoSlot
    <3>2. CASE ~(s[1] = t /\ s[2] \in FreeFds(t))
      <4>1. s # xr /\ s # xw
        BY <1>2, <1>4, <3>2
      <4> QED
        BY <1>6, <2>2, <3>2, <4>1
    <3> QED
      BY <3>1, <3>2
  <2>4. ASSUME NEW p \in Obj PROVE ToldOf(fd', pipe'[p], p)
    <3>1. CASE p = o
      <4>1. \A s \in Slots : fd'[s].obj # p
        BY <1>8, <2>3, <3>1
      <4> QED
        BY <4>1, Unheld
    <3>2. CASE p # o
      <4>1. p # None /\ ToldOf(fd, pipe[p], p) /\ pipe'[p] = pipe[p]
        BY <1>1, <1>7, <3>2, FdAssumption
      <4> QED
        BY <2>3, <4>1, SameTold
    <3> QED
      BY <3>1, <3>2
  <2> QED
    BY <1>3, <2>4, EndsNext
<1> QED
  BY <1>9, <1>10

LEMMA ForkEnds ==
    ASSUME TableInv, Sound, EndsInv, NEW t \in alive, NEW c \in Task \ alive, Fork(t, c), TableInv'
    PROVE  EndsInv'
<1> DEFINE A == {s \in Slots : s[1] = c}
<1>1. /\ FdType /\ Departed /\ stale = {} /\ t \in Task
      /\ \A s \in Slots : fd[s] \in SlotType
      /\ \A o \in Obj : ToldOf(fd, pipe[o], o)
  BY TableFacts, EndsNow DEF FdType
<1>2. PICK S \in SUBSET (Obj \ heap) :
         /\ Cardinality(S) = Cardinality(Files(t))
         /\ \E new \in [Files(t) -> S] :
              /\ \A f, g \in Files(t) : f # g => new[f] # new[g]
              /\ fd' = Inherited(t, c, new)
              /\ heap' = heap \cup S
              /\ pipe' = Counted(fd', c, MaxFd, pipe)
  BY DEF Fork
<1>21. PICK new \in [Files(t) -> S] :
              /\ \A f, g \in Files(t) : f # g => new[f] # new[g]
              /\ fd' = Inherited(t, c, new)
              /\ heap' = heap \cup S
              /\ pipe' = Counted(fd', c, MaxFd, pipe)
  BY <1>2
<1>3. stale' = {}
  BY <1>1 DEF Fork
<1>4. \A s \in Slots \ A : fd'[s] = fd[s]
  BY <1>21 DEF Inherited
<1>5. \A s \in A : fd[s].obj = None
  BY <1>1 DEF Departed, NoSlot
<1>6. ASSUME NEW s \in A, fd'[s].typ \in Pipes
      PROVE  \E r \in Slots : fd[r].typ \in Pipes /\ fd[r].obj = fd'[s].obj
  <2>1. s \in Slots /\ s[1] = c /\ s[2] \in Fd /\ <<t, s[2]>> \in Slots
    BY <1>1 DEF Slots
  <2> DEFINE x == <<t, s[2]>>
  <2>2. CASE s[2] \in Files(t)
    <3>1. fd'[s] = [fd[x] EXCEPT !.obj = new[s[2]], !.cap = fd[x].size]
      BY <1>21, <2>1, <2>2 DEF Inherited
    <3>2. fd[x] \in SlotType /\ fd[x].typ = "file"
      BY <1>1, <2>1, <2>2 DEF Files
    <3>3. fd'[s].typ = "file"
      BY <3>1, <3>2 DEF SlotType
    <3> QED
      BY <1>6, <3>3 DEF Pipes
  <2>3. CASE s[2] \notin Files(t)
    <3>1. fd'[s] = fd[x]
      BY <1>21, <2>1, <2>3 DEF Inherited
    <3> QED
      BY <1>6, <2>1, <3>1
  <2> QED
    BY <2>2, <2>3
<1>7. ChildSlots(c, MaxFd) = A
  BY Constants DEF ChildSlots, Slots, Fd
<1>8. A \in SUBSET Slots
  OBVIOUS
<1>9. \A o \in Obj : /\ pipe'[o].broken = pipe[o].broken /\ pipe'[o].over = pipe[o].over
                     /\ PipeSlots(fd', A, o) # {} => pipe'[o].shared
                     /\ PipeSlots(fd', A, o) = {} => pipe'[o] = pipe[o]
  <2>1. pipe \in [Obj -> PipeType]
    BY <1>1 DEF FdType
  <2> HIDE DEF A
  <2> QED
    BY <1>21, <1>7, <2>1, CountedPipes
<1> HIDE DEF A
<1>10. ASSUME NEW o \in Obj PROVE ToldOf(fd', pipe'[o], o)
  <2>1. o # None /\ ToldOf(fd, pipe[o], o)
    BY <1>1, FdAssumption
  <2>2. \A s \in Slots : \/ fd'[s].typ = fd[s].typ /\ fd'[s].obj = fd[s].obj
                         \/ fd[s].obj = None
    BY <1>4, <1>5
  <2>3. /\ pipe'[o].broken <=> pipe[o].broken
        /\ pipe'[o].over <=> pipe[o].over
        /\ pipe[o].shared => pipe'[o].shared
    BY <1>9
  <2>4. ASSUME NEW s \in Slots, fd'[s].typ \in Pipes, fd'[s].obj = o
        PROVE  \/ fd[s].typ = fd'[s].typ /\ fd[s].obj = o
               \/ pipe'[o].shared /\ \E r \in Slots : fd[r].typ \in Pipes /\ fd[r].obj = o
    <3>1. CASE s \in A
      <4>1. PipeSlots(fd', A, o) # {}
        BY <2>4, <3>1 DEF PipeSlots
      <4> QED
        BY <1>6, <1>9, <2>4, <3>1, <4>1
    <3>2. CASE s \notin A
      BY <1>4, <2>4, <3>2
    <3> QED
      BY <3>1, <3>2
  <2> QED
    BY <2>1, <2>2, <2>3, <2>4, AddTold
<1> QED
  BY <1>3, <1>10, EndsNext

LEMMA ForkFailsEnds ==
    ASSUME TableInv, Sound, EndsInv, NEW t \in alive, NEW c \in Task \ alive,
           ForkFails(t, c), TableInv'
    PROVE  EndsInv'
<1>1. FdType /\ stale = {} /\ \A o \in Obj : o # None /\ ToldOf(fd, pipe[o], o)
  BY TableFacts, EndsNow
<1>2. \E i, tab : pipe' = Uncounted(tab, c, i, Counted(tab, c, i, pipe))
  BY DEF ForkFails
<1>3. fd' = fd /\ stale' = {}
  BY <1>1 DEF ForkFails
<1>4. pipe \in [Obj -> PipeType]
  BY <1>1 DEF FdType
<1>5. \A o \in Obj : /\ pipe'[o].broken = pipe[o].broken /\ pipe'[o].over = pipe[o].over
                     /\ pipe[o].shared => pipe'[o].shared
  BY <1>2, <1>4, UncountedPipes
<1>6. ASSUME NEW o \in Obj PROVE ToldOf(fd', pipe'[o], o)
  BY <1>1, <1>3, <1>5, SameTold
<1> QED
  BY <1>3, <1>6, EndsNext

LEMMA DataEnds ==
    ASSUME TableInv, Sound, EndsInv, NEW t \in alive, DataOnly(t), TableInv'
    PROVE  EndsInv'
<1>1. stale = {} /\ \A o \in Obj : o # None /\ ToldOf(fd, pipe[o], o)
  BY TableFacts, EndsNow
<1>2. stale' = {} /\ \A s \in Slots : fd'[s].typ = fd[s].typ /\ fd'[s].obj = fd[s].obj
  BY <1>1 DEF DataOnly
<1>3. \A o \in Obj : SameFlags(pipe[o], pipe'[o])
  BY DEF DataOnly
<1>4. ASSUME NEW o \in Obj PROVE ToldOf(fd', pipe'[o], o)
  <2>1. pipe'[o].broken = pipe[o].broken /\ pipe'[o].over = pipe[o].over /\ pipe'[o].shared = pipe[o].shared
    BY <1>3 DEF SameFlags
  <2> QED
    BY <1>1, <1>2, <2>1, SameTold
<1> QED
  BY <1>2, <1>4, EndsNext

LEMMA TableCallEnds ==
    ASSUME TableInv, Sound, EndsInv, NEW t \in alive, TableCall(t), TableInv'
    PROVE  EndsInv'
<1>1. CASE Exit(t)
  BY <1>1, ExitEnds
<1>2. CASE \E f \in Fd : Close(t, f)
  BY <1>2, CloseEnds
<1>3. CASE \E d \in Devices : OpenDevice(t, d)
  <2>1. PICK d \in Devices : OpenDevice(t, d)
    BY <1>3
  <2> DEFINE x == <<t, First(FreeFds(t))>>
  <2>2. x \in Slots /\ fd[x].obj = None
    BY <2>1, FreeSlot DEF OpenDevice
  <2>3. fd' = [fd EXCEPT ![x] = Device(d)] /\ pipe' = pipe /\ stale' = stale
    BY <2>1 DEF OpenDevice
  <2>4. Device(d).typ \notin Pipes
    BY FdAssumption DEF Device, Pipes
  <2> HIDE DEF x
  <2> QED
    BY <2>2, <2>3, <2>4, OpenEnds
<1>4. CASE \E o \in Obj \ heap, n \in Sizes : OpenFile(t, o, n)
  <2>1. PICK o \in Obj \ heap, n \in Sizes : OpenFile(t, o, n)
    BY <1>4
  <2> DEFINE x == <<t, First(FreeFds(t))>>
             rec == [typ |-> "file", obj |-> o, cap |-> AtMost(n), size |-> n, pos |-> 0]
  <2>2. x \in Slots /\ fd[x].obj = None
    BY <2>1, FreeSlot DEF OpenFile
  <2>3. fd' = [fd EXCEPT ![x] = rec] /\ pipe' = pipe /\ stale' = stale
    BY <2>1 DEF OpenFile
  <2>4. rec.typ \notin Pipes
    BY DEF Pipes
  <2> HIDE DEF x, rec
  <2> QED
    BY <2>2, <2>3, <2>4, OpenEnds
<1>5. CASE \E o \in Obj \ heap, copied \in BOOLEAN : MakePipe(t, o, copied)
  BY <1>5, MakePipeEnds
<1>6. CASE \E f \in Fd : Dup(t, f)
  BY <1>6, DupEnds
<1>7. CASE \E f, g \in Fd : Dup2(t, f, g) \/ Dup2Fails(t, f, g)
  BY <1>7, Dup2Ends, Dup2FailsEnds
<1>8. CASE \E c \in Task \ alive : Fork(t, c) \/ ForkFails(t, c)
  BY <1>8, ForkEnds, ForkFailsEnds
<1> QED
  BY <1>1, <1>2, <1>3, <1>4, <1>5, <1>6, <1>7, <1>8 DEF TableCall

LEMMA LaunchEnds ==
    ASSUME TableInv, Sound, EndsInv, NEW t \in Task, Launch(t), TableInv'
    PROVE  EndsInv'
<1> DEFINE x == <<t, 0>>
<1>1. x \in Slots /\ x[1] = t
  BY Constants DEF Slots
<1>2. alive = {} /\ fd' = [fd EXCEPT ![x] = Device("fb")] /\ pipe' = pipe /\ stale' = stale
  BY DEF Launch
<1> HIDE DEF x
<1>3. fd[x].obj = None
  BY <1>1, <1>2, TableFacts DEF Departed, NoSlot
<1>4. Device("fb").typ \notin Pipes
  BY DEF Device, Pipes
<1> QED
  BY <1>1, <1>2, <1>3, <1>4, OpenEnds

(* Theorem: a pipe one of whose ends has no holder left is broken, so that   *)
(* readers see the end of the data and writers an error, unless dup2         *)
(* replaced that end; and a pipe with both ends held is broken only if an    *)
(* end was duplicated (syscall.cpp:30, 724).                                 *)
THEOREM EndsAlwaysTold == Spec => []PipeEnds
<1> DEFINE I == TableInv /\ EndsInv
<1>1. Init => I
  <2> SUFFICES ASSUME Init PROVE EndsInv
    BY TableInit
  <2>1. \A s \in Slots : Shown[s] = NoSlot
    BY DEF Init, Shown
  <2>2. \A s \in Slots : Shown[s].typ = "free"
    BY <2>1 DEF NoSlot
  <2> QED
    BY <2>2 DEF EndsInv, ToldOf, HasEnd
<1>2. I /\ [Next]_vars => I'
  <2> SUFFICES ASSUME TableInv, EndsInv, [Next]_vars PROVE EndsInv'
    BY TableStep
  <2>0. TableInv'
    BY TableStep
  <2>1. CASE UNCHANGED vars
    BY <2>1 DEF vars, EndsInv, Shown
  <2>2. CASE Next
    <3>1. Sound /\ calls' = calls + 1
      BY <2>2 DEF Next
    <3>2. CASE \E t \in Task : Launch(t)
      BY <2>0, <3>1, <3>2, LaunchEnds
    <3>3. CASE \E t \in alive : TableCall(t)
      BY <2>0, <3>1, <3>3, TableCallEnds
    <3>4. CASE \E t \in alive : DataCall(t)
      BY <2>0, <3>1, <3>4, DataStep, DataEnds
    <3> QED
      BY <2>2, <3>2, <3>3, <3>4 DEF Next
  <2> QED
    BY <2>1, <2>2
<1>3. I => PipeEnds
  <2> SUFFICES ASSUME TableInv, EndsInv, NEW o \in heap
               PROVE  LET Ends(typ) == {s \in Slots \ stale : fd[s].typ = typ /\ fd[s].obj = o}
                          gone == Ends("rpipe") = {} \/ Ends("wpipe") = {}
                      IN Ends("rpipe") \cup Ends("wpipe") # {} =>
                           /\ gone => pipe[o].broken \/ pipe[o].over
                           /\ pipe[o].broken => gone \/ pipe[o].shared
    BY DEF PipeEnds
  <2> DEFINE Ends(typ) == {s \in Slots \ stale : fd[s].typ = typ /\ fd[s].obj = o}
  <2>1. o \in Obj
    BY DEF TableInv, FdType
  <2>2. \A s \in Slots : Shown[s] = IF s \in stale THEN NoSlot ELSE fd[s]
    BY DEF Shown
  <2>3. NoSlot.typ = "free"
    BY DEF NoSlot
  <2>4. Ends("rpipe") # {} <=> HasEnd(Shown, "rpipe", o)
    BY <2>2, <2>3 DEF HasEnd
  <2>5. Ends("wpipe") # {} <=> HasEnd(Shown, "wpipe", o)
    BY <2>2, <2>3 DEF HasEnd
  <2>6. ToldOf(Shown, pipe[o], o)
    BY <2>1 DEF EndsInv
  <2> QED
    BY <2>4, <2>5, <2>6 DEF ToldOf, Gone
<1> QED
  BY <1>1, <1>2, <1>3, PTL DEF Spec

============================================================================
