---------------------------- MODULE StoreProofs ----------------------------
(***************************************************************************)
(* Proofs about what the kernel keeps contents in.  First the block cache  *)
(* in front of the disk, for every disk size, every number of entries and  *)
(* every length of call.  Then the kernel heap, the RAM disk on it and the *)
(* mount table, for every size of the heap, number of file slots, set of   *)
(* paths and mix of requests; the heap's facts are stated about a function *)
(* of headers h, so that kfree, which swallows up to two neighbours one    *)
(* after the other, is two applications of one lemma (SwallowTiles).       *)
(***************************************************************************)
EXTENDS BlockCache, Vfs, SequenceTheorems, WellFoundedInduction, TLAPS

-----------------------------------------------------------------------------
(* The block cache                                                         *)

(* The victim of bc_evict is a slot of the cache.                          *)
LEMMA VictimType ==
  ASSUME TypeOK
  PROVE  Victim \in Slots
BY CacheAssumption DEF TypeOK, Victim, Slots

(* Every set of slots that is not empty has a first element, so bc_lookup  *)
(* finds a slot that holds the sector.                                     *)
LEMMA HitIsSlot ==
  ASSUME NEW l, OneSlotPerSector, l # NoLba, Hits(l) # {}
  PROVE  FirstHit(l) \in Slots /\ lba[FirstHit(l)] = l
<1>1. PICK i \in Hits(l) : TRUE
  OBVIOUS
<1>2. i \in Slots /\ lba[i] = l /\ Slots \subseteq Int
  BY CacheAssumption DEF Hits, Slots
<1>3. \A j \in Hits(l) : j = i
  BY <1>2 DEF Hits, OneSlotPerSector
<1>4. \A j \in Hits(l) : i <= j
  BY <1>2, <1>3
<1>5. FirstHit(l) \in Hits(l)
  BY <1>1, <1>4 DEF FirstHit
<1>6. QED
  BY <1>5 DEF Hits

LEMMA SlotType ==
  ASSUME TypeOK, OneSlotPerSector, NEW l \in Lba
  PROVE  /\ SlotFor(l) \in Slots
         /\ \A j \in Slots : lba[j] = l => j = SlotFor(l)
<1>1. l # NoLba
  BY DEF Lba, NoLba
<1>2. CASE Hits(l) = {}
  BY <1>2, VictimType DEF SlotFor, Hits
<1>3. CASE Hits(l) # {}
  BY <1>1, <1>3, HitIsSlot DEF SlotFor, OneSlotPerSector
<1>4. QED
  BY <1>2, <1>3

(* A call stays on the disk: the loop of bc_read and bc_write never leaves *)
(* the sectors it was called for.                                          *)
LEMMA AdvanceType ==
  ASSUME TypeOK, job # NoJob
  PROVE  /\ job.next \in Lba
         /\ Advance = NoJob
            \/ /\ Advance \in [op : {"read", "write"}, next : Lba, left : 1..MaxCount]
               /\ Advance.next + Advance.left - 1 <= MaxLba
<1>1. /\ job \in [op : {"read", "write"}, next : Lba, left : 1..MaxCount]
      /\ job.next + job.left - 1 <= MaxLba
  BY DEF TypeOK
<1>2. CASE job.left = 1
  BY <1>1, <1>2 DEF Advance
<1>3. CASE job.left # 1
  <2>1. Advance = [job EXCEPT !.next = job.next + 1, !.left = job.left - 1]
    BY <1>3 DEF Advance
  <2>2. job.next + 1 \in Lba /\ job.left - 1 \in 1..MaxCount
    BY <1>1, <1>3, CacheAssumption DEF Lba
  <2>3. Advance \in [op : {"read", "write"}, next : Lba, left : 1..MaxCount]
    BY <1>1, <2>1, <2>2
  <2>4. Advance.next = job.next + 1 /\ Advance.left = job.left - 1
    BY <1>1, <2>1
  <2>5. QED
    BY <1>1, <2>3, <2>4, CacheAssumption DEF Lba
<1>4. QED
  BY <1>1, <1>2, <1>3

-----------------------------------------------------------------------------
(* One slot per sector, whatever fails and whoever writes                  *)

SlotInv == TypeOK /\ OneSlotPerSector

LEMMA SlotInit == Init => SlotInv
<1> SUFFICES ASSUME Init
             PROVE  SlotInv
  OBVIOUS
<1>1. 0 \in Slots
  BY CacheAssumption DEF Slots
<1>2. TypeOK
  BY <1>1 DEF Init, TypeOK
<1>3. OneSlotPerSector
  BY DEF Init, OneSlotPerSector
<1>4. QED
  BY <1>2, <1>3 DEF SlotInv

LEMMA SlotNext == SlotInv /\ [Next]_vars => SlotInv'
<1> SUFFICES ASSUME SlotInv, [Next]_vars
             PROVE  SlotInv'
  OBVIOUS
<1> USE DEF SlotInv
<1> USE CacheAssumption
<1>1. CASE BcInit
  BY <1>1 DEF BcInit, TypeOK, OneSlotPerSector
<1>2. ASSUME NEW op \in {"read", "write"}, NEW l \in Lba, NEW n \in 1..MaxCount,
             Call(op, l, n)
      PROVE  SlotInv'
  BY <1>2 DEF Call, TypeOK, OneSlotPerSector
<1>3. CASE ReadHit
  <2>1. job # NoJob
    BY <1>3 DEF ReadHit, NoJob
  <2>2. QED
    BY <1>3, <2>1, AdvanceType DEF ReadHit, TypeOK, OneSlotPerSector
<1>4. CASE ReadMiss
  <2>1. job # NoJob
    BY <1>4 DEF ReadMiss, NoJob
  <2>2. PICK ok \in BOOLEAN :
           /\ Fill(Victim, job.next, ok)
           /\ suspect' = IF ok THEN suspect \ {lba[Victim]} ELSE suspect
           /\ job' = IF ok THEN Advance ELSE NoJob
    BY <1>4 DEF ReadMiss
  <2>3. job.next \in Lba /\ Victim \in Slots
    BY <2>1, AdvanceType, VictimType
  <2>4. TypeOK'
    <3>1. lba' \in [Slots -> Lba \cup {NoLba}] /\ data' \in [Slots -> Val]
      BY <2>2, <2>3 DEF Fill, TypeOK
    <3>2. hand' \in Slots /\ UNCHANGED <<disk, ready>> /\ suspect' \subseteq Lba
      BY <1>4, <2>2, <2>3 DEF ReadMiss, TypeOK
    <3>3. QED
      BY <2>1, <2>2, <3>1, <3>2, AdvanceType DEF TypeOK
  <2>5. \A j \in Slots : lba[j] # job.next
    BY <1>4 DEF ReadMiss, Hits
  <2>6. OneSlotPerSector'
    BY <2>2, <2>3, <2>5 DEF Fill, TypeOK, OneSlotPerSector
  <2>7. QED
    BY <2>4, <2>6
<1>5. CASE WriteSector
  <2>1. job # NoJob
    BY <1>5 DEF WriteSector, NoJob
  <2>2. job.next \in Lba /\ Victim \in Slots /\ SlotFor(job.next) \in Slots
    BY <2>1, AdvanceType, VictimType, SlotType
  <2>3. PICK v \in Val, ok \in BOOLEAN :
           /\ disk' = [disk EXCEPT ![job.next] = v] \/ disk' = disk
           /\ suspect' = (suspect \ {lba[SlotFor(job.next)]}) \cup (IF ok THEN {} ELSE {job.next})
           /\ lba' = [lba EXCEPT ![SlotFor(job.next)] = job.next]
           /\ data' = [data EXCEPT ![SlotFor(job.next)] = v]
    BY <1>5 DEF WriteSector
  <2>4. TypeOK'
    <3>1. lba' \in [Slots -> Lba \cup {NoLba}] /\ data' \in [Slots -> Val]
      BY <2>2, <2>3 DEF TypeOK
    <3>2. disk' \in [Lba -> Val]
      BY <2>2, <2>3 DEF TypeOK
    <3>3. hand' \in Slots /\ ready' = ready /\ job' = Advance /\ suspect' \subseteq Lba
      BY <1>5, <2>2, <2>3 DEF WriteSector, TypeOK
    <3>4. QED
      BY <2>1, <3>1, <3>2, <3>3, AdvanceType DEF TypeOK
  <2>5. \A j \in Slots : lba[j] = job.next => j = SlotFor(job.next)
    BY <2>2, SlotType
  <2>6. OneSlotPerSector'
    BY <2>2, <2>3, <2>5 DEF TypeOK, OneSlotPerSector
  <2>7. QED
    BY <2>4, <2>6
<1>6. CASE RawFail
  BY <1>6 DEF RawFail, TypeOK, OneSlotPerSector
<1>7. ASSUME NEW l \in Lba, RawRead(l)
      PROVE  SlotInv'
  BY <1>7 DEF RawRead, TypeOK, OneSlotPerSector
<1>8. ASSUME NEW l \in Lba, NEW v \in Val, RawWrite(l, v)
      PROVE  SlotInv'
  <2>1. lba' = [i \in Slots |-> IF lba[i] = l THEN NoLba ELSE lba[i]]
    BY <1>8 DEF RawWrite, Invalidated
  <2>2. OneSlotPerSector'
    BY <2>1 DEF OneSlotPerSector
  <2>3. QED
    BY <1>8, <2>1, <2>2 DEF RawWrite, TypeOK
<1>9. ASSUME NEW l \in Lba, NEW v \in Val, ShellWrite(l, v)
      PROVE  SlotInv'
  BY <1>9 DEF ShellWrite, TypeOK, OneSlotPerSector
<1>10. CASE UNCHANGED vars
  BY <1>10 DEF vars, TypeOK, OneSlotPerSector
<1>11. QED
  BY <1>1, <1>2, <1>3, <1>4, <1>5, <1>6, <1>7, <1>8, <1>9, <1>10 DEF Next

(* Every field of the cache keeps its range and a call never leaves the    *)
(* sectors it was called for, for any size of disk and cache.              *)
THEOREM CacheTypes == Spec => []TypeOK
<1>1. SlotInv => TypeOK
  BY DEF SlotInv
<1>2. QED
  BY <1>1, SlotInit, SlotNext, PTL DEF Spec

(* No sector is in two slots of the cache, whatever the disk fails and     *)
(* whoever writes around the cache: bc_lookup before every bc_evict is     *)
(* enough, for any number of entries.                                      *)
THEOREM CacheOneSlot == Spec => []OneSlotPerSector
<1>1. SlotInv => OneSlotPerSector
  BY DEF SlotInv
<1>2. QED
  BY <1>1, SlotInit, SlotNext, PTL DEF Spec

-----------------------------------------------------------------------------
(* Coherence, up to the sectors whose write went wrong                     *)

CacheInv == SlotInv /\ Coherent

LEMMA CacheNext == CacheInv /\ [Next]_vars => CacheInv'
<1> SUFFICES ASSUME CacheInv, [Next]_vars
             PROVE  CacheInv'
  OBVIOUS
<1>1. SlotInv /\ SlotInv' /\ TypeOK /\ OneSlotPerSector
  BY SlotNext DEF CacheInv, SlotInv
<1> SUFFICES Coherent'
  BY <1>1 DEF CacheInv
<1>2. CASE BcInit
  BY <1>2 DEF BcInit, Coherent
<1>3. CASE ReadMiss
  <2>1. job # NoJob
    BY <1>3 DEF ReadMiss, NoJob
  <2>2. PICK ok \in BOOLEAN :
           /\ Fill(Victim, job.next, ok)
           /\ suspect' = IF ok THEN suspect \ {lba[Victim]} ELSE suspect
    BY <1>3 DEF ReadMiss
  <2>3. job.next \in Lba /\ Victim \in Slots /\ disk' = disk
    BY <1>1, <1>3, <2>1, AdvanceType, VictimType DEF ReadMiss
  <2>4. CASE ~ok
    BY <2>2, <2>3, <2>4 DEF CacheInv, Coherent, Fill
  <2>5. CASE ok
    <3>1. ASSUME NEW i \in Slots, lba'[i] # NoLba, lba'[i] \notin suspect'
          PROVE  data'[i] = disk'[lba'[i]]
      <4>1. CASE i = Victim
        BY <1>1, <2>2, <2>3, <2>5, <4>1 DEF Fill, TypeOK
      <4>2. CASE i # Victim
        <5>1. lba'[i] = lba[i] /\ data'[i] = data[i]
          BY <1>1, <2>2, <2>3, <2>5, <4>2 DEF Fill, TypeOK
        <5>2. lba[i] # lba[Victim]
          BY <1>1, <2>3, <3>1, <4>2, <5>1 DEF OneSlotPerSector
        <5>3. lba[i] \notin suspect
          BY <2>2, <2>5, <3>1, <5>1, <5>2
        <5>4. QED
          BY <2>3, <3>1, <5>1, <5>3 DEF CacheInv, Coherent
      <4>3. QED
        BY <4>1, <4>2
    <3>2. QED
      BY <3>1 DEF Coherent
  <2>6. QED
    BY <2>4, <2>5
<1>4. CASE WriteSector
  <2> DEFINE s == SlotFor(job.next)
  <2>1. job # NoJob
    BY <1>4 DEF WriteSector, NoJob
  <2>2. job.next \in Lba /\ s \in Slots
    BY <1>1, <2>1, AdvanceType, SlotType
  <2>3. PICK v \in Val, ok \in BOOLEAN :
           /\ disk' = IF ok THEN [disk EXCEPT ![job.next] = v] ELSE disk
           /\ suspect' = (suspect \ {lba[s]}) \cup (IF ok THEN {} ELSE {job.next})
           /\ lba' = [lba EXCEPT ![s] = job.next]
           /\ data' = [data EXCEPT ![s] = v]
    BY <1>4 DEF WriteSector
  <2>4. \A j \in Slots : lba[j] = job.next => j = s
    BY <1>1, <2>2, SlotType
  <2> HIDE DEF s
  <2>5. ASSUME NEW i \in Slots, lba'[i] # NoLba, lba'[i] \notin suspect'
        PROVE  data'[i] = disk'[lba'[i]]
    <3>1. CASE i = s
      <4>1. lba'[i] = job.next /\ data'[i] = v
        BY <1>1, <2>2, <2>3, <3>1 DEF TypeOK
      <4>2. ok
        BY <2>3, <2>5, <4>1
      <4>3. QED
        BY <1>1, <2>2, <2>3, <4>1, <4>2 DEF TypeOK
    <3>2. CASE i # s
      <4>1. lba'[i] = lba[i] /\ data'[i] = data[i] /\ lba[i] \in Lba
        BY <1>1, <2>2, <2>3, <2>5, <3>2 DEF TypeOK
      <4>2. lba[i] # job.next
        BY <2>4, <3>2
      <4>3. disk'[lba[i]] = disk[lba[i]]
        BY <1>1, <2>3, <4>1, <4>2 DEF TypeOK
      <4>4. lba[i] # lba[s]
        BY <1>1, <2>2, <2>5, <3>2, <4>1 DEF OneSlotPerSector
      <4>5. lba[i] \notin suspect
        BY <2>3, <2>5, <4>1, <4>4
      <4>6. QED
        BY <2>5, <4>1, <4>3, <4>5 DEF CacheInv, Coherent
    <3>3. QED
      BY <3>1, <3>2
  <2>6. QED
    BY <2>5 DEF Coherent
<1>5. ASSUME NEW l \in Lba, NEW v \in Val, RawWrite(l, v)
      PROVE  Coherent'
  <2>1. /\ disk' = [disk EXCEPT ![l] = v] /\ data' = data /\ suspect' = suspect \ {l}
        /\ lba' = [i \in Slots |-> IF lba[i] = l THEN NoLba ELSE lba[i]]
    BY <1>5 DEF RawWrite, Invalidated
  <2>2. QED
    BY <1>1, <2>1 DEF CacheInv, Coherent, TypeOK
<1>6. ASSUME NEW l \in Lba, NEW v \in Val, ShellWrite(l, v)
      PROVE  Coherent'
  <2>1. /\ disk' = [disk EXCEPT ![l] = v] /\ UNCHANGED <<lba, data>>
        /\ suspect \subseteq suspect'
        /\ l \in suspect' \/ \A i \in Slots : lba[i] # l
    BY <1>6 DEF ShellWrite, Hits
  <2>2. QED
    BY <1>1, <2>1 DEF CacheInv, Coherent, TypeOK
<1>7. CASE UNCHANGED <<disk, lba, data, suspect>>
  BY <1>7 DEF CacheInv, Coherent
<1>8. QED
  BY <1>2, <1>3, <1>4, <1>5, <1>6, <1>7
     DEF Next, vars, Call, ReadHit, RawFail, RawRead

LEMMA CacheInit == Init => CacheInv
BY SlotInit DEF Init, CacheInv, Coherent

(* Every cached sector is the sector on the disk, for any number of        *)
(* entries, whatever transfer fails and whoever writes around the cache;   *)
(* the sectors excepted are those whose write the disk or the cache        *)
(* missed, as long as they stay cached.                                    *)
THEOREM CacheCoherent == Spec => []Coherent
<1>1. CacheInv => Coherent
  BY DEF CacheInv
<1>2. QED
  BY <1>1, CacheNext, CacheInit, PTL DEF Spec

-----------------------------------------------------------------------------
(* Every step of the cache is a step of the plain disk, or changes neither *)
(* a sector nor an answer.                                                 *)
LEMMA StepRefines ==
  ASSUME CacheInv, [Next]_vars
  PROVE  [Store!Next]_<<disk, reply, suspect>>
<1>1. TypeOK /\ OneSlotPerSector /\ Coherent
  BY DEF CacheInv, SlotInv
<1>2. Lba = Store!Lba
  BY DEF Lba, Store!Lba
<1>3. CASE ReadHit
  <2>1. job # NoJob
    BY <1>3 DEF ReadHit, NoJob
  <2>2. job.next \in Lba /\ job.next # NoLba
    BY <1>1, <2>1, AdvanceType DEF Lba, NoLba
  <2> DEFINE v == data[FirstHit(job.next)]
  <2>3. FirstHit(job.next) \in Slots /\ lba[FirstHit(job.next)] = job.next
    BY <1>1, <1>3, <2>2, HitIsSlot DEF ReadHit
  <2>4. v \in Val /\ (job.next \notin suspect => v = disk[job.next])
    BY <1>1, <2>2, <2>3 DEF TypeOK, Coherent
  <2>5. Store!Read(job.next)
    BY <1>3, <2>4 DEF ReadHit, Store!Read
  <2>6. QED
    BY <1>2, <2>2, <2>5 DEF Store!Next
<1>4. CASE ReadMiss
  <2>1. job # NoJob
    BY <1>4 DEF ReadMiss, NoJob
  <2>2. job.next \in Lba /\ disk[job.next] \in Val
    BY <1>1, <2>1, AdvanceType DEF TypeOK
  <2>3. Store!Read(job.next) \/ Store!Fail
    BY <1>4, <2>2 DEF ReadMiss, Store!Read, Store!Fail
  <2>4. QED
    BY <1>2, <2>2, <2>3 DEF Store!Next
<1>5. CASE WriteSector
  <2>1. job # NoJob
    BY <1>5 DEF WriteSector, NoJob
  <2>2. job.next \in Lba /\ SlotFor(job.next) \in Slots
    BY <1>1, <2>1, AdvanceType, SlotType
  <2>3. PICK v \in Val, ok \in BOOLEAN :
           /\ disk' = IF ok THEN [disk EXCEPT ![job.next] = v] ELSE disk
           /\ suspect' = (suspect \ {lba[SlotFor(job.next)]}) \cup (IF ok THEN {} ELSE {job.next})
           /\ reply' = <<"written", job.next>>
           /\ lba' = [lba EXCEPT ![SlotFor(job.next)] = job.next]
    BY <1>5 DEF WriteSector
  <2>4. CASE ~ok
    BY <1>2, <2>2, <2>3, <2>4 DEF Store!BadWrite, Store!Next
  <2>5. CASE ok /\ job.next \notin suspect'
    <3>1. suspect' \subseteq suspect \ {job.next}
      BY <2>3, <2>5
    <3>2. Store!Write(job.next, v)
      BY <2>3, <2>5, <3>1 DEF Store!Write
    <3>3. QED
      BY <1>2, <2>2, <3>2 DEF Store!Next
  <2>6. CASE ok /\ job.next \in suspect'
    BY <1>2, <2>2, <2>3, <2>6 DEF Store!BadWrite, Store!Next
  <2>7. QED
    BY <2>4, <2>5, <2>6
<1>6. CASE RawFail
  BY <1>6 DEF RawFail, Store!Fail, Store!Next
<1>7. ASSUME NEW l \in Lba, RawRead(l)
      PROVE  Store!Next
  <2>1. disk[l] \in Val
    BY <1>1 DEF TypeOK
  <2>2. Store!Read(l)
    BY <1>7, <2>1 DEF RawRead, Store!Read
  <2>3. QED
    BY <1>2, <2>2 DEF Store!Next
<1>8. ASSUME NEW l \in Lba, NEW v \in Val, RawWrite(l, v)
      PROVE  Store!Next
  BY <1>2, <1>8 DEF RawWrite, Store!Write, Store!Next
<1>9. ASSUME NEW l \in Lba, NEW v \in Val, ShellWrite(l, v)
      PROVE  Store!Next
  BY <1>2, <1>9 DEF ShellWrite, Store!Write, Store!BadWrite, Store!Next
<1>10. CASE BcInit
  BY <1>10 DEF BcInit, Store!Settle, Store!Next
<1>11. CASE UNCHANGED <<disk, reply, suspect>>
  BY <1>11
<1>12. QED
  BY <1>3, <1>4, <1>5, <1>6, <1>7, <1>8, <1>9, <1>10, <1>11
     DEF Next, vars, Call

(* The cache is transparent, as bcache.h says: to the file systems and the *)
(* raw system calls together it is a plain disk, sector by sector, for     *)
(* every size of disk and cache, up to writes the disk loses silently.     *)
THEOREM CacheTransparent == Spec => Transparent
<1>1. Init => Store!Init
  BY DEF Init, Store!Init, Lba, Store!Lba
<1>2. CacheInv /\ [Next]_vars => [Store!Next]_<<disk, reply, suspect>>
  BY StepRefines
<1>3. QED
  BY <1>1, <1>2, CacheNext, CacheInit, PTL DEF Spec, Transparent, Store!Spec

-----------------------------------------------------------------------------
(* The heap, the RAM disk and the mount table                              *)

Header == [size : Nat \ {0}, next : Nat \cup {Null}, prev : Nat \cup {Null}, used : BOOLEAN]

(* The list of headers: next and prev are inverse, next is where the block   *)
(* ends, the last block ends where the heap does, and blocks are disjoint.   *)
Tiles(h) ==
    /\ h \in [DOMAIN h -> Header] /\ DOMAIN h \subseteq Nat
    /\ Base \in DOMAIN h /\ h[Base].prev = Null
    /\ \A a \in DOMAIN h :
         /\ h[a].next = Null => a + h[a].size = HeapSize
         /\ h[a].next # Null => /\ h[a].next \in DOMAIN h /\ h[a].next = a + h[a].size
                                /\ h[h[a].next].prev = a
         /\ h[a].prev # Null => h[a].prev \in DOMAIN h /\ h[h[a].prev].next = a
    /\ \A a, b \in DOMAIN h : a < b => a + h[a].size <= b

(* No two free blocks side by side, but for pairs that x begins or that end  *)
(* in y.                                                                     *)
Merged(h, X, Y) ==
    \A a \in DOMAIN h : h[a].next # Null /\ a \notin X /\ h[a].next \notin Y =>
        h[a].used \/ h[h[a].next].used

UsedOf(h) == {a \in DOMAIN h : h[a].used}

HeapInv == Tiles(hdr) /\ Merged(hdr, {}, {})

(* The characters that occur in paths and mount points.                      *)
Char == {"/", "e", "t"} \cup UNION {{p[i] : i \in DOMAIN p} : p \in Paths}

(* The RAM disk.                                                             *)
FileType == [name : Seq(Char), data : Nat \cup {Null}, text : Data \cup {Empty}, used : BOOLEAN]

(* A name that was not cut is in one slot at most, with the contents stored  *)
(* last; when it is in none it was removed.                                  *)
NamesInv ==
    /\ \A i, j \in Slot : files[i].used /\ files[j].used /\ files[i].name = files[j].name
                          /\ files[i].name \notin Cut => i = j
    /\ \A i \in Slot : files[i].used /\ files[i].name \notin Cut =>
            files[i].name \in DOMAIN written /\ written[files[i].name] = files[i].text
    /\ \A n \in DOMAIN written : Len(n) <= NameMax /\ n \notin Cut /\ Found(n) = {} =>
            written[n] = Null
    /\ \A i \in Slot : Len(files[i].name) <= NameMax
    /\ \A i \in Slot : files[i].used /\ files[i].data = Null => files[i].text = Empty

DiskType ==
    /\ files \in [Slot -> FileType]
    /\ DOMAIN written \subseteq Seq(Char) /\ written = [n \in DOMAIN written |-> written[n]]
    /\ held \subseteq Nat

StorageInv == HeapInv /\ DiskType /\ BlocksOwned

(* The mount table: three mount points in the order of kernel_main.          *)
Points == {[at |-> Root, fs |-> "fat"], [at |-> Ext, fs |-> "ext2"], [at |-> Tmp, fs |-> "ramdisk"]}
MountInv ==
    /\ mounts \in Seq(Points) /\ booting \in Seq(Points)
    /\ \/ mounts = <<>> /\ booting # <<>> /\ booting[1].at = Root
       \/ mounts # <<>> /\ mounts[1].at = Root

---------------------------------------------------------------------------
(* The lowest element of a set of addresses, slots or positions.             *)

LEMMA LowestIn ==
    ASSUME NEW S \in SUBSET Nat, S # {}
    PROVE  LowestOf(S) \in S /\ \A y \in S : LowestOf(S) <= y
<1> DEFINE R == OpToRel(<, Nat)
<1>1. PICK m \in S : \A u \in S : ~(<<u, m>> \in R)
  <2>1. IsWellFoundedOn(R, Nat)
    BY NatLessThanWellFounded, Zenon
  <2> HIDE DEF R
  <2> QED
    BY <2>1, WFMin
<1>2. \A u \in S : ~(u < m)
  BY <1>1 DEF OpToRel
<1>3. \E x \in S : \A y \in S : x <= y
  BY <1>2
<1> QED
  BY <1>3 DEF LowestOf

---------------------------------------------------------------------------
(* The heap.                                                                 *)

LEMMA HeaderFacts ==
    ASSUME NEW h, Tiles(h), NEW a \in DOMAIN h
    PROVE  /\ h[a] \in Header /\ a \in Nat /\ h[a].size \in Nat /\ h[a].size > 0
           /\ h[a].next \in Nat \cup {Null} /\ h[a].prev \in Nat \cup {Null} /\ h[a].used \in BOOLEAN
           /\ h[a].next # Null => h[a].next \in DOMAIN h /\ h[a].next > a
           /\ h[a].prev # Null => h[a].prev \in DOMAIN h /\ h[a].prev < a
<1>1. h[a] \in Header /\ a \in Nat
  BY DEF Tiles
<1>2. /\ h[a].size \in Nat /\ h[a].size > 0
      /\ h[a].next \in Nat \cup {Null} /\ h[a].prev \in Nat \cup {Null} /\ h[a].used \in BOOLEAN
  BY <1>1 DEF Header
<1>3. h[a].next # Null => h[a].next \in DOMAIN h /\ h[a].next > a
  BY <1>1, <1>2 DEF Tiles
<1>4. ASSUME h[a].prev # Null PROVE h[a].prev \in DOMAIN h /\ h[a].prev < a
  <2> DEFINE p == h[a].prev
  <2>1. p \in DOMAIN h /\ h[p].next = a
    BY <1>4 DEF Tiles
  <2>2. h[p] \in Header /\ p \in Nat
    BY <2>1 DEF Tiles
  <2>3. h[p].size \in Nat /\ h[p].size > 0
    BY <2>2 DEF Header
  <2>4. a # Null
    BY <1>1 DEF Null
  <2>5. a = p + h[p].size
    BY <2>1, <2>4 DEF Tiles
  <2> HIDE DEF p
  <2>6. p < a
    BY <1>1, <2>2, <2>3, <2>5
  <2> QED
    BY <2>1, <2>6 DEF p
<1> QED
  BY <1>1, <1>2, <1>3, <1>4

(* What setting one field of a header leaves.                                *)
LEMMA HeaderField ==
    ASSUME NEW r \in Header, NEW v
    PROVE  /\ v \in Nat \ {0} => [r EXCEPT !.size = v] \in Header
           /\ v \in Nat \cup {Null} => [r EXCEPT !.next = v] \in Header
           /\ v \in Nat \cup {Null} => [r EXCEPT !.prev = v] \in Header
           /\ v \in BOOLEAN => [r EXCEPT !.used = v] \in Header
  BY DEF Header

LEMMA GivenOut ==
    ASSUME NEW r \in Header, NEW m \in Nat \ {0}, NEW k \in Nat
    PROVE  LET q == [r EXCEPT !.size = m, !.next = k, !.used = TRUE] IN
           /\ q \in Header /\ q.size = m /\ q.next = k /\ q.prev = r.prev /\ q.used = TRUE
<1> DEFINE q == [r EXCEPT !.size = m, !.next = k, !.used = TRUE]
<1>1. q.size = m /\ q.next = k /\ q.prev = r.prev /\ q.used = TRUE
  BY DEF Header
<1>2. [r EXCEPT !.size = m] \in Header
  BY HeaderField
<1>3. [[r EXCEPT !.size = m] EXCEPT !.next = k] \in Header
  BY <1>2, HeaderField
<1>4. [[[r EXCEPT !.size = m] EXCEPT !.next = k] EXCEPT !.used = TRUE] \in Header
  BY <1>3, HeaderField
<1>5. q = [[[r EXCEPT !.size = m] EXCEPT !.next = k] EXCEPT !.used = TRUE]
  BY DEF Header
<1> QED
  BY <1>1, <1>4, <1>5

(* Changing used alone keeps the list.                                       *)
LEMMA MarkTiles ==
    ASSUME NEW h, Tiles(h), NEW a \in DOMAIN h, NEW v \in BOOLEAN
    PROVE  LET g == [h EXCEPT ![a].used = v] IN
           /\ Tiles(g) /\ DOMAIN g = DOMAIN h
           /\ \A x \in DOMAIN h : /\ g[x].used = IF x = a THEN v ELSE h[x].used
                                  /\ g[x].next = h[x].next /\ g[x].prev = h[x].prev
<1> DEFINE r == [h[a] EXCEPT !.used = v]
           g == [h EXCEPT ![a].used = v]
<1>1. h[a] \in Header /\ h \in [DOMAIN h -> Header]
  BY DEF Tiles
<1>2. /\ r \in Header /\ r.size = h[a].size /\ r.next = h[a].next /\ r.prev = h[a].prev
      /\ r.used = v
  BY <1>1 DEF Header
<1>3. g = [h EXCEPT ![a] = r]
  OBVIOUS
<1> HIDE DEF r, g
<1>4. g \in [DOMAIN h -> Header] /\ DOMAIN g = DOMAIN h
  BY <1>1, <1>2, <1>3
<1>5. g[a] = r /\ \A x \in DOMAIN h : x # a => g[x] = h[x]
  BY <1>1, <1>3
<1>6. \A x \in DOMAIN h : /\ g[x].size = h[x].size /\ g[x].next = h[x].next /\ g[x].prev = h[x].prev
                          /\ g[x].used = IF x = a THEN v ELSE h[x].used
  BY <1>2, <1>5
<1>7. Tiles(g)
  BY <1>4, <1>6 DEF Tiles
<1> QED
  BY <1>4, <1>6, <1>7 DEF g

(* Swallow: block a takes the block after it in.                             *)
LEMMA SwallowTiles ==
    ASSUME NEW h, Tiles(h), NEW a \in DOMAIN h, h[a].next # Null
    PROVE  LET b == h[a].next
               g == Swallow(h, a) IN
           /\ Tiles(g) /\ DOMAIN g = DOMAIN h \ {b} /\ a \in DOMAIN g
           /\ \A x \in DOMAIN g : /\ g[x].used = h[x].used
                                  /\ g[x].next = IF x = a THEN h[b].next ELSE h[x].next
                                  /\ x = a => g[x].prev = h[x].prev
<1> DEFINE b == h[a].next
           c == h[b].next
           ra == [h[a] EXCEPT !.size = h[a].size + h[b].size, !.next = c]
           D == DOMAIN h \ {b}
           g1 == [x \in D |-> IF x = a THEN ra ELSE h[x]]
           g == Swallow(h, a)
<1>1. /\ a \in Nat /\ b \in DOMAIN h /\ b \in Nat /\ b > a /\ b = a + h[a].size /\ h[b].prev = a
      /\ h[a].size \in Nat /\ h[a].size > 0 /\ h[b].size \in Nat /\ h[b].size > 0
      /\ h \in [DOMAIN h -> Header] /\ h[a] \in Header /\ h[b] \in Header
      /\ DOMAIN h \subseteq Nat /\ Base \in DOMAIN h /\ h[Base].prev = Null
  BY HeaderFacts DEF Tiles
<1>2. /\ c \in Nat \cup {Null}
      /\ c # Null => c \in DOMAIN h /\ c > b /\ c = b + h[b].size /\ h[c].prev = b
      /\ c = Null => b + h[b].size = HeapSize
  BY <1>1, HeaderFacts DEF Tiles
<1>3. a \in D /\ a # b /\ (c # Null => c \in D /\ c # a /\ c # b)
  BY <1>1, <1>2
<1>4. /\ ra \in Header /\ ra.size = h[a].size + h[b].size /\ ra.next = c
      /\ ra.prev = h[a].prev /\ ra.used = h[a].used
  <2>1. h[a].size + h[b].size \in Nat \ {0}
    BY <1>1
  <2> QED
    BY <1>1, <1>2, <2>1 DEF Header
<1>5. g = Relinked(g1, c, a)
  <2>1. [h EXCEPT ![a].size = @ + h[b].size, ![a].next = h[b].next] = [h EXCEPT ![a] = ra]
    BY <1>1
  <2>2. Without([h EXCEPT ![a] = ra], b) = g1
    BY <1>1, <1>3 DEF Without
  <2> QED
    BY <2>1, <2>2 DEF Swallow
<1>6. g1 \in [D -> Header] /\ g1[a] = ra /\ \A x \in D : x # a => g1[x] = h[x]
  BY <1>1, <1>3, <1>4
<1> HIDE DEF g1, g, ra
<1> DEFINE rc == [h[c] EXCEPT !.prev = a]
<1>7. c # Null => /\ rc \in Header /\ rc.size = h[c].size /\ rc.next = h[c].next /\ rc.prev = a
                  /\ rc.used = h[c].used
  BY <1>1, <1>2 DEF Header
<1>8. c # Null => g = [g1 EXCEPT ![c] = rc]
  BY <1>3, <1>5, <1>6 DEF Relinked
<1>9. c = Null => g = g1
  BY <1>5 DEF Relinked
<1> HIDE DEF rc
<1>10. g \in [D -> Header] /\ DOMAIN g = D
  BY <1>3, <1>6, <1>7, <1>8, <1>9
<1>11. g[a] = ra /\ (c # Null => g[c] = rc) /\ \A x \in D : x # a /\ x # c => g[x] = h[x]
  BY <1>3, <1>6, <1>8, <1>9
<1>12. \A x \in D : /\ g[x].used = h[x].used
                    /\ g[x].next = IF x = a THEN c ELSE h[x].next
                    /\ g[x].size = IF x = a THEN h[a].size + h[b].size ELSE h[x].size
                    /\ g[x].prev = IF x = c THEN a ELSE h[x].prev
  <2> TAKE x \in D
  <2>0. x # Null /\ a # c
    BY <1>1, <1>3 DEF Null
  <2>1. CASE x = a
    BY <1>4, <1>11, <2>0, <2>1
  <2>2. CASE x # a /\ x = c
    BY <1>7, <1>11, <2>0, <2>2
  <2>3. CASE x # a /\ x # c
    BY <1>11, <2>3
  <2> QED
    BY <2>1, <2>2, <2>3
<1>121. a # c
  BY <1>1, <1>3 DEF Null
<1>13. \A x \in D : h[x].next = b => x = a
  BY <1>1 DEF Tiles, Null
<1>14. \A x \in D : h[x].prev = b => x = c
  BY <1>1 DEF Tiles, Null
<1>15. Base \in D /\ g[Base].prev = Null
  <2>1. Base # b /\ Base # c
    BY <1>1, <1>2 DEF Base, Null
  <2> QED
    BY <1>1, <1>12, <2>1
<1>16. ASSUME NEW x \in D
       PROVE  /\ g[x].next = Null => x + g[x].size = HeapSize
              /\ g[x].next # Null => /\ g[x].next \in D /\ g[x].next = x + g[x].size
                                     /\ g[g[x].next].prev = x
              /\ g[x].prev # Null => g[x].prev \in D /\ g[g[x].prev].next = x
  <2>1. CASE x = a
    <3>1. g[x].next = c /\ g[x].size = h[a].size + h[b].size /\ g[x].prev = h[a].prev
      BY <1>3, <1>12, <1>121, <2>1
    <3>2. c = Null => a + (h[a].size + h[b].size) = HeapSize
      BY <1>1, <1>2
    <3>3. c # Null => c \in D /\ c = a + (h[a].size + h[b].size) /\ g[c].prev = a
      BY <1>1, <1>2, <1>3, <1>12
    <3>4. ASSUME h[a].prev # Null PROVE h[a].prev \in D /\ g[h[a].prev].next = a
      <4>1. h[a].prev \in DOMAIN h /\ h[h[a].prev].next = a /\ h[a].prev < a
        BY <3>4, HeaderFacts DEF Tiles
      <4>2. h[a].prev # b /\ h[a].prev # a
        BY <1>1, <4>1
      <4> QED
        BY <1>12, <4>1, <4>2
    <3> QED
      BY <2>1, <3>1, <3>2, <3>3, <3>4
  <2>2. CASE x # a
    <3>1. g[x].next = h[x].next /\ g[x].size = h[x].size
      BY <1>12, <2>2
    <3>2. h[x].next # Null => /\ h[x].next \in D /\ h[x].next = x + h[x].size
                              /\ h[h[x].next].prev = x /\ h[x].next # c
      <4> SUFFICES ASSUME h[x].next # Null
                   PROVE  /\ h[x].next \in D /\ h[x].next = x + h[x].size
                          /\ h[h[x].next].prev = x /\ h[x].next # c
        OBVIOUS
      <4>1. h[x].next \in DOMAIN h /\ h[x].next = x + h[x].size /\ h[h[x].next].prev = x
        BY DEF Tiles
      <4>2. h[x].next # b
        BY <1>13, <2>2
      <4>3. c # Null => h[x].next # c
        BY <1>2, <4>1
      <4> QED
        BY <4>1, <4>2, <4>3
    <3>3. h[x].next = Null => x + h[x].size = HeapSize
      BY DEF Tiles
    <3>4. CASE x = c
      <4>1. g[x].prev = a /\ g[a].next = c
        BY <1>3, <1>12, <3>4
      <4> QED
        BY <1>3, <1>12, <3>1, <3>2, <3>3, <3>4, <4>1
    <3>5. CASE x # c
      <4>1. g[x].prev = h[x].prev /\ h[x].prev # b
        BY <1>12, <1>14, <3>5
      <4>2. h[x].prev # Null => h[x].prev \in D /\ h[h[x].prev].next = x
        BY <4>1 DEF Tiles
      <4>3. h[x].prev # a
        <5> SUFFICES ASSUME h[x].prev = a PROVE FALSE
          OBVIOUS
        <5>1. h[a].next = x
          BY <1>1 DEF Tiles, Null
        <5> QED
          BY <5>1
      <4>4. h[x].prev # Null => g[h[x].prev].next = x
        BY <1>12, <4>2, <4>3
      <4> QED
        BY <1>12, <3>1, <3>2, <3>3, <4>1, <4>2, <4>4
    <3> QED
      BY <3>4, <3>5
  <2> QED
    BY <2>1, <2>2
<1>17. ASSUME NEW x \in D, NEW y \in D, x < y PROVE x + g[x].size <= y
  <2>1. x \in Nat /\ y \in Nat /\ h[x].size \in Nat /\ x + h[x].size <= y
    BY <1>17, HeaderFacts DEF Tiles
  <2>2. CASE x = a
    <3>1. b <= y
      BY <1>1, <2>1, <2>2
    <3>2. b < y
      BY <1>1, <2>1, <3>1
    <3>3. b + h[b].size <= y
      BY <1>1, <3>2 DEF Tiles
    <3>4. g[x].size = h[a].size + h[b].size
      BY <1>12, <2>2
    <3> QED
      BY <1>1, <2>1, <2>2, <3>3, <3>4
  <2>3. CASE x # a
    BY <1>12, <2>1, <2>3
  <2> QED
    BY <2>2, <2>3
<1>18. Tiles(g)
  BY <1>1, <1>10, <1>15, <1>16, <1>17 DEF Tiles
<1> QED
  BY <1>3, <1>10, <1>12, <1>121, <1>18 DEF g

LEMMA NeededUnits ==
    ASSUME NEW n \in Nat
    PROVE  Needed(n) \in Nat /\ Needed(n) > 0
  BY HeapAssumption DEF Needed, HeaderSize

(* kmalloc: the block given out stays in the list and is the only one used   *)
(* that was not.                                                             *)
LEMMA TakenTiles ==
    ASSUME HeapInv, NEW n \in Nat, NEW a \in Fitting(n)
    PROVE  /\ Tiles(Taken(a, n)) /\ Merged(Taken(a, n), {}, {})
           /\ UsedOf(Taken(a, n)) = UsedOf(hdr) \cup {a}
           /\ a \in Nat /\ a \notin UsedOf(hdr)
<1> DEFINE h == hdr
           N == Needed(n)
<1>1. /\ Tiles(h) /\ Merged(h, {}, {}) /\ a \in DOMAIN h /\ ~h[a].used /\ h[a].size >= N
  BY DEF HeapInv, Fitting, Blocks
<1>2. N \in Nat /\ N > 0
  BY NeededUnits
<1>3. a \in Nat /\ a \notin UsedOf(h)
  BY <1>1, HeaderFacts DEF UsedOf
<1> HIDE DEF N
<1>4. CASE ~Splits(a, n)
  <2> DEFINE g == [h EXCEPT ![a].used = TRUE]
  <2>1. Taken(a, n) = g
    BY <1>4 DEF Taken
  <2>2. /\ Tiles(g) /\ DOMAIN g = DOMAIN h
        /\ \A x \in DOMAIN h : /\ g[x].used = IF x = a THEN TRUE ELSE h[x].used
                               /\ g[x].next = h[x].next /\ g[x].prev = h[x].prev
    BY <1>1, MarkTiles
  <2> HIDE DEF g
  <2>3. Merged(g, {}, {})
    <3> SUFFICES ASSUME NEW x \in DOMAIN h, h[x].next # Null
                 PROVE  g[x].used \/ g[h[x].next].used
      BY <2>2 DEF Merged
    <3>1. h[x].used \/ h[h[x].next].used
      BY <1>1 DEF Merged
    <3>2. h[x].next \in DOMAIN h
      BY <1>1 DEF Tiles
    <3> QED
      BY <2>2, <3>1, <3>2
  <2>4. UsedOf(g) = UsedOf(h) \cup {a}
    BY <1>1, <2>2 DEF UsedOf
  <2> QED
    BY <1>3, <2>1, <2>2, <2>3, <2>4
<1>5. CASE Splits(a, n)
  <2> DEFINE b == a + N
             c == h[a].next
             ra == [h[a] EXCEPT !.size = N, !.next = b, !.used = TRUE]
             rb == [size |-> h[a].size - N, next |-> c, prev |-> a, used |-> FALSE]
             D == DOMAIN h \cup {b}
             g1 == [x \in D |-> IF x = b THEN rb ELSE IF x = a THEN ra ELSE h[x]]
             g == Taken(a, n)
  <2>1. /\ h \in [DOMAIN h -> Header] /\ h[a] \in Header /\ DOMAIN h \subseteq Nat
        /\ h[a].size \in Nat /\ c \in Nat \cup {Null}
        /\ Base \in DOMAIN h /\ h[Base].prev = Null
    BY <1>1, HeaderFacts DEF Tiles
  <2>2. h[a].size - N \in Nat \ {0} /\ h[a].size - N > 0
    BY <1>2, <1>5, <2>1, HeapAssumption DEF Splits, HeaderSize, N
  <2>3. b \in Nat /\ b > a /\ b < a + h[a].size /\ b # a
    BY <1>2, <1>3, <2>1, <2>2
  <2>4. b \notin DOMAIN h
    <3> SUFFICES ASSUME b \in DOMAIN h PROVE FALSE
      OBVIOUS
    <3>1. a + h[a].size <= b
      BY <1>1, <2>3 DEF Tiles
    <3> QED
      BY <1>3, <2>1, <2>3, <3>1
  <2>5. /\ c # Null => c \in DOMAIN h /\ c = a + h[a].size /\ h[c].prev = a /\ c > a /\ h[c].used
        /\ c = Null => a + h[a].size = HeapSize
    BY <1>1, HeaderFacts DEF Tiles, Merged
  <2>51. a # Null /\ b # Null
    BY <1>3, <2>3 DEF Null
  <2>6. a \in D /\ b \in D /\ c # a /\ c # b /\ (c # Null => c \in D)
    BY <1>1, <1>3, <2>4, <2>5, <2>51
  <2>7. /\ ra \in Header /\ ra.size = N /\ ra.next = b /\ ra.prev = h[a].prev /\ ra.used = TRUE
    <3>1. N \in Nat \ {0}
      BY <1>2
    <3> HIDE DEF b
    <3> QED
      BY <2>1, <2>3, <3>1, GivenOut, Zenon
  <2>8. /\ rb \in Header /\ rb.size = h[a].size - N /\ rb.next = c /\ rb.prev = a /\ rb.used = FALSE
    BY <1>3, <2>1, <2>2 DEF Header
  <2>9. g = Relinked(g1, c, b)
    <3>1. [h EXCEPT ![a].size = N, ![a].next = b, ![a].used = TRUE] = [h EXCEPT ![a] = ra]
      BY <1>1, <2>1
    <3> HIDE DEF ra
    <3>2. Extended([h EXCEPT ![a] = ra], b, rb) = g1
      BY <1>1, <2>1, <2>4 DEF Extended
    <3> QED
      BY <1>5, <3>1, <3>2 DEF Taken, N
  <2> HIDE DEF ra, rb
  <2>10. g1 \in [D -> Header] /\ g1[b] = rb /\ g1[a] = ra /\ \A x \in DOMAIN h : x # a => g1[x] = h[x]
    BY <2>1, <2>3, <2>4, <2>6, <2>7, <2>8
  <2> HIDE DEF g1, g
  <2> DEFINE rc == [h[c] EXCEPT !.prev = b]
  <2>11. c # Null => /\ rc \in Header /\ rc.size = h[c].size /\ rc.next = h[c].next /\ rc.prev = b
                     /\ rc.used = h[c].used
    BY <2>1, <2>3, <2>5 DEF Header
  <2>12. c # Null => g = [g1 EXCEPT ![c] = rc]
    <3> SUFFICES ASSUME c # Null PROVE g = [g1 EXCEPT ![c] = rc]
      OBVIOUS
    <3>1. g1[c] = h[c]
      BY <2>5, <2>6, <2>10
    <3>2. g = [g1 EXCEPT ![c].prev = b]
      BY <2>9 DEF Relinked
    <3> QED
      BY <3>1, <3>2
  <2>13. c = Null => g = g1
    BY <2>9 DEF Relinked
  <2> HIDE DEF rc, b, c
  <2>14. g \in [D -> Header] /\ DOMAIN g = D
    BY <2>6, <2>10, <2>11, <2>12, <2>13
  <2>15. /\ g[a] = ra /\ g[b] = rb /\ (c # Null => g[c] = rc)
         /\ \A x \in DOMAIN h : x # a /\ x # c => g[x] = h[x]
    BY <2>6, <2>10, <2>12, <2>13
  <2>16. /\ g[a].size = N /\ g[a].next = b /\ g[a].prev = h[a].prev /\ g[a].used
         /\ g[b].size = h[a].size - N /\ g[b].next = c /\ g[b].prev = a /\ ~g[b].used
    BY <2>7, <2>8, <2>15
  <2>17. \A x \in DOMAIN h : x # a =>
            /\ g[x].size = h[x].size /\ g[x].next = h[x].next /\ g[x].used = h[x].used
            /\ g[x].prev = IF x = c THEN b ELSE h[x].prev
    <3> TAKE x \in DOMAIN h
    <3>1. CASE x = c
      <4>1. c # Null
        BY <2>1, <3>1 DEF Null
      <4> QED
        BY <2>11, <2>15, <3>1, <4>1
    <3>2. CASE x # c
      BY <2>15, <3>2
    <3> QED
      BY <3>1, <3>2
  <2>18. Base \in D /\ g[Base].prev = Null
    <3>1. Base # c
      BY <1>3, <2>5 DEF Base, Null
    <3> QED
      BY <2>1, <2>16, <2>17, <3>1
  <2>19. ASSUME NEW x \in DOMAIN h, x # a
         PROVE  /\ g[x].next = Null => x + g[x].size = HeapSize
                /\ g[x].next # Null => /\ g[x].next \in D /\ g[x].next = x + g[x].size
                                       /\ g[g[x].next].prev = x
                                       /\ g[x].used \/ g[g[x].next].used
                /\ g[x].prev # Null => g[x].prev \in D /\ g[g[x].prev].next = x
    <3>1. g[x].size = h[x].size /\ g[x].next = h[x].next /\ g[x].used = h[x].used
      BY <2>17, <2>19
    <3>2. h[x].next = Null => x + h[x].size = HeapSize
      BY <1>1 DEF Tiles
    <3>3. ASSUME h[x].next # Null
          PROVE  /\ h[x].next \in DOMAIN h /\ h[x].next = x + h[x].size
                 /\ g[h[x].next].prev = x /\ (h[x].used \/ g[h[x].next].used)
      <4> DEFINE y == h[x].next
      <4>1. y \in DOMAIN h /\ y = x + h[x].size /\ h[y].prev = x /\ (h[x].used \/ h[y].used)
        BY <1>1, <3>3 DEF Tiles, Merged
      <4>2. y # c
        <5> SUFFICES ASSUME y = c PROVE FALSE
          OBVIOUS
        <5>1. h[y].prev = a
          BY <2>1, <2>5, <4>1 DEF Null
        <5> QED
          BY <2>19, <4>1, <5>1
      <4> HIDE DEF y
      <4>3. CASE y = a
        <5>1. g[a].prev = x /\ g[a].used
          BY <2>16, <4>1, <4>3
        <5> QED
          BY <4>1, <4>3, <5>1 DEF y
      <4>4. CASE y # a
        <5>1. g[y].prev = h[y].prev /\ g[y].used = h[y].used
          BY <2>17, <4>1, <4>2, <4>4
        <5> QED
          BY <4>1, <5>1 DEF y
      <4> QED
        BY <4>3, <4>4
    <3>4. CASE x = c
      <4>1. g[x].prev = b /\ g[b].next = x /\ b \in D
        BY <2>6, <2>16, <2>17, <2>19, <3>4
      <4> QED
        BY <3>1, <3>2, <3>3, <4>1
    <3>5. CASE x # c
      <4>1. g[x].prev = h[x].prev
        BY <2>17, <2>19, <3>5
      <4>2. ASSUME h[x].prev # Null PROVE h[x].prev \in DOMAIN h /\ g[h[x].prev].next = x
        <5>1. h[x].prev \in DOMAIN h /\ h[h[x].prev].next = x
          BY <1>1, <4>2 DEF Tiles
        <5>2. h[x].prev # a
          BY <3>5, <5>1 DEF c
        <5> QED
          BY <2>17, <5>1, <5>2
      <4> QED
        BY <3>1, <3>2, <3>3, <4>1, <4>2
    <3> QED
      BY <3>4, <3>5
  <2>20. /\ g[a].next # Null /\ g[a].next \in D /\ g[a].next = a + g[a].size /\ g[g[a].next].prev = a
         /\ g[a].prev # Null => g[a].prev \in D /\ g[g[a].prev].next = a
    <3>1. b # Null /\ b = a + N
      BY <2>3 DEF Null, b
    <3>2. ASSUME h[a].prev # Null PROVE h[a].prev \in DOMAIN h /\ g[h[a].prev].next = a
      <4>1. h[a].prev \in DOMAIN h /\ h[h[a].prev].next = a /\ h[a].prev < a
        BY <1>1, <3>2, HeaderFacts DEF Tiles
      <4>2. h[a].prev # a
        BY <1>3, <4>1
      <4> QED
        BY <2>17, <4>1, <4>2
    <3> QED
      BY <2>6, <2>16, <3>1, <3>2
  <2>21. /\ g[b].next = Null => b + g[b].size = HeapSize
         /\ g[b].next # Null => /\ g[b].next \in D /\ g[b].next = b + g[b].size
                                /\ g[g[b].next].prev = b /\ g[g[b].next].used
         /\ g[b].prev # Null /\ g[b].prev \in D /\ g[g[b].prev].next = b
    <3>1. b + (h[a].size - N) = a + h[a].size
      BY <1>2, <1>3, <2>1 DEF b
    <3>2. c # Null => g[c].prev = b /\ g[c].used
      BY <2>5, <2>6, <2>17
    <3>3. a # Null
      BY <1>3 DEF Null
    <3> QED
      BY <2>5, <2>6, <2>16, <3>1, <3>2, <3>3
  <2>22. ASSUME NEW x \in D, NEW y \in D, x < y PROVE x + g[x].size <= y
    <3>0. x \in Nat /\ y \in Nat
      BY <2>1, <2>3 DEF b
    <3>1. CASE x \in DOMAIN h /\ y \in DOMAIN h
      <4>1. x + h[x].size <= y /\ h[x].size \in Nat
        BY <1>1, <2>22, <3>1, HeaderFacts DEF Tiles
      <4>2. CASE x = a
        BY <1>1, <1>2, <2>1, <2>16, <3>0, <4>1, <4>2
      <4>3. CASE x # a
        BY <2>17, <3>1, <4>1, <4>3
      <4> QED
        BY <4>2, <4>3
    <3>2. CASE x \in DOMAIN h /\ y = b
      <4>1. CASE x = a
        BY <2>16, <3>2, <4>1 DEF b
      <4>2. CASE x # a
        <5>0. h[x].size \in Nat /\ g[x].size = h[x].size
          BY <1>1, <2>17, <3>2, <4>2, HeaderFacts
        <5>1. x < a
          <6> SUFFICES ASSUME a < x PROVE FALSE
            BY <1>3, <3>0, <4>2
          <6>1. a + h[a].size <= x
            BY <1>1, <3>2 DEF Tiles
          <6> QED
            BY <1>3, <2>1, <2>2, <2>22, <3>0, <3>2, <6>1, <1>2 DEF b
        <5>2. x + h[x].size <= a
          BY <1>1, <3>2, <5>1 DEF Tiles
        <5> QED
          BY <1>2, <1>3, <3>0, <3>2, <5>0, <5>2 DEF b
      <4> QED
        BY <4>1, <4>2
    <3>3. CASE x = b /\ y \in DOMAIN h
      <4>1. a < y
        BY <1>2, <1>3, <2>22, <3>0, <3>3 DEF b
      <4>2. a + h[a].size <= y
        BY <1>1, <3>3, <4>1 DEF Tiles
      <4> QED
        BY <1>2, <1>3, <2>1, <2>16, <3>0, <3>3, <4>2 DEF b
    <3>4. CASE x = b /\ y = b
      BY <2>22, <3>0, <3>4
    <3> QED
      BY <3>1, <3>2, <3>3, <3>4
  <2>23. D \subseteq Nat
    BY <2>1, <2>3 DEF b
  <2>231. \A x \in D : (x \in DOMAIN h /\ x # a) \/ x = a \/ x = b
    OBVIOUS
  <2>232. ASSUME NEW x \in D
          PROVE  /\ g[x].next = Null => x + g[x].size = HeapSize
                 /\ g[x].next # Null => /\ g[x].next \in D /\ g[x].next = x + g[x].size
                                        /\ g[g[x].next].prev = x
                                        /\ g[x].used \/ g[g[x].next].used
                 /\ g[x].prev # Null => g[x].prev \in D /\ g[g[x].prev].next = x
    <3>1. CASE x \in DOMAIN h /\ x # a
      BY <2>19, <3>1
    <3>2. CASE x = a
      BY <2>16, <2>20, <3>2
    <3>3. CASE x = b
      BY <2>21, <3>3
    <3> QED
      BY <2>231, <3>1, <3>2, <3>3
  <2>24. Tiles(g)
    BY <2>14, <2>18, <2>22, <2>23, <2>232 DEF Tiles
  <2>25. Merged(g, {}, {})
    BY <2>14, <2>232 DEF Merged
  <2>26. UsedOf(g) = UsedOf(h) \cup {a}
    <3>1. \A x \in D : g[x].used <=> x = a \/ (x \in DOMAIN h /\ h[x].used)
      BY <2>4, <2>6, <2>16, <2>17, <2>231 DEF b
    <3> QED
      BY <1>1, <2>14, <3>1 DEF UsedOf
  <2> QED
    BY <1>3, <2>24, <2>25, <2>26 DEF g
<1> QED
  BY <1>4, <1>5

(* JoinNext, for a block a that was just freed: afterwards only the pair     *)
(* that ends in a can have two free blocks.                                  *)
LEMMA JoinNextTiles ==
    ASSUME NEW h, Tiles(h), NEW a \in DOMAIN h, ~h[a].used, Merged(h, {a}, {a}),
           h[a].next # Null /\ ~h[h[a].next].used =>
               LET b == h[a].next IN h[b].next # Null => h[h[b].next].used
    PROVE  LET g == JoinNext(h, a) IN
           /\ Tiles(g) /\ a \in DOMAIN g /\ ~g[a].used
           /\ Merged(g, {}, {a}) /\ UsedOf(g) = UsedOf(h)
<1> DEFINE b == h[a].next
           g == JoinNext(h, a)
<1>1. CASE ~(b # Null /\ ~h[b].used)
  <2>1. g = h
    BY <1>1 DEF JoinNext
  <2> HIDE DEF g
  <2>2. Merged(h, {}, {a})
    <3> SUFFICES ASSUME NEW x \in DOMAIN h, h[x].next # Null, h[x].next # a
                 PROVE  h[x].used \/ h[h[x].next].used
      BY DEF Merged
    <3>1. CASE x = a
      BY <1>1, <3>1
    <3>2. CASE x # a
      BY <3>2 DEF Merged
    <3> QED
      BY <3>1, <3>2
  <2>3. Tiles(g) /\ a \in DOMAIN g /\ ~g[a].used /\ UsedOf(g) = UsedOf(h) /\ Merged(g, {}, {a})
    BY <2>1, <2>2
  <2> QED
    BY <2>3 DEF g
<1>2. CASE b # Null /\ ~h[b].used
  <2>1. g = Swallow(h, a)
    BY <1>2 DEF JoinNext
  <2>2. /\ Tiles(g) /\ DOMAIN g = DOMAIN h \ {b} /\ a \in DOMAIN g
        /\ \A x \in DOMAIN g : /\ g[x].used = h[x].used
                               /\ g[x].next = IF x = a THEN h[b].next ELSE h[x].next
    <3>1. LET d == h[a].next
              f == Swallow(h, a) IN
          /\ Tiles(f) /\ DOMAIN f = DOMAIN h \ {d} /\ a \in DOMAIN f
          /\ \A x \in DOMAIN f : /\ f[x].used = h[x].used
                                 /\ f[x].next = IF x = a THEN h[d].next ELSE h[x].next
                                 /\ x = a => f[x].prev = h[x].prev
      BY <1>2, SwallowTiles, SMTT(30)
    <3> HIDE DEF g
    <3> QED
      BY <2>1, <3>1
  <2>3. b \in DOMAIN h
    BY <1>2, HeaderFacts
  <2> HIDE DEF g
  <2>4. Merged(g, {}, {a})
    <3> SUFFICES ASSUME NEW x \in DOMAIN g, g[x].next # Null, g[x].next # a
                 PROVE  g[x].used \/ g[g[x].next].used
      BY DEF Merged
    <3>0. g[x].next \in DOMAIN g
      BY <2>2, HeaderFacts
    <3>1. CASE x = a
      <4>1. g[x].next = h[b].next
        BY <2>2, <3>1
      <4> QED
        BY <1>2, <2>2, <3>0, <4>1
    <3>2. CASE x # a
      <4>1. g[x].next = h[x].next /\ x \in DOMAIN h
        BY <2>2, <3>2
      <4>2. h[x].used \/ h[h[x].next].used
        BY <3>2, <4>1 DEF Merged
      <4> QED
        BY <2>2, <3>0, <4>1, <4>2
    <3> QED
      BY <3>1, <3>2
  <2>5. UsedOf(g) = UsedOf(h)
    BY <1>2, <2>2, <2>3 DEF UsedOf
  <2> QED
    BY <2>2, <2>4, <2>5 DEF g
<1> QED
  BY <1>1, <1>2

LEMMA JoinPrevTiles ==
    ASSUME NEW h, Tiles(h), NEW a \in DOMAIN h, ~h[a].used, Merged(h, {}, {a})
    PROVE  LET g == JoinPrev(h, a) IN
           /\ Tiles(g) /\ Merged(g, {}, {}) /\ UsedOf(g) = UsedOf(h)
<1> DEFINE p == h[a].prev
           g == JoinPrev(h, a)
<1>0. a # Null
  BY HeaderFacts DEF Null
<1>1. CASE ~(p # Null /\ ~h[p].used)
  <2>1. g = h
    BY <1>1 DEF JoinPrev
  <2>2. ASSUME NEW x \in DOMAIN h, h[x].next = a PROVE h[x].used
    <3>1. p = x
      BY <1>0, <2>2 DEF Tiles
    <3>2. x # Null
      BY HeaderFacts DEF Null
    <3> QED
      BY <1>1, <3>1, <3>2
  <2> HIDE DEF g
  <2>3. Merged(h, {}, {})
    <3> SUFFICES ASSUME NEW x \in DOMAIN h, h[x].next # Null
                 PROVE  h[x].used \/ h[h[x].next].used
      BY DEF Merged
    <3>1. CASE h[x].next = a
      BY <2>2, <3>1
    <3>2. CASE h[x].next # a
      BY <3>2 DEF Merged
    <3> QED
      BY <3>1, <3>2
  <2>4. Tiles(g) /\ UsedOf(g) = UsedOf(h) /\ Merged(g, {}, {})
    BY <2>1, <2>3
  <2> QED
    BY <2>4 DEF g
<1>2. CASE p # Null /\ ~h[p].used
  <2>1. g = Swallow(h, p)
    BY <1>2 DEF JoinPrev
  <2>2. p \in DOMAIN h /\ h[p].next = a /\ p # a
    BY <1>2, HeaderFacts DEF Tiles
  <2>3. /\ Tiles(g) /\ DOMAIN g = DOMAIN h \ {a}
        /\ \A x \in DOMAIN g : /\ g[x].used = h[x].used
                               /\ g[x].next = IF x = p THEN h[a].next ELSE h[x].next
    <3>1. LET d == h[p].next
              f == Swallow(h, p) IN
          /\ Tiles(f) /\ DOMAIN f = DOMAIN h \ {d} /\ p \in DOMAIN f
          /\ \A x \in DOMAIN f : /\ f[x].used = h[x].used
                                 /\ f[x].next = IF x = p THEN h[d].next ELSE h[x].next
                                 /\ x = p => f[x].prev = h[x].prev
      <4>1. h[p].next # Null
        BY <1>0, <2>2
      <4> HIDE DEF g, p
      <4> QED
        BY <2>2, <4>1, SwallowTiles, ZenonT(60)
    <3> HIDE DEF g, p
    <3> QED
      BY <2>1, <2>2, <3>1
  <2> HIDE DEF g
  <2>4. Merged(g, {}, {})
    <3> SUFFICES ASSUME NEW x \in DOMAIN g, g[x].next # Null
                 PROVE  g[x].used \/ g[g[x].next].used
      BY DEF Merged
    <3>0. g[x].next \in DOMAIN g
      BY <2>3, HeaderFacts
    <3>1. CASE x = p
      <4>1. g[x].next = h[a].next /\ h[a].next # a
        BY <2>3, <3>0, <3>1
      <4>2. h[h[a].next].used
        BY <4>1 DEF Merged
      <4> QED
        BY <2>3, <3>0, <4>1, <4>2
    <3>2. CASE x # p
      <4>1. g[x].next = h[x].next /\ x \in DOMAIN h /\ h[x].next # a
        BY <2>3, <3>0, <3>2
      <4>2. h[x].used \/ h[h[x].next].used
        BY <4>1 DEF Merged
      <4> QED
        BY <2>3, <3>0, <4>1, <4>2
    <3> QED
      BY <3>1, <3>2
  <2>5. UsedOf(g) = UsedOf(h)
    BY <2>2, <2>3 DEF UsedOf
  <2> QED
    BY <2>3, <2>4, <2>5 DEF g
<1> QED
  BY <1>1, <1>2

(* kfree of a block that was given out.                                      *)
LEMMA ReleasedTiles ==
    ASSUME HeapInv, NEW a \in UsedOf(hdr)
    PROVE  /\ Tiles(Released(a)) /\ Merged(Released(a), {}, {})
           /\ UsedOf(Released(a)) = UsedOf(hdr) \ {a}
<1> DEFINE h == [hdr EXCEPT ![a].used = FALSE]
           g == JoinNext(h, a)
<1>1. Tiles(hdr) /\ Merged(hdr, {}, {}) /\ a \in DOMAIN hdr /\ hdr[a].used
  BY DEF HeapInv, UsedOf
<1>2. /\ Tiles(h) /\ DOMAIN h = DOMAIN hdr
      /\ \A x \in DOMAIN hdr : /\ h[x].used = IF x = a THEN FALSE ELSE hdr[x].used
                               /\ h[x].next = hdr[x].next /\ h[x].prev = hdr[x].prev
  BY <1>1, MarkTiles
<1>3. Released(a) = JoinPrev(g, a)
  BY DEF Released
<1> HIDE DEF h
<1>4. Merged(h, {a}, {a})
  <2> SUFFICES ASSUME NEW x \in DOMAIN h, h[x].next # Null, x # a, h[x].next # a
               PROVE  h[x].used \/ h[h[x].next].used
    BY DEF Merged
  <2>1. h[x].next \in DOMAIN h
    BY <1>2, HeaderFacts
  <2>2. hdr[x].used \/ hdr[hdr[x].next].used
    BY <1>1, <1>2 DEF Merged
  <2> QED
    BY <1>2, <2>1, <2>2
<1>5. ASSUME h[a].next # Null, ~h[h[a].next].used, h[h[a].next].next # Null
      PROVE  h[h[h[a].next].next].used
  <2> DEFINE b == h[a].next
             c == h[b].next
  <2>1. b \in DOMAIN h /\ b > a /\ c \in DOMAIN h /\ c > b /\ a \in Nat /\ b \in Nat /\ c \in Nat
    BY <1>1, <1>2, <1>5, HeaderFacts
  <2>2. b # a /\ c # a
    BY <2>1
  <2>3. hdr[b].next = c /\ ~hdr[b].used
    BY <1>2, <1>5, <2>1, <2>2
  <2> HIDE DEF b, c
  <2>4. c # Null
    BY <2>1 DEF Null
  <2>5. hdr[c].used
    BY <1>1, <1>2, <2>1, <2>3, <2>4 DEF Merged
  <2>6. h[c].used
    BY <1>2, <2>1, <2>2, <2>5
  <2> QED
    BY <2>6 DEF b, c
<1>6. a \in DOMAIN h /\ ~h[a].used
  BY <1>1, <1>2
<1>7. /\ Tiles(g) /\ a \in DOMAIN g /\ ~g[a].used
      /\ Merged(g, {}, {a}) /\ UsedOf(g) = UsedOf(h)
  BY <1>2, <1>4, <1>5, <1>6, JoinNextTiles
<1> HIDE DEF g
<1>8. Tiles(JoinPrev(g, a)) /\ Merged(JoinPrev(g, a), {}, {}) /\ UsedOf(JoinPrev(g, a)) = UsedOf(g)
  BY <1>7, JoinPrevTiles
<1>9. UsedOf(h) = UsedOf(hdr) \ {a}
  BY <1>1, <1>2 DEF UsedOf
<1> QED
  BY <1>3, <1>7, <1>8, <1>9

---------------------------------------------------------------------------
(* The mount table and names.                                                *)

LEMMA PathName == ASSUME NEW p \in Paths PROVE p \in Seq(Char) /\ p # <<>>
<1>1. p \in Seq(STRING) /\ p # <<>>
  BY VfsAssumption
<1>2. Len(p) \in Nat /\ DOMAIN p = 1..Len(p) /\ p \in [1..Len(p) -> STRING]
  BY <1>1, LenProperties
<1>3. \A i \in 1..Len(p) : p[i] \in Char
  BY <1>2 DEF Char
<1>4. SubSeq(p, 1, Len(p)) \in Seq(Char)
  BY <1>2, <1>3, SubSeqProperties
<1> QED
  BY <1>1, <1>4, SubSeqFull

LEMMA MountPoints ==
    ASSUME MountInv, NEW i \in DOMAIN mounts
    PROVE  /\ i \in Nat /\ mounts[i] \in Points /\ mounts[i].at \in {Root, Ext, Tmp}
           /\ mounts[i].at \in Seq(Char) /\ Len(mounts[i].at) \in {1, 2}
           /\ mounts[i].at = Root <=> Len(mounts[i].at) = 1
<1>1. i \in Nat /\ mounts[i] \in Points
  <2>1. mounts \in Seq(Points)
    BY DEF MountInv
  <2>2. DOMAIN mounts = 1..Len(mounts) /\ Len(mounts) \in Nat
    BY <2>1, LenProperties
  <2> HIDE DEF Points
  <2> QED
    BY <2>1, <2>2
<1>2. mounts[i].at \in {Root, Ext, Tmp}
  BY <1>1 DEF Points
<1>3. Root \in Seq(Char) /\ Ext \in Seq(Char) /\ Tmp \in Seq(Char)
  <2>1. "/" \in Char /\ "e" \in Char /\ "t" \in Char
    BY DEF Char
  <2> QED
    BY <2>1 DEF Root, Ext, Tmp
<1>4. Len(Root) = 1 /\ Len(Ext) = 2 /\ Len(Tmp) = 2
  BY DEF Root, Ext, Tmp
<1>41. Ext # Root /\ Tmp # Root
  BY <1>4
<1>5. PICK m : m = mounts[i].at
  OBVIOUS
<1>6. m \in Seq(Char) /\ Len(m) \in {1, 2} /\ (m = Root <=> Len(m) = 1)
  <2>1. CASE m = Root
    BY <1>3, <1>4, <2>1
  <2>2. CASE m = Ext
    <3>1. Len(m) = 2 /\ m # Root /\ m \in Seq(Char)
      BY <1>3, <1>4, <1>41, <2>2, Zenon
    <3> QED
      BY <3>1
  <2>3. CASE m = Tmp
    <3>1. Len(m) = 2 /\ m # Root /\ m \in Seq(Char)
      BY <1>3, <1>4, <1>41, <2>3, Zenon
    <3> QED
      BY <3>1
  <2> QED
    <3>1. m = Root \/ m = Ext \/ m = Tmp
      BY <1>2, <1>5
    <3> QED
      BY <2>1, <2>2, <2>3, <3>1, Zenon
<1> QED
  BY <1>1, <1>2, <1>5, <1>6, Zenon

(* The longest mount point that starts a path exists.                        *)
LEMMA BestIn ==
    ASSUME MountInv, NEW p, Matching(p) # {}
    PROVE  /\ Best(p) \in Matching(p)
           /\ \A j \in Matching(p) : Len(mounts[j].at) <= Len(mounts[Best(p)].at)
<1> DEFINE L(i) == Len(mounts[i].at)
           Two == {i \in Matching(p) : L(i) = 2}
           Top(i) == \A j \in Matching(p) : L(i) > L(j) \/ (L(i) = L(j) /\ i <= j)
<1>1. \A i \in Matching(p) : i \in Nat /\ (L(i) = 1 \/ L(i) = 2)
  BY MountPoints DEF Matching
<1> HIDE DEF L
<1>2. \E i \in Matching(p) : Top(i)
  <2>1. CASE Two # {}
    <3>1. LowestOf(Two) \in Two /\ \A j \in Two : LowestOf(Two) <= j
      BY <1>1, <2>1, LowestIn
    <3>2. Top(LowestOf(Two))
      BY <1>1, <3>1
    <3> QED
      BY <3>1, <3>2
  <2>2. CASE Two = {}
    <3>1. LowestOf(Matching(p)) \in Matching(p) /\ \A j \in Matching(p) : LowestOf(Matching(p)) <= j
      BY <1>1, LowestIn
    <3>2. \A j \in Matching(p) : L(j) = 1
      BY <1>1, <2>2
    <3>3. Top(LowestOf(Matching(p)))
      BY <3>1, <3>2
    <3> QED
      BY <3>1, <3>3
  <2> QED
    BY <2>1, <2>2
<1>3. Best(p) = CHOOSE i \in Matching(p) : Top(i)
  BY DEF Best, L
<1> HIDE DEF Top
<1>4. Best(p) \in Matching(p) /\ Top(Best(p))
  BY <1>2, <1>3
<1>5. \A j \in Matching(p) : L(j) <= L(Best(p))
  BY <1>1, <1>4 DEF Top
<1> QED
  BY <1>4, <1>5 DEF L

LEMMA StrippedName ==
    ASSUME NEW s \in Seq(Char)
    PROVE  /\ Stripped(s) \in Seq(Char)
           /\ Stripped(s) # <<>> => Stripped(s)[1] # "/"
<1> DEFINE rest == {i \in DOMAIN s : s[i] # "/"}
           k == LowestOf(rest)
<1>1. CASE rest = {}
  BY <1>1 DEF Stripped
<1>2. CASE rest # {}
  <2>1. k \in rest
    <3>1. DOMAIN s \subseteq Nat
      BY LenProperties
    <3>2. rest \in SUBSET Nat
      BY <3>1
    <3> HIDE DEF rest
    <3> QED
      BY <1>2, <3>2, LowestIn
  <2>2. k \in 1..Len(s) /\ s[k] # "/"
    BY <2>1
  <2>3. Stripped(s) = SubSeq(s, k, Len(s))
    BY <1>2 DEF Stripped
  <2> HIDE DEF k, rest
  <2>4. /\ SubSeq(s, k, Len(s)) \in Seq(Char)
        /\ \A i \in 1..Len(s) - k + 1 : SubSeq(s, k, Len(s))[i] = s[k + i - 1]
    <3>1. \A i \in k..Len(s) : s[i] \in Char
      BY <2>2
    <3>2. k \in Int /\ Len(s) \in Int
      BY <2>2
    <3> QED
      BY <3>1, <3>2, SubSeqProperties
  <2>5. SubSeq(s, k, Len(s))[1] = s[k]
    BY <2>2, <2>4
  <2> QED
    BY <2>2, <2>3, <2>4, <2>5
<1> QED
  BY <1>1, <1>2

LEMMA AfterName ==
    ASSUME NEW s \in Seq(Char), NEW m \in Seq(Char)
    PROVE  After(s, m) \in Seq(Char)
<1>1. Len(m) + 1 \in Int /\ Len(s) \in Int /\ Len(m) \in Nat
  OBVIOUS
<1>2. \A i \in (Len(m) + 1)..Len(s) : s[i] \in Char
  BY <1>1
<1> QED
  BY <1>1, <1>2, SubSeqProperties DEF After

LEMMA ResolvedName ==
    ASSUME MountInv, NEW p \in Paths
    PROVE  Resolve(p).rel \in Seq(Char)
<1>1. p \in Seq(Char)
  BY PathName
<1>2. CASE p[1] # "/"
  BY <1>1, <1>2 DEF Resolve, NoFs
<1>3. CASE p[1] = "/" /\ Matching(p) = {}
  BY <1>3 DEF Resolve, NoFs
<1>4. CASE p[1] = "/" /\ Matching(p) # {}
  <2>1. mounts[Best(p)].at \in Seq(Char)
    BY <1>4, BestIn, MountPoints DEF Matching
  <2>2. Stripped(After(p, mounts[Best(p)].at)) \in Seq(Char)
    BY <1>1, <2>1, AfterName, StrippedName
  <2> QED
    BY <1>4, <2>2 DEF Resolve
<1> QED
  BY <1>2, <1>3, <1>4

LEMMA DirectName ==
    ASSUME NEW p \in Paths
    PROVE  Stripped(After(p, Tmp)) \in Seq(Char)
<1>1. p \in Seq(Char) /\ Tmp \in Seq(Char)
  <2>1. "/" \in Char /\ "t" \in Char
    BY DEF Char
  <2> QED
    BY <2>1, PathName DEF Tmp
<1> QED
  BY <1>1, AfterName, StrippedName

(* Once the file systems are mounted, the table begins with the root.        *)
LEMMA MountSteps ==
    ASSUME MountInv, [VfsNext]_vfsVars
    PROVE  MountInv'
<1>0. /\ mounts \in Seq(Points) /\ booting \in Seq(Points)
      /\ \/ mounts = <<>> /\ booting # <<>> /\ booting[1].at = Root
         \/ mounts # <<>> /\ mounts[1].at = Root
  BY DEF MountInv
<1> HIDE DEF Points
<1>1. CASE Mount
  <2> DEFINE m == Append(mounts, Head(booting))
  <2>1. booting # <<>> /\ booting' = Tail(booting) /\ mounts' \in {m, mounts}
    BY <1>1 DEF Mount
  <2>2. Head(booting) \in Points /\ booting' \in Seq(Points)
    BY <1>0, <2>1, HeadTailProperties
  <2>3. Len(mounts) \in Nat /\ Len(booting) \in Nat /\ (mounts # <<>> => Len(mounts) > 0)
    BY <1>0, EmptySeq, LenProperties
  <2>4. /\ m \in Seq(Points) /\ m # <<>> /\ Len(m) = Len(mounts) + 1
        /\ \A i \in 1..Len(mounts) : m[i] = mounts[i]
        /\ m[Len(mounts) + 1] = Head(booting)
    BY <1>0, <2>2, AppendProperties
  <2>5. CASE mounts # <<>>
    <3>1. mounts[1].at = Root /\ m[1] = mounts[1]
      BY <1>0, <2>3, <2>4, <2>5
    <3> HIDE DEF m
    <3> QED
      BY <1>0, <2>1, <2>2, <2>4, <2>5, <3>1 DEF MountInv
  <2>6. CASE mounts = <<>>
    <3>1. Len(mounts) = 0
      BY <2>6
    <3>2. mounts' = m
      BY <1>1, <3>1, VfsAssumption DEF Mount
    <3>3. Head(booting) = booting[1] /\ booting[1].at = Root
      BY <1>0, <2>1, <2>6
    <3>4. m[1].at = Root
      BY <2>4, <3>1, <3>3
    <3> HIDE DEF m
    <3> QED
      BY <2>2, <2>4, <3>2, <3>4 DEF MountInv
  <2> QED
    BY <2>5, <2>6
<1>2. CASE SkipExt2
  <2>1. booting # <<>> /\ booting' = Tail(booting) /\ mounts' = mounts /\ Head(booting).fs = "ext2"
    BY <1>2 DEF SkipExt2
  <2>2. Head(booting) \in Points /\ Head(booting) = booting[1] /\ booting' \in Seq(Points)
    BY <1>0, <2>1, HeadTailProperties
  <2>3. Head(booting).at # Root
    <3>1. Root # Ext
      BY DEF Root, Ext
    <3> QED
      BY <2>1, <2>2, <3>1 DEF Points
  <2>4. mounts # <<>> /\ mounts[1].at = Root
    BY <1>0, <2>2, <2>3
  <2> QED
    BY <1>0, <2>1, <2>2, <2>4 DEF MountInv
<1>3. CASE UNCHANGED <<mounts, booting>>
  BY <1>0, <1>3 DEF MountInv
<1>4. Mount \/ SkipExt2 \/ UNCHANGED <<mounts, booting>>
  BY DEF VfsNext, vfsVars, Kmalloc, Kfree, Unlink, Write, RdRemove, RdCreate
<1> QED
  BY <1>1, <1>2, <1>3, <1>4

(* At the end of booting, a path that begins with a slash has a mount point; *)
(* the longest is a whole number of components when no mount point ends      *)
(* inside one, so resolution picks the deepest that holds the path.          *)
LEMMA MountsResolve ==
    ASSUME MountInv PROVE ResolvesByComponent
<1> SUFFICES ASSUME Running, NEW p \in Paths, p[1] = "/", ~Glued(p)
             PROVE  \E i \in DOMAIN mounts :
                      /\ Within(mounts[i].at, p) /\ Resolve(p).fs = mounts[i].fs
                      /\ \A j \in DOMAIN mounts :
                            Within(mounts[j].at, p) => Len(mounts[j].at) <= Len(mounts[i].at)
                      /\ Resolve(p).rel # <<>> => Resolve(p).rel[1] # "/"
  BY DEF ResolvesByComponent
<1>1. mounts \in Seq(Points) /\ mounts # <<>> /\ mounts[1].at = Root
  BY DEF MountInv, Running
<1>2. p \in Seq(Char) /\ p # <<>> /\ Len(p) \in Nat /\ Len(p) >= 1
  BY PathName, EmptySeq, LenProperties
<1>3. 1 \in Matching(p)
  <2>1. 1 \in DOMAIN mounts
    <3> HIDE DEF Points
    <3> QED
      BY <1>1, EmptySeq, LenProperties
  <2>2. Root = <<"/">> /\ Len(Root) = 1
    BY DEF Root
  <2>3. SubSeq(p, 1, 1) \in Seq(Char) /\ Len(SubSeq(p, 1, 1)) = 1 /\ SubSeq(p, 1, 1)[1] = p[1]
    BY <1>2, SubSeqProperties
  <2>4. SubSeq(p, 1, 1) = Root
    <3>1. "/" \in Char
      BY DEF Char
    <3>2. Root \in Seq(Char) /\ Root[1] = "/"
      BY <2>2, <3>1
    <3>3. \A i \in 1..Len(Root) : SubSeq(p, 1, 1)[i] = Root[i]
      BY <2>2, <2>3, <3>2
    <3> QED
      BY <2>2, <2>3, <3>2, <3>3, SeqEqual
  <2> QED
    BY <1>1, <1>2, <2>1, <2>2, <2>4 DEF Matching, IsPrefixOf
<1>4. /\ Best(p) \in Matching(p)
      /\ \A j \in Matching(p) : Len(mounts[j].at) <= Len(mounts[Best(p)].at)
  BY <1>3, BestIn
<1>5. PICK b : b = Best(p)
  OBVIOUS
<1>6. b \in DOMAIN mounts /\ IsPrefixOf(mounts[b].at, p)
  BY <1>4, <1>5 DEF Matching
<1>7. Within(mounts[b].at, p)
  BY <1>6 DEF Glued
<1>8. \A j \in DOMAIN mounts : Within(mounts[j].at, p) => Len(mounts[j].at) <= Len(mounts[b].at)
  BY <1>4, <1>5 DEF Within, Matching
<1>9. /\ Resolve(p).fs = mounts[b].fs
      /\ Resolve(p).rel = Stripped(After(p, mounts[b].at))
  BY <1>3, <1>5 DEF Resolve
<1>10. Resolve(p).rel # <<>> => Resolve(p).rel[1] # "/"
  <2>1. mounts[b].at \in Seq(Char)
    BY <1>6, MountPoints
  <2> QED
    BY <1>2, <1>9, <2>1, AfterName, StrippedName
<1> QED
  BY <1>6, <1>7, <1>8, <1>9, <1>10

---------------------------------------------------------------------------
(* The RAM disk's steps.                                                     *)

LEMMA KeptName ==
    ASSUME NEW name \in Seq(Char)
    PROVE  /\ Kept(name) \in Seq(Char) /\ Len(Kept(name)) <= NameMax /\ Len(name) \in Nat
           /\ Len(name) <= NameMax => Kept(name) = name
<1> DEFINE n == IF Len(name) > NameMax THEN NameMax ELSE Len(name)
<1>1. Len(name) \in Nat /\ n \in Nat /\ n <= NameMax /\ n <= Len(name)
  BY RamDiskAssumption
<1>2. Kept(name) = SubSeq(name, 1, n)
  BY DEF Kept
<1>3. Len(name) <= NameMax => n = Len(name)
  BY <1>1, RamDiskAssumption
<1> HIDE DEF n
<1>4. \A i \in 1..n : name[i] \in Char
  BY <1>1
<1>5. SubSeq(name, 1, n) \in Seq(Char) /\ Len(SubSeq(name, 1, n)) = n
  BY <1>1, <1>4, SubSeqProperties
<1> QED
  BY <1>1, <1>2, <1>3, <1>5, SubSeqFull

LEMMA SlotChosen ==
    ASSUME NEW name
    PROVE  /\ Target(name) # {} => LowestOf(Target(name)) \in Target(name)
           /\ Found(name) # {} => LowestOf(Found(name)) \in Found(name)
           /\ Target(name) \subseteq Slot /\ Found(name) \subseteq Slot
<1>1. Target(name) \subseteq Slot /\ Found(name) \subseteq Slot
  BY DEF Target, Found, FindFree, UsedSlots
<1>2. Target(name) \in SUBSET Nat /\ Found(name) \in SUBSET Nat
  BY <1>1, RamDiskAssumption
<1> QED
  BY <1>1, <1>2, LowestIn

LEMMA BlockChosen ==
    ASSUME HeapInv, NEW n, Fitting(n) # {}
    PROVE  LowestOf(Fitting(n)) \in Fitting(n)
<1>1. Fitting(n) \in SUBSET Nat
  BY DEF Fitting, Blocks, HeapInv, Tiles
<1> QED
  BY <1>1, LowestIn

LEMMA FileField ==
    ASSUME NEW f \in FileType, NEW v
    PROVE  /\ v \in Seq(Char) => [f EXCEPT !.name = v] \in FileType
           /\ v \in Nat \cup {Null} => [f EXCEPT !.data = v] \in FileType
           /\ v \in Data \cup {Empty} => [f EXCEPT !.text = v] \in FileType
           /\ v \in BOOLEAN => [f EXCEPT !.used = v] \in FileType
  BY DEF FileType

LEMMA ClearedFile ==
    ASSUME NEW f \in FileType
    PROVE  /\ Cleared(f) \in FileType /\ Cleared(f).name = f.name /\ Cleared(f).data = Null
           /\ Cleared(f).text = Empty /\ Cleared(f).used = FALSE
<1>1. /\ Cleared(f).name = f.name /\ Cleared(f).data = Null
      /\ Cleared(f).text = Empty /\ Cleared(f).used = FALSE
  BY DEF Cleared, FileType
<1>2. [f EXCEPT !.data = Null] \in FileType
  BY FileField
<1>3. [[f EXCEPT !.data = Null] EXCEPT !.text = Empty] \in FileType
  BY <1>2, FileField
<1>4. [[[f EXCEPT !.data = Null] EXCEPT !.text = Empty] EXCEPT !.used = FALSE] \in FileType
  BY <1>3, FileField
<1>5. Cleared(f) = [[[f EXCEPT !.data = Null] EXCEPT !.text = Empty] EXCEPT !.used = FALSE]
  BY DEF Cleared, FileType
<1> QED
  BY <1>1, <1>4, <1>5

(* The history of names after a call that stores v under name.               *)
LEMMA NotedNames ==
    ASSUME DiskType, NEW name \in Seq(Char), NEW v, Noted(name, v)
    PROVE  /\ DOMAIN written' = DOMAIN written \cup {name}
           /\ DOMAIN written' \subseteq Seq(Char)
           /\ written' = [n \in DOMAIN written' |-> written'[n]]
           /\ written'[name] = v
           /\ \A n \in DOMAIN written : n # name => written'[n] = written[n]
           /\ Len(name) <= NameMax => Cut' = Cut
           /\ Len(name) > NameMax => Cut' = Cut \cup {Kept(name)}
<1>1. written' = [y \in DOMAIN written \cup {name} |-> IF y = name THEN v ELSE written[y]]
  BY DEF Noted, Extended
<1>2. /\ DOMAIN written' = DOMAIN written \cup {name}
      /\ written' = [n \in DOMAIN written' |-> written'[n]]
      /\ written'[name] = v
      /\ \A n \in DOMAIN written : n # name => written'[n] = written[n]
  BY <1>1
<1>3. DOMAIN written' \subseteq Seq(Char)
  BY <1>2 DEF DiskType
<1>4. Cut' = {Kept(n) : n \in {m \in DOMAIN written' : Len(m) > NameMax}}
  BY DEF Cut, Long, Kept
<1>5. Len(name) \in Nat /\ NameMax \in Nat
  BY KeptName, RamDiskAssumption
<1>6. Len(name) <= NameMax => ~(Len(name) > NameMax)
  BY <1>5
<1>7. Len(name) <= NameMax => Cut' = Cut
  BY <1>2, <1>4, <1>6 DEF Cut, Long
<1>8. Len(name) > NameMax => Cut' = Cut \cup {Kept(name)}
  BY <1>2, <1>4 DEF Cut, Long
<1> QED
  BY <1>2, <1>3, <1>7, <1>8

---------------------------------------------------------------------------
(* Who owns the blocks.                                                      *)

(* BlocksOwned, block by block, for headers h, files f and blocks k that     *)
(* other kernel code holds.                                                  *)
OwnedBy(x, f, k) == x \in k \/ (x # Null /\ \E i \in Slot : f[i].data = x)
Owned(h, f, k) ==
    /\ \A x : x \in UsedOf(h) <=> OwnedBy(x, f, k)
    /\ \A i \in Slot : f[i].data # Null => f[i].data \notin k
    /\ \A i, j \in Slot : (i # j /\ f[i].data # Null) => f[i].data # f[j].data

LEMMA OwnedIff ==
    ASSUME NEW h, NEW f, NEW k \in SUBSET Nat
    PROVE  Owned(h, f, k) <=>
             LET buffers == {f[i].data : i \in Slot} \ {Null} IN
             /\ {a \in DOMAIN h : h[a].used} = k \cup buffers
             /\ k \cap buffers = {}
             /\ \A i, j \in Slot : (i # j /\ f[i].data # Null) => f[i].data # f[j].data
<1> DEFINE buffers == {f[i].data : i \in Slot} \ {Null}
<1>1. \A x : OwnedBy(x, f, k) <=> x \in k \cup buffers
  BY DEF OwnedBy
<1>2. (\A x : x \in UsedOf(h) <=> OwnedBy(x, f, k)) <=> ({a \in DOMAIN h : h[a].used} = k \cup buffers)
  BY <1>1 DEF UsedOf
<1>3. (\A i \in Slot : f[i].data # Null => f[i].data \notin k) <=> (k \cap buffers = {})
  OBVIOUS
<1> QED
  BY <1>2, <1>3 DEF Owned

LEMMA OwnedNow ==
    ASSUME DiskType PROVE BlocksOwned <=> Owned(hdr, files, held)
  BY OwnedIff DEF DiskType, BlocksOwned, Blocks

LEMMA OwnedNext ==
    ASSUME DiskType' PROVE BlocksOwned' <=> Owned(hdr', files', held')
<1>1. held' \in SUBSET Nat
  BY DEF DiskType
<1> QED
  BY <1>1, OwnedIff DEF BlocksOwned, Blocks

(* A step that changes no slot's data and no block keeps the owners.         *)
LEMMA SameOwners ==
    ASSUME NEW h, NEW f, NEW g, NEW k, Owned(h, f, k), \A i \in Slot : g[i].data = f[i].data
    PROVE  Owned(h, g, k)
  BY DEF Owned, OwnedBy

(* A slot without a buffer gets a fresh one.                                 *)
LEMMA SlotGets ==
    ASSUME NEW h, NEW h2, NEW f, NEW g, NEW k, Owned(h, f, k),
           NEW a \in Nat, a \notin UsedOf(h), UsedOf(h2) = UsedOf(h) \cup {a},
           NEW i \in Slot, f[i].data = Null, g[i].data = a,
           \A j \in Slot : j # i => g[j].data = f[j].data
    PROVE  Owned(h2, g, k)
<1>0. a # Null
  BY DEF Null
<1>1. \A j \in Slot : f[j].data # a
  BY <1>0 DEF Owned, OwnedBy
<1>2. a \notin k
  BY DEF Owned, OwnedBy
<1>3. ASSUME NEW x PROVE x \in UsedOf(h2) <=> OwnedBy(x, g, k)
  <2>1. CASE x = a
    BY <1>0, <2>1 DEF OwnedBy
  <2>2. CASE x # a
    <3>1. x \in UsedOf(h2) <=> OwnedBy(x, f, k)
      BY <2>2 DEF Owned
    <3>2. ASSUME x # Null PROVE (\E j \in Slot : f[j].data = x) <=> (\E j \in Slot : g[j].data = x)
      BY <2>2, <3>2
    <3> QED
      BY <3>1, <3>2 DEF OwnedBy
  <2> QED
    BY <2>1, <2>2
<1>4. \A j \in Slot : g[j].data # Null => g[j].data \notin k
  BY <1>2 DEF Owned
<1>5. \A x, y \in Slot : (x # y /\ g[x].data # Null) => g[x].data # g[y].data
  BY <1>1 DEF Owned
<1> QED
  BY <1>3, <1>4, <1>5 DEF Owned

(* A slot loses its buffer.                                                  *)
LEMMA SlotLoses ==
    ASSUME NEW h, NEW h2, NEW f, NEW g, NEW k, Owned(h, f, k),
           NEW i \in Slot, f[i].data # Null, g[i].data = Null,
           UsedOf(h2) = UsedOf(h) \ {f[i].data},
           \A j \in Slot : j # i => g[j].data = f[j].data
    PROVE  Owned(h2, g, k)
<1> DEFINE a == f[i].data
<1>1. a \notin k /\ \A j \in Slot : j # i => f[j].data # a
  BY DEF Owned
<1>3. ASSUME NEW x PROVE x \in UsedOf(h2) <=> OwnedBy(x, g, k)
  <2>1. CASE x = a
    BY <1>1, <2>1 DEF OwnedBy
  <2>2. CASE x # a
    <3>1. x \in UsedOf(h2) <=> OwnedBy(x, f, k)
      BY <2>2 DEF Owned
    <3>2. ASSUME x # Null PROVE (\E j \in Slot : f[j].data = x) <=> (\E j \in Slot : g[j].data = x)
      BY <2>2, <3>2
    <3> QED
      BY <3>1, <3>2 DEF OwnedBy
  <2> QED
    BY <2>1, <2>2
<1>4. \A j \in Slot : g[j].data # Null => g[j].data \notin k
  BY DEF Owned
<1>5. \A x, y \in Slot : (x # y /\ g[x].data # Null) => g[x].data # g[y].data
  BY DEF Owned
<1> QED
  BY <1>3, <1>4, <1>5 DEF Owned

(* Other kernel code gets or gives back a block.                             *)
LEMMA HeldGets ==
    ASSUME NEW h, NEW h2, NEW f, NEW k, Owned(h, f, k),
           NEW a \in Nat, a \notin UsedOf(h), UsedOf(h2) = UsedOf(h) \cup {a}
    PROVE  Owned(h2, f, k \cup {a})
<1>0. a # Null
  BY DEF Null
<1>1. \A j \in Slot : f[j].data # a
  BY <1>0 DEF Owned, OwnedBy
<1>2. \A x : x \in UsedOf(h2) <=> OwnedBy(x, f, k \cup {a})
  BY DEF Owned, OwnedBy
<1> QED
  BY <1>1, <1>2 DEF Owned

LEMMA HeldLoses ==
    ASSUME NEW h, NEW h2, NEW f, NEW k, Owned(h, f, k),
           NEW a \in k, UsedOf(h2) = UsedOf(h) \ {a}
    PROVE  Owned(h2, f, k \ {a})
<1>1. \A j \in Slot : f[j].data # Null => f[j].data # a
  BY DEF Owned
<1>2. \A x : x \in UsedOf(h2) <=> OwnedBy(x, f, k \ {a})
  BY <1>1 DEF Owned, OwnedBy
<1> QED
  BY <1>2 DEF Owned

(* What a call of the RAM disk leaves: the types and the owners.             *)
LEMMA StoredType ==
    ASSUME DiskType, NEW i \in Slot, NEW name \in Seq(Char), NEW p \in Nat \cup {Null},
           NEW text \in Data \cup {Empty}, Stored(i, name, p, text)
    PROVE  /\ files' \in [Slot -> FileType]
           /\ files'[i].name = Kept(name) /\ files'[i].data = p
           /\ files'[i].text = text /\ files'[i].used = TRUE
           /\ \A j \in Slot : j # i => files'[j] = files[j]
<1> DEFINE r == [name |-> Kept(name), data |-> p, text |-> text, used |-> TRUE]
<1>1. r \in FileType /\ r.name = Kept(name) /\ r.data = p /\ r.text = text /\ r.used = TRUE
  BY KeptName DEF FileType
<1>2. files' = [files EXCEPT ![i] = r] /\ files \in [Slot -> FileType]
  BY DEF Stored, DiskType
<1> HIDE DEF r
<1> QED
  BY <1>1, <1>2

LEMMA CreateKeeps ==
    ASSUME StorageInv, NEW name \in Seq(Char), NEW text \in Data \cup {Empty},
           Create(name, text), held' = held
    PROVE  StorageInv'
<1> DEFINE i == LowestOf(Target(name))
<1>0. HeapInv /\ DiskType /\ Owned(hdr, files, held) /\ held' = held /\ held \subseteq Nat
  BY OwnedNow DEF StorageInv, DiskType
<1>1. Target(name) # {}
  BY DEF Create, CreateNoBuffer, CreateBuffer, CreateFails
<1>2. i \in Slot
  BY <1>1, SlotChosen
<1>3. files[i] \in FileType /\ files[i].data \in Nat \cup {Null}
  BY <1>0, <1>2 DEF DiskType, FileType
<1>4. CASE CreateNoBuffer(name, text)
  <2>1. Stored(i, name, files[i].data, text) /\ Noted(name, text) /\ hdr' = hdr
    BY <1>4 DEF CreateNoBuffer
  <2> HIDE DEF i
  <2>2. /\ files' \in [Slot -> FileType] /\ files'[i].data = files[i].data
        /\ \A j \in Slot : j # i => files'[j] = files[j]
    BY <1>0, <1>2, <1>3, <2>1, StoredType
  <2>3. DiskType'
    BY <1>0, <2>1, <2>2, NotedNames DEF DiskType
  <2>4. Owned(hdr', files', held')
    BY <1>0, <2>1, <2>2, SameOwners
  <2>5. HeapInv'
    BY <1>0, <2>1 DEF HeapInv
  <2> QED
    BY <2>3, <2>4, <2>5, OwnedNext DEF StorageInv
<1>5. CASE CreateBuffer(name, text)
  <2> DEFINE a == LowestOf(Fitting(FileUnits))
  <2>1. /\ files[i].data = Null /\ Fitting(FileUnits) # {} /\ hdr' = Taken(a, FileUnits)
        /\ Stored(i, name, a, text) /\ Noted(name, text)
    BY <1>5 DEF CreateBuffer
  <2>2. a \in Fitting(FileUnits)
    BY <1>0, <2>1, BlockChosen
  <2> HIDE DEF i, a
  <2>3. /\ Tiles(hdr') /\ Merged(hdr', {}, {}) /\ UsedOf(hdr') = UsedOf(hdr) \cup {a}
        /\ a \in Nat /\ a \notin UsedOf(hdr)
    BY <1>0, <2>1, <2>2, TakenTiles, RamDiskAssumption
  <2>4. /\ files' \in [Slot -> FileType] /\ files'[i].data = a
        /\ \A j \in Slot : j # i => files'[j] = files[j]
    BY <1>0, <1>2, <2>1, <2>3, StoredType
  <2>5. DiskType'
    BY <1>0, <2>1, <2>4, NotedNames DEF DiskType
  <2>6. Owned(hdr', files', held')
    BY <1>0, <1>2, <2>1, <2>3, <2>4, SlotGets
  <2>7. HeapInv'
    BY <2>3 DEF HeapInv
  <2> QED
    BY <2>5, <2>6, <2>7, OwnedNext DEF StorageInv
<1>6. CASE CreateFails(name, text)
  <2>1. files' = [files EXCEPT ![i].name = Kept(name)] /\ hdr' = hdr /\ written' = written
    BY <1>6 DEF CreateFails
  <2> HIDE DEF i
  <2> DEFINE r == [files[i] EXCEPT !.name = Kept(name)]
  <2>2. r \in FileType /\ r.data = files[i].data
    BY <1>3, KeptName, FileField DEF FileType
  <2>3. files' = [files EXCEPT ![i] = r] /\ files \in [Slot -> FileType]
    BY <1>0, <2>1 DEF DiskType
  <2> HIDE DEF r
  <2>4. files' \in [Slot -> FileType] /\ \A j \in Slot : files'[j].data = files[j].data
    BY <1>2, <2>2, <2>3
  <2>5. DiskType'
    BY <1>0, <2>1, <2>4 DEF DiskType
  <2>6. Owned(hdr', files', held')
    BY <1>0, <2>1, <2>4, SameOwners
  <2>7. HeapInv'
    BY <1>0, <2>1 DEF HeapInv
  <2> QED
    BY <2>5, <2>6, <2>7, OwnedNext DEF StorageInv
<1> QED
  BY <1>4, <1>5, <1>6 DEF Create

LEMMA RemovedFile ==
    ASSUME DiskType, NEW name, Remove(name)
    PROVE  LET i == LowestOf(Found(name)) IN
           /\ i \in Found(name) /\ files' \in [Slot -> FileType]
           /\ files'[i].name = files[i].name /\ files'[i].data = Null
           /\ files'[i].text = Empty /\ files'[i].used = FALSE
           /\ \A j \in Slot : j # i => files'[j] = files[j]
           /\ hdr' = IF files[i].data = Null THEN hdr ELSE Released(files[i].data)
<1> DEFINE i == LowestOf(Found(name))
<1>1. i \in Found(name) /\ i \in Slot
  BY SlotChosen DEF Remove
<1>2. /\ files' = [files EXCEPT ![i] = Cleared(files[i])]
      /\ hdr' = IF files[i].data = Null THEN hdr ELSE Released(files[i].data)
  BY DEF Remove
<1> HIDE DEF i
<1>3. files \in [Slot -> FileType] /\ files[i] \in FileType
  BY <1>1 DEF DiskType
<1>4. PICK r : r = Cleared(files[i])
  OBVIOUS
<1>5. /\ r \in FileType /\ r.name = files[i].name /\ r.data = Null
      /\ r.text = Empty /\ r.used = FALSE
  BY <1>3, <1>4, ClearedFile
<1>6. files' = [files EXCEPT ![i] = r]
  BY <1>2, <1>4
<1>7. files' \in [Slot -> FileType] /\ files'[i] = r /\ \A j \in Slot : j # i => files'[j] = files[j]
  BY <1>1, <1>3, <1>5, <1>6
<1> QED
  BY <1>1, <1>2, <1>5, <1>7 DEF i

LEMMA RemoveKeeps ==
    ASSUME StorageInv, NEW name \in Seq(Char), Remove(name), held' = held
    PROVE  StorageInv'
<1> DEFINE i == LowestOf(Found(name))
<1>0. HeapInv /\ DiskType /\ Owned(hdr, files, held) /\ held' = held /\ held \subseteq Nat
  BY OwnedNow DEF StorageInv, DiskType
<1>1. /\ i \in Found(name) /\ files' \in [Slot -> FileType] /\ files'[i].data = Null
      /\ \A j \in Slot : j # i => files'[j] = files[j]
      /\ hdr' = IF files[i].data = Null THEN hdr ELSE Released(files[i].data)
  BY <1>0, RemovedFile
<1>2. i \in Slot
  BY <1>1, SlotChosen
<1>3. Noted(name, Null)
  BY DEF Remove
<1> HIDE DEF i
<1>4. DiskType'
  BY <1>0, <1>1, <1>3, NotedNames DEF DiskType
<1>5. CASE files[i].data = Null
  <2>1. hdr' = hdr
    BY <1>1, <1>5
  <2>2. Owned(hdr', files', held')
    BY <1>0, <1>1, <1>5, <2>1, SameOwners
  <2> QED
    BY <1>0, <1>4, <2>1, <2>2, OwnedNext DEF StorageInv, HeapInv
<1>6. CASE files[i].data # Null
  <2>1. hdr' = Released(files[i].data)
    BY <1>1, <1>6
  <2>2. files[i].data \in UsedOf(hdr)
    BY <1>0, <1>2, <1>6 DEF Owned, OwnedBy
  <2>3. /\ Tiles(hdr') /\ Merged(hdr', {}, {}) /\ UsedOf(hdr') = UsedOf(hdr) \ {files[i].data}
    BY <1>0, <2>1, <2>2, ReleasedTiles
  <2>4. Owned(hdr', files', held')
    BY <1>0, <1>1, <1>2, <1>6, <2>3, SlotLoses
  <2> QED
    BY <1>4, <2>3, <2>4, OwnedNext DEF StorageInv, HeapInv
<1> QED
  BY <1>5, <1>6

LEMMA OthersKeep ==
    ASSUME StorageInv, UNCHANGED rdVars
    PROVE  /\ \A n \in Requests : Kmalloc(n) => StorageInv'
           /\ \A a \in held : Kfree(a) => StorageInv'
           /\ UNCHANGED <<hdr, held>> => StorageInv'
<1>0. /\ HeapInv /\ DiskType /\ Owned(hdr, files, held) /\ held \subseteq Nat
      /\ files' = files /\ written' = written
  BY OwnedNow DEF StorageInv, DiskType, rdVars
<1>1. ASSUME NEW n \in Requests, Kmalloc(n) PROVE StorageInv'
  <2> DEFINE a == LowestOf(Fitting(n))
  <2>1. Fitting(n) # {} /\ hdr' = Taken(a, n) /\ held' = held \cup {a} /\ n \in Nat
    BY <1>1, VfsAssumption DEF Kmalloc
  <2>2. a \in Fitting(n)
    BY <1>0, <2>1, BlockChosen
  <2> HIDE DEF a
  <2>3. /\ Tiles(hdr') /\ Merged(hdr', {}, {}) /\ UsedOf(hdr') = UsedOf(hdr) \cup {a}
        /\ a \in Nat /\ a \notin UsedOf(hdr)
    BY <1>0, <2>1, <2>2, TakenTiles
  <2>4. Owned(hdr', files', held')
    BY <1>0, <2>1, <2>3, HeldGets
  <2>5. DiskType'
    BY <1>0, <2>1, <2>3 DEF DiskType
  <2> QED
    BY <2>3, <2>4, <2>5, OwnedNext DEF StorageInv, HeapInv
<1>2. ASSUME NEW a \in held, Kfree(a) PROVE StorageInv'
  <2>1. hdr' = Released(a) /\ held' = held \ {a}
    BY <1>2 DEF Kfree
  <2>2. a \in UsedOf(hdr)
    BY <1>0 DEF Owned, OwnedBy
  <2>3. /\ Tiles(hdr') /\ Merged(hdr', {}, {}) /\ UsedOf(hdr') = UsedOf(hdr) \ {a}
    BY <1>0, <2>1, <2>2, ReleasedTiles
  <2>4. Owned(hdr', files', held')
    BY <1>0, <2>1, <2>3, HeldLoses
  <2>5. DiskType'
    BY <1>0, <2>1 DEF DiskType
  <2> QED
    BY <2>3, <2>4, <2>5, OwnedNext DEF StorageInv, HeapInv
<1>3. ASSUME UNCHANGED <<hdr, held>> PROVE StorageInv'
  BY <1>0, <1>3 DEF StorageInv, HeapInv, DiskType, BlocksOwned, Blocks
<1> QED
  BY <1>1, <1>2, <1>3

(* Every step of the system, as the heap and the RAM disk see it.            *)
LEMMA StorageSteps ==
    ASSUME MountInv, [VfsNext]_vfsVars
    PROVE  \/ /\ UNCHANGED rdVars
              /\ \/ \E n \in Requests : Kmalloc(n)
                 \/ \E a \in held : Kfree(a)
                 \/ UNCHANGED <<hdr, held>>
           \/ /\ held' = held
              /\ \E name \in Seq(Char) : \/ Remove(name)
                                         \/ \E text \in Data \cup {Empty} : Create(name, text)
<1>1. CASE Mount \/ SkipExt2 \/ UNCHANGED vfsVars
  BY <1>1 DEF Mount, SkipExt2, vfsVars, rdVars
<1>2. CASE \E n \in Requests : Kmalloc(n)
  BY <1>2 DEF Kmalloc
<1>3. CASE \E a \in held : Kfree(a)
  BY <1>3 DEF Kfree
<1>4. ASSUME NEW p \in Paths, Unlink(p)
      PROVE  \/ UNCHANGED rdVars /\ UNCHANGED <<hdr, held>>
             \/ held' = held /\ \E name \in Seq(Char) : Remove(name)
  BY <1>4, ResolvedName DEF Unlink
<1>5. ASSUME NEW p \in Paths, NEW text \in Data \cup {Empty}, Write(p, text)
      PROVE  \/ UNCHANGED rdVars /\ UNCHANGED <<hdr, held>>
             \/ held' = held /\ \E name \in Seq(Char) : Create(name, text)
  BY <1>5, ResolvedName DEF Write
<1>6. ASSUME NEW p \in Paths, RdRemove(p)
      PROVE  held' = held /\ \E name \in Seq(Char) : Remove(name)
  BY <1>6, DirectName DEF RdRemove
<1>7. ASSUME NEW p \in Paths, NEW text \in Data \cup {Empty}, RdCreate(p, text)
      PROVE  held' = held /\ \E name \in Seq(Char) : Create(name, text)
  BY <1>7, DirectName DEF RdCreate
<1>8. \/ Mount \/ SkipExt2 \/ UNCHANGED vfsVars
      \/ \E n \in Requests : Kmalloc(n)
      \/ \E a \in held : Kfree(a)
      \/ \E p \in Paths : \/ Unlink(p) \/ RdRemove(p)
                          \/ \E text \in Data \cup {Empty} : Write(p, text) \/ RdCreate(p, text)
  BY DEF VfsNext
<1> QED
  BY <1>1, <1>2, <1>3, <1>4, <1>5, <1>6, <1>7, <1>8, Zenon

LEMMA MountStart == VfsInit => MountInv
<1> SUFFICES ASSUME VfsInit PROVE MountInv
  OBVIOUS
<1> DEFINE r == [at |-> Root, fs |-> "fat"]
           e == [at |-> Ext, fs |-> "ext2"]
           t == [at |-> Tmp, fs |-> "ramdisk"]
<1>1. mounts = <<>> /\ booting = <<r, e, t>>
  BY DEF VfsInit
<1>2. r \in Points /\ e \in Points /\ t \in Points /\ r.at = Root
  BY DEF Points
<1> HIDE DEF r, e, t, Points
<1>3. <<r, e, t>> \in Seq(Points) /\ <<r, e, t>>[1] = r /\ <<r, e, t>> # <<>>
  BY <1>2
<1> QED
  BY <1>1, <1>2, <1>3 DEF MountInv

LEMMA StorageStart == VfsInit => StorageInv
<1> SUFFICES ASSUME VfsInit PROVE StorageInv
  OBVIOUS
<1> DEFINE r == [size |-> HeapSize, next |-> Null, prev |-> Null, used |-> FALSE]
           f == [name |-> <<>>, data |-> Null, text |-> Empty, used |-> FALSE]
<1>1. /\ hdr = [a \in {Base} |-> r] /\ files = [i \in Slot |-> f]
      /\ written = [n \in {} |-> Null] /\ held = {}
  BY DEF VfsInit, HeapInit, RamDiskInit
<1>2. r \in Header /\ r.size = HeapSize /\ r.next = Null /\ r.prev = Null /\ r.used = FALSE
  BY HeapAssumption DEF Header
<1>3. f \in FileType /\ f.data = Null
  BY DEF FileType
<1> HIDE DEF r, f
<1>4. DOMAIN hdr = {Base} /\ hdr[Base] = r
  BY <1>1
<1>5. hdr \in [DOMAIN hdr -> Header]
  BY <1>1, <1>2
<1>6. Base + HeapSize = HeapSize /\ Base \in Nat
  BY HeapAssumption DEF Base
<1>7. HeapInv
  BY <1>2, <1>4, <1>5, <1>6 DEF HeapInv, Tiles, Merged
<1>8. DiskType
  BY <1>1, <1>3 DEF DiskType
<1>9. Owned(hdr, files, held)
  <2>1. UsedOf(hdr) = {}
    BY <1>2, <1>4 DEF UsedOf
  <2>2. \A i \in Slot : files[i].data = Null
    BY <1>1, <1>3
  <2> QED
    BY <1>1, <2>1, <2>2 DEF Owned, OwnedBy
<1> QED
  BY <1>7, <1>8, <1>9, OwnedNow DEF StorageInv

LEMMA StorageAlways == VfsSpec => [](MountInv /\ StorageInv)
<1>1. VfsInit => MountInv /\ StorageInv
  BY MountStart, StorageStart
<1>2. MountInv /\ StorageInv /\ [VfsNext]_vfsVars => (MountInv /\ StorageInv)'
  <2> SUFFICES ASSUME MountInv, StorageInv, [VfsNext]_vfsVars PROVE StorageInv'
    BY MountSteps
  <2>1. CASE UNCHANGED rdVars
    BY <2>1, StorageSteps, OthersKeep, CreateKeeps, RemoveKeeps
  <2>2. CASE held' = held /\ \E name \in Seq(Char) :
                \/ Remove(name)
                \/ \E text \in Data \cup {Empty} : Create(name, text)
    BY <2>2, CreateKeeps, RemoveKeeps
  <2> QED
    BY <2>1, <2>2, StorageSteps
<1> QED
  BY <1>1, <1>2, PTL DEF VfsSpec

(* Path resolution (vfs_resolve) agrees with the reference that compares     *)
(* whole components, for every path, but for paths that continue a mount     *)
(* point's last component.                                                   *)
THEOREM ResolutionIsDeepest == VfsSpec => []ResolvesByComponent
<1>1. MountInv => ResolvesByComponent
  BY MountsResolve
<1> QED
  BY <1>1, MountStart, MountSteps, PTL DEF VfsSpec

(* The kernel heap's list always tiles the heap, with next and prev inverse  *)
(* and no two free blocks side by side, whatever is allocated and freed by   *)
(* kmalloc and kfree (lib/heap.cpp) and in whatever order.                   *)
THEOREM HeapAlwaysTiled == VfsSpec => []HeapTiled
<1>1. StorageInv => HeapTiled
  <2> SUFFICES ASSUME HeapInv PROVE HeapTiled
    BY DEF StorageInv
  <2>1. Tiles(hdr) /\ Merged(hdr, {}, {})
    BY DEF HeapInv
  <2> QED
    BY <2>1 DEF HeapTiled, Blocks, Tiles, Merged
<1> QED
  BY <1>1, StorageAlways, PTL

(* Every block kmalloc has given out has one owner, a RAM disk slot or other *)
(* kernel code, and is still given out: the RAM disk (fs/ramdisk.cpp) never  *)
(* leaks a buffer, shares one or keeps one it has freed.                     *)
THEOREM BlocksAlwaysOwned == VfsSpec => []BlocksOwned
<1>1. StorageInv => BlocksOwned
  BY DEF StorageInv
<1> QED
  BY <1>1, StorageAlways, PTL

---------------------------------------------------------------------------
(* What the RAM disk reads back.                                             *)

LEMMA NamesUnchanged ==
    ASSUME NamesInv, DiskType, written' = written,
           \A i \in Slot : /\ files'[i].used = files[i].used /\ Len(files'[i].name) <= NameMax
                           /\ files[i].used => files'[i] = files[i]
    PROVE  NamesInv'
<1>1. Cut' = Cut
  BY DEF Cut, Long, Kept
<1>2. \A n : Found(n)' = Found(n)
  BY DEF Found, UsedSlots, Matches
<1> QED
  BY <1>1, <1>2 DEF NamesInv

(* What NamesInv says of the state before a call.                            *)
LEMMA OneSlotAName ==
    ASSUME NamesInv, DiskType, NEW name \in Seq(Char), Len(name) <= NameMax, name \notin Cut
    PROVE  \A i, j \in Slot : files[i].used /\ files[j].used /\ files[i].name = name
                              /\ files[j].name = name => i = j
  BY DEF NamesInv

(* A call of create that stores text in slot i.                              *)
LEMMA NamesCreated ==
    ASSUME DiskType, NamesInv, NEW name \in Seq(Char), NEW text \in Data \cup {Empty},
           NEW i \in Target(name), NEW p \in Nat \cup {Null}, p = Null => text = Empty,
           Stored(i, name, p, text), Noted(name, text)
    PROVE  NamesInv'
<1> DEFINE k == Kept(name)
<1>0. i \in Slot /\ NameMax \in Nat
  BY SlotChosen, RamDiskAssumption
<1>1. /\ files'[i].name = k /\ files'[i].data = p /\ files'[i].text = text /\ files'[i].used = TRUE
      /\ \A j \in Slot : j # i => files'[j] = files[j]
  BY <1>0, StoredType
<1>2. /\ DOMAIN written' = DOMAIN written \cup {name} /\ written'[name] = text
      /\ \A n \in DOMAIN written : n # name => written'[n] = written[n]
      /\ Len(name) <= NameMax => Cut' = Cut
      /\ Len(name) > NameMax => Cut' = Cut \cup {k}
  BY NotedNames
<1>3. /\ k \in Seq(Char) /\ Len(k) <= NameMax /\ Len(name) \in Nat
      /\ Len(name) <= NameMax => k = name
  BY KeptName
<1>4. Cut \subseteq Cut'
  BY <1>0, <1>2, <1>3
<1>5. k \notin Cut' => Len(name) <= NameMax /\ k = name
  BY <1>0, <1>2, <1>3
<1> HIDE DEF k
<1>6. \A j \in Slot : files[j].used /\ Len(name) <= NameMax /\ files[j].name = name => j \in Found(name)
  BY DEF Found, UsedSlots, Matches
<1>7. files[i].used => i \in Found(name) /\ files[i].name = name /\ Len(name) <= NameMax
  BY DEF Target, Found, FindFree, UsedSlots, Matches
(* A used slot of the name, when the name is not cut, is the slot written.   *)
<1>8. \A j \in Slot : files[j].used /\ files[j].name = k /\ k \notin Cut' => j = i
  <2> SUFFICES ASSUME NEW j \in Slot, files[j].used, files[j].name = k, k \notin Cut' PROVE j = i
    OBVIOUS
  <2>1. Len(name) <= NameMax /\ k = name /\ name \notin Cut
    BY <1>4, <1>5
  <2>2. j \in Found(name)
    BY <1>6, <2>1
  <2>3. i \in Found(name)
    BY <2>2 DEF Target
  <2>4. files[i].used /\ files[i].name = name
    BY <2>3 DEF Found, UsedSlots, Matches
  <2> QED
    BY <1>0, <2>1, <2>4, OneSlotAName
<1>9. ASSUME NEW x \in Slot, NEW y \in Slot, files'[x].used, files'[y].used,
             files'[x].name = files'[y].name, files'[x].name \notin Cut'
      PROVE  x = y
  <2>1. CASE x = i
    BY <1>1, <1>8, <1>9, <2>1
  <2>2. CASE y = i
    BY <1>1, <1>8, <1>9, <2>2
  <2>3. CASE x # i /\ y # i
    BY <1>1, <1>4, <1>9, <2>3 DEF NamesInv
  <2> QED
    BY <2>1, <2>2, <2>3
<1>10. ASSUME NEW x \in Slot, files'[x].used, files'[x].name \notin Cut'
       PROVE  files'[x].name \in DOMAIN written' /\ written'[files'[x].name] = files'[x].text
  <2>1. CASE x = i
    BY <1>1, <1>2, <1>5, <1>10, <2>1
  <2>2. CASE x # i
    <3>1. /\ files[x].used /\ files[x].name \notin Cut /\ files'[x] = files[x]
          /\ files[x].name \in DOMAIN written /\ written[files[x].name] = files[x].text
      BY <1>1, <1>4, <1>10, <2>2 DEF NamesInv
    <3>2. files[x].name # name
      <4> SUFFICES ASSUME files[x].name = name PROVE FALSE
        OBVIOUS
      <4>1. Len(name) <= NameMax
        BY DEF NamesInv
      <4> QED
        BY <1>3, <1>8, <1>10, <2>2, <3>1, <4>1
    <3> QED
      BY <1>2, <3>1, <3>2
  <2> QED
    BY <2>1, <2>2
<1>11. ASSUME NEW n \in DOMAIN written', Len(n) <= NameMax, n \notin Cut', Found(n)' = {}
       PROVE  written'[n] = Null
  <2>0. \A j \in Slot : ~(files'[j].used /\ files'[j].name = n)
    BY <1>11 DEF Found, UsedSlots, Matches
  <2>1. n # name
    <3> SUFFICES ASSUME n = name PROVE FALSE
      OBVIOUS
    <3>1. files'[i].used /\ files'[i].name = n
      BY <1>1, <1>3, <1>11
    <3> QED
      BY <1>0, <2>0, <3>1
  <2>2. n \in DOMAIN written /\ written'[n] = written[n] /\ n \notin Cut
    BY <1>2, <1>4, <1>11, <2>1
  <2>3. Found(n) = {}
    <3> SUFFICES ASSUME NEW j \in Slot, files[j].used, files[j].name = n PROVE FALSE
      BY DEF Found, UsedSlots, Matches
    <3>1. j # i
      BY <1>7, <2>1
    <3> QED
      BY <1>1, <2>0, <3>1
  <2> QED
    BY <1>11, <2>2, <2>3 DEF NamesInv
<1>12. \A x \in Slot : /\ Len(files'[x].name) <= NameMax
                       /\ files'[x].used /\ files'[x].data = Null => files'[x].text = Empty
  BY <1>1, <1>3 DEF NamesInv
<1> QED
  BY <1>9, <1>10, <1>11, <1>12 DEF NamesInv

LEMMA CreateNames ==
    ASSUME StorageInv, NamesInv, NEW name \in Seq(Char), NEW text \in Data \cup {Empty},
           Create(name, text)
    PROVE  NamesInv'
<1> DEFINE i == LowestOf(Target(name))
<1>0. HeapInv /\ DiskType
  BY DEF StorageInv
<1>1. Target(name) # {}
  BY DEF Create, CreateNoBuffer, CreateBuffer, CreateFails
<1>2. i \in Target(name) /\ i \in Slot
  BY <1>1, SlotChosen
<1>3. files[i] \in FileType /\ files[i].data \in Nat \cup {Null}
  BY <1>0, <1>2 DEF DiskType, FileType
<1>4. CASE CreateNoBuffer(name, text)
  <2>1. /\ Stored(i, name, files[i].data, text) /\ Noted(name, text)
        /\ files[i].data = Null => text = Empty
    BY <1>4 DEF CreateNoBuffer
  <2> HIDE DEF i
  <2> QED
    BY <1>0, <1>2, <1>3, <2>1, NamesCreated
<1>5. CASE CreateBuffer(name, text)
  <2> DEFINE a == LowestOf(Fitting(FileUnits))
  <2>1. Fitting(FileUnits) # {} /\ Stored(i, name, a, text) /\ Noted(name, text)
    BY <1>5 DEF CreateBuffer
  <2>2. a \in Nat
    BY <1>0, <2>1, BlockChosen DEF Fitting, Blocks, HeapInv, Tiles
  <2>3. a # Null
    BY <2>2 DEF Null
  <2> HIDE DEF i, a
  <2> QED
    BY <1>0, <1>2, <2>1, <2>2, <2>3, NamesCreated
<1>6. CASE CreateFails(name, text)
  <2>1. files' = [files EXCEPT ![i].name = Kept(name)] /\ written' = written
    BY <1>6 DEF CreateFails
  <2> HIDE DEF i
  <2>2. /\ files \in [Slot -> FileType] /\ \A j \in Slot : j # i => files'[j] = files[j]
        /\ files'[i] = [files[i] EXCEPT !.name = Kept(name)]
    BY <1>0, <1>2, <2>1 DEF DiskType
  <2>3. files'[i].used = files[i].used /\ files'[i].name = Kept(name)
    BY <1>3, <2>2 DEF FileType
  <2>4. files[i].used => files'[i] = files[i]
    <3> SUFFICES ASSUME files[i].used PROVE files'[i] = files[i]
      OBVIOUS
    <3>1. files[i].name = name /\ Len(name) <= NameMax
      BY <1>2 DEF Target, Found, FindFree, UsedSlots, Matches
    <3>2. files'[i] = [files[i] EXCEPT !.name = files[i].name]
      BY <2>2, <3>1, KeptName
    <3> QED
      BY <1>3, <3>2 DEF FileType
  <2>5. \A j \in Slot : Len(files[j].name) <= NameMax
    BY DEF NamesInv
  <2> QED
    BY <1>0, <2>1, <2>2, <2>3, <2>4, <2>5, KeptName, NamesUnchanged
<1> QED
  BY <1>4, <1>5, <1>6 DEF Create

LEMMA RemoveNames ==
    ASSUME StorageInv, NamesInv, NEW name \in Seq(Char), Remove(name)
    PROVE  NamesInv'
<1> DEFINE i == LowestOf(Found(name))
<1>0. DiskType
  BY DEF StorageInv
<1>1. /\ i \in Found(name) /\ files'[i].name = files[i].name /\ files'[i].used = FALSE
      /\ files'[i].data = Null /\ files'[i].text = Empty
      /\ \A j \in Slot : j # i => files'[j] = files[j]
  BY <1>0, RemovedFile
<1> HIDE DEF i
<1>2. i \in Slot /\ files[i].used /\ files[i].name = name /\ Len(name) <= NameMax
  BY <1>1 DEF Found, UsedSlots, Matches
<1>3. /\ DOMAIN written' = DOMAIN written \cup {name} /\ written'[name] = Null
      /\ \A n \in DOMAIN written : n # name => written'[n] = written[n]
      /\ Cut' = Cut
  BY <1>0, <1>2, NotedNames DEF Remove
<1>4. ASSUME NEW x \in Slot, files'[x].used, files'[x].name \notin Cut'
      PROVE  files'[x].name \in DOMAIN written' /\ written'[files'[x].name] = files'[x].text
  <2>1. x # i /\ files'[x] = files[x]
    BY <1>1, <1>4
  <2>2. files[x].name # name
    BY <1>0, <1>2, <1>3, <1>4, <2>1, OneSlotAName
  <2> QED
    BY <1>3, <1>4, <2>1, <2>2 DEF NamesInv
<1>5. ASSUME NEW n \in DOMAIN written', Len(n) <= NameMax, n \notin Cut', Found(n)' = {}
      PROVE  written'[n] = Null
  <2>1. CASE n = name
    BY <1>3, <2>1
  <2>2. CASE n # name
    <3>0. \A j \in Slot : ~(files'[j].used /\ files'[j].name = n)
      BY <1>5 DEF Found, UsedSlots, Matches
    <3>1. Found(n) = {}
      BY <1>1, <1>2, <2>2, <3>0 DEF Found, UsedSlots, Matches
    <3> QED
      BY <1>3, <1>5, <2>2, <3>1 DEF NamesInv
  <2> QED
    BY <2>1, <2>2
<1>6. ASSUME NEW x \in Slot, NEW y \in Slot, files'[x].used, files'[y].used,
             files'[x].name = files'[y].name, files'[x].name \notin Cut'
      PROVE  x = y
  BY <1>1, <1>3, <1>6 DEF NamesInv
<1>7. \A x \in Slot : /\ Len(files'[x].name) <= NameMax
                      /\ files'[x].used /\ files'[x].data = Null => files'[x].text = Empty
  BY <1>1, <1>2 DEF NamesInv
<1> QED
  BY <1>4, <1>5, <1>6, <1>7 DEF NamesInv

LEMMA NamesStart == VfsInit => NamesInv
<1> SUFFICES ASSUME VfsInit PROVE NamesInv
  OBVIOUS
<1> DEFINE f == [name |-> <<>>, data |-> Null, text |-> Empty, used |-> FALSE]
<1>1. files = [i \in Slot |-> f] /\ DOMAIN written = {}
  BY DEF VfsInit, RamDiskInit
<1>2. f.used = FALSE /\ f.name = <<>>
  OBVIOUS
<1>3. Len(<<>>) <= NameMax
  BY RamDiskAssumption
<1> HIDE DEF f
<1> QED
  BY <1>1, <1>2, <1>3 DEF NamesInv

(* A file of the RAM disk reads back what was stored under its name last,    *)
(* and is absent after it was removed, for every order of calls and every    *)
(* allocation that fails, unless a longer name was cut to it.                *)
THEOREM RamDiskReadsBack == VfsSpec => []ReadsBack
<1>1. NamesInv /\ MountInv /\ StorageInv /\ [VfsNext]_vfsVars => NamesInv'
  <2> SUFFICES ASSUME NamesInv, MountInv, StorageInv, [VfsNext]_vfsVars PROVE NamesInv'
    OBVIOUS
  <2>1. CASE UNCHANGED rdVars
    BY <2>1 DEF rdVars, NamesInv, Cut, Long, Kept, Found, UsedSlots, Matches
  <2>2. CASE \E name \in Seq(Char) : \/ Remove(name)
                                     \/ \E text \in Data \cup {Empty} : Create(name, text)
    BY <2>2, CreateNames, RemoveNames
  <2> QED
    BY <2>1, <2>2, StorageSteps
<1>2. NamesInv /\ StorageInv => ReadsBack
  <2> SUFFICES ASSUME NamesInv, DiskType, NEW n \in DOMAIN written, Len(n) <= NameMax, n \notin Cut
               PROVE  Read(n) = written[n]
    BY DEF StorageInv, ReadsBack
  <2>1. CASE Found(n) = {}
    BY <2>1 DEF NamesInv, Read
  <2>2. CASE Found(n) # {}
    <3>1. PICK i : i = LowestOf(Found(n)) /\ i \in Found(n)
      BY <2>2, SlotChosen
    <3>2. i \in Slot /\ files[i].used /\ files[i].name = n
      BY <3>1 DEF Found, UsedSlots, Matches
    <3>3. written[n] = files[i].text /\ (files[i].data = Null => files[i].text = Empty)
      BY <3>2 DEF NamesInv
    <3>4. Read(n) = IF files[i].data = Null THEN Empty ELSE files[i].text
      BY <2>2, <3>1 DEF Read
    <3> QED
      BY <3>3, <3>4
  <2> QED
    BY <2>1, <2>2
<1> QED
  BY <1>1, <1>2, NamesStart, StorageAlways, PTL DEF VfsSpec
=============================================================================
