----------------------------- MODULE BlockCache -----------------------------
(***************************************************************************)
(* The block cache of drivers/bcache.cpp over the PIO disk of              *)
(* drivers/ata.cpp, with everybody who touches the disk: the file systems  *)
(* (bc_read, bc_write), the raw sector system calls of user-space drivers  *)
(* (SYS_DISK_READ, SYS_DISK_WRITE) and the DISK commands of the kernel     *)
(* shell.                                                                  *)
(*                                                                         *)
(* A call is a loop over sectors; `job` is the loop's state and one step   *)
(* is one sector.  The kernel is not preempted inside a call, so only the  *)
(* job's owner runs until it ends.  No code sets the dirty flag of an      *)
(* entry, so every entry is clean, bc_evict returns the slot after the     *)
(* hand at its first try, and the write-back branches are dead: the flag   *)
(* is left out.                                                            *)
(*                                                                         *)
(* The disk may fail any transfer.  bc_write does not notice, and the      *)
(* shell's DISK WRITE does not tell the cache: `suspect` is the history of *)
(* the cached sectors this happened to.                                    *)
(***************************************************************************)
EXTENDS Integers, Sequences

CONSTANTS
    MaxLba,       \* the last sector
    Val,          \* the contents a sector can have
    Entries,      \* BC_ENTRIES (64 in the build)
    MaxCount      \* bound: the most sectors a caller asks for (8 in the build)

ASSUME CacheAssumption ==
    /\ MaxLba \in Nat /\ Val # {}
    /\ Entries \in Nat \ {0} /\ MaxCount \in Nat \ {0}

Lba   == 0..MaxLba
NoLba == -1                \* ~0u: the slot is empty
Slots == 0..(Entries - 1)

VARIABLES
    disk,     \* the platter
    lba,      \* g_cache[i].lba
    data,     \* g_cache[i].data, as long as lba[i] is not NoLba
    hand,     \* bc_evict's static hand
    ready,    \* kernel_main has called bc_init
    job,      \* the call in progress
    reply,    \* what the last operation on a sector answered
    suspect   \* history: sectors cached since a write the cache or disk missed

vars == <<disk, lba, data, hand, ready, job, reply, suspect>>

NoJob == [op |-> "none", next |-> 0, left |-> 0]

-----------------------------------------------------------------------------
(* bc_lookup *)
Hits(l) == { i \in Slots : lba[i] = l }
FirstHit(l) == CHOOSE i \in Hits(l) : \A j \in Hits(l) : i <= j

(* bc_evict: the slot the hand moves to *)
Victim == (hand + 1) % Entries

(* The first bc_read, of fat_init, initialises the cache (g_init).         *)
Init ==
    /\ disk \in [Lba -> Val]
    /\ lba = [i \in Slots |-> NoLba]
    /\ data \in [Slots -> Val]
    /\ hand = 0
    /\ ready = FALSE
    /\ job = NoJob
    /\ reply = <<"none">>
    /\ suspect = {}

(* kernel_main calls bc_init once more after the root was mounted.         *)
BcInit ==
    /\ job = NoJob /\ ~ready
    /\ ready' = TRUE
    /\ lba' = [i \in Slots |-> NoLba]
    /\ suspect' = {}
    /\ UNCHANGED <<disk, data, hand, job, reply>>

(* bc_read or bc_write is called for n sectors from l on; mounting the     *)
(* root only reads.                                                        *)
Call(op, l, n) ==
    /\ job = NoJob /\ (ready \/ op = "read")
    /\ l + n - 1 <= MaxLba
    /\ job' = [op |-> op, next |-> l, left |-> n]
    /\ UNCHANGED <<disk, lba, data, hand, ready, reply, suspect>>

(* A definition named Op_bug is a mutant of Op, used by no specification.  *)

(* The loop's next round, or the end of the call *)
Advance == IF job.left = 1 THEN NoJob
           ELSE [job EXCEPT !.next = @ + 1, !.left = @ - 1]

ReadHit ==
    /\ job.op = "read" /\ Hits(job.next) # {}
    /\ reply' = <<"read", job.next, data[FirstHit(job.next)]>>
    /\ job' = Advance
    /\ UNCHANGED <<disk, lba, data, hand, ready, suspect>>

Fill_early(i, l, ok) ==
    /\ lba' = [lba EXCEPT ![i] = l]
    /\ data' = IF ok THEN [data EXCEPT ![i] = disk[l]] ELSE data

(* ata_read into slot i.  It fails before it transfers a word, so the old  *)
(* entry stays whole.                                                      *)
Fill(i, l, ok) ==
    IF ok THEN /\ lba' = [lba EXCEPT ![i] = l]
               /\ data' = [data EXCEPT ![i] = disk[l]]
    ELSE UNCHANGED <<lba, data>>

ReadMiss ==
    /\ job.op = "read" /\ Hits(job.next) = {}
    /\ hand' = Victim
    /\ \E ok \in BOOLEAN :
          /\ Fill(Victim, job.next, ok)
          /\ suspect' = IF ok THEN suspect \ {lba[Victim]} ELSE suspect
          /\ reply' = IF ok THEN <<"read", job.next, disk[job.next]>>
                      ELSE <<"error">>
          /\ job' = IF ok THEN Advance ELSE NoJob
    /\ UNCHANGED <<disk, ready>>

SlotFor_fresh(l) == Victim

(* The slot bc_write stores into: the one that has the sector, or a victim *)
SlotFor(l) == IF Hits(l) = {} THEN Victim ELSE FirstHit(l)

(* bc_write writes through, and does not look at what ata_write returned.  *)
WriteSector ==
    /\ job.op = "write"
    /\ hand' = IF Hits(job.next) = {} THEN Victim ELSE hand
    /\ \E v \in Val, ok \in BOOLEAN :
          /\ disk' = IF ok THEN [disk EXCEPT ![job.next] = v] ELSE disk
          /\ suspect' = (suspect \ {lba[SlotFor(job.next)]}) \cup (IF ok THEN {} ELSE {job.next})
          /\ lba' = [lba EXCEPT ![SlotFor(job.next)] = job.next]
          /\ data' = [data EXCEPT ![SlotFor(job.next)] = v]
    /\ reply' = <<"written", job.next>>
    /\ job' = Advance
    /\ UNCHANGED ready

-----------------------------------------------------------------------------
(* Around the cache *)

(* A raw access fails for a task without the capability, for a buffer that *)
(* is not the caller's, and when the disk does.                            *)
RawFail ==
    /\ job = NoJob /\ ready
    /\ reply' = <<"error">>
    /\ UNCHANGED <<disk, lba, data, hand, ready, job, suspect>>

(* SYS_DISK_READ and the shell's DISK READ: straight from the disk         *)
RawRead(l) ==
    /\ job = NoJob /\ ready
    /\ reply' = <<"read", l, disk[l]>>
    /\ UNCHANGED <<disk, lba, data, hand, ready, job, suspect>>

Invalidated_none(l) == lba

(* bc_invalidate *)
Invalidated(l) == [i \in Slots |-> IF lba[i] = l THEN NoLba ELSE lba[i]]

(* SYS_DISK_WRITE *)
RawWrite(l, v) ==
    /\ job = NoJob /\ ready
    /\ disk' = [disk EXCEPT ![l] = v]
    /\ lba' = Invalidated(l)
    /\ suspect' = suspect \ {l}
    /\ reply' = <<"written", l>>
    /\ UNCHANGED <<data, hand, ready, job>>

(* The shell's DISK WRITE: the cache is not told.                          *)
ShellWrite(l, v) ==
    /\ job = NoJob /\ ready
    /\ disk' = [disk EXCEPT ![l] = v]
    /\ suspect' = IF Hits(l) = {} THEN suspect ELSE suspect \cup {l}
    /\ reply' = <<"written", l>>
    /\ UNCHANGED <<lba, data, hand, ready, job>>

Next ==
    \/ BcInit
    \/ \E op \in {"read", "write"}, l \in Lba, n \in 1..MaxCount : Call(op, l, n)
    \/ ReadHit \/ ReadMiss \/ WriteSector
    \/ RawFail
    \/ \E l \in Lba : RawRead(l)
    \/ \E l \in Lba, v \in Val : RawWrite(l, v) \/ ShellWrite(l, v)

Spec == Init /\ [][Next]_vars

-----------------------------------------------------------------------------
(* Each variable has the range of the field it stands for, and a job stays *)
(* on the disk.                                                            *)
TypeOK ==
    /\ disk \in [Lba -> Val]
    /\ lba \in [Slots -> Lba \cup {NoLba}]
    /\ data \in [Slots -> Val]
    /\ hand \in Slots
    /\ ready \in BOOLEAN
    /\ suspect \subseteq Lba
    /\ job = NoJob \/ /\ job \in [op : {"read", "write"}, next : Lba, left : 1..MaxCount]
                      /\ job.next + job.left - 1 <= MaxLba

(* No sector is cached in two slots: bc_write updates only the first one   *)
(* bc_lookup finds, and the other would come back stale after an eviction. *)
OneSlotPerSector ==
    \A i, j \in Slots : lba[i] = lba[j] /\ lba[i] # NoLba => i = j

(* A cached sector is the sector on the disk, also after failed reads and  *)
(* after user-space drivers wrote around the cache; the exceptions are the *)
(* sectors of a bc_write the disk failed (bcache.cpp:104) or of the        *)
(* shell's DISK WRITE (shell.cpp:186), until they leave the cache or are   *)
(* written again.                                                          *)
Coherent ==
    \A i \in Slots : lba[i] # NoLba /\ lba[i] \notin suspect => data[i] = disk[lba[i]]

(* The cache is transparent: sector by sector, callers see a plain disk    *)
(* that may forget a write.                                                *)
Store == INSTANCE SectorStore WITH store <- disk
Transparent == Store!Spec
=============================================================================
