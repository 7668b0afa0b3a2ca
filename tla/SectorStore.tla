---------------------------- MODULE SectorStore ----------------------------
(***************************************************************************)
(* What callers of the block cache are promised (drivers/bcache.h: it      *)
(* "transparently replaces ata_read/ata_write"): a disk whose sectors are  *)
(* read and written one at a time, where a call may also fail and then     *)
(* changes nothing.  A write the disk loses without telling (bc_write      *)
(* ignores the error) makes the sector suspect: what it answers is open    *)
(* until it is settled, which may happen at any step.                      *)
(***************************************************************************)
EXTENDS Integers

CONSTANTS MaxLba, Val

VARIABLES
    store,     \* the contents of every sector
    reply,     \* what the last operation on a sector answered
    suspect    \* sectors that may answer something else

Lba == 0..MaxLba

Init ==
    /\ store \in [Lba -> Val]
    /\ reply = <<"none">>
    /\ suspect = {}

Read(l) ==
    /\ \E v \in Val : /\ l \notin suspect => v = store[l]
                      /\ reply' = <<"read", l, v>>
    /\ suspect' \subseteq suspect
    /\ UNCHANGED store

Write(l, v) ==
    /\ store' = [store EXCEPT ![l] = v]
    /\ reply' = <<"written", l>>
    /\ suspect' \subseteq suspect \ {l}

BadWrite(l, v) ==
    /\ store' \in {store, [store EXCEPT ![l] = v]}
    /\ reply' = <<"written", l>>
    /\ suspect' \subseteq suspect \cup {l} /\ l \in suspect'

Fail ==
    /\ reply' = <<"error">>
    /\ UNCHANGED <<store, suspect>>

Settle ==
    /\ suspect' \subseteq suspect
    /\ UNCHANGED <<store, reply>>

Next == \/ \E l \in Lba : Read(l)
        \/ \E l \in Lba, v \in Val : Write(l, v) \/ BadWrite(l, v)
        \/ Fail \/ Settle

Spec == Init /\ [][Next]_<<store, reply, suspect>>
=============================================================================
