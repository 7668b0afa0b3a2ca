------------------------------ MODULE KeyQueue ------------------------------
(***************************************************************************)
(* What the keyboard driver owes whoever types: scan codes come out in the *)
(* order they were typed, each once, and one is only dropped when more     *)
(* than Cap are waiting: the newest that found no room.                    *)
(***************************************************************************)
EXTENDS Integers, Sequences

CONSTANTS Code, Cap

VARIABLES
    keys,   \* typed and not yet taken
    got     \* the code taken last

Init == keys = <<>> /\ got = "none"

Type == /\ \E c \in Code : keys' = Append(keys, c)
        /\ UNCHANGED got

Take == /\ keys # <<>>
        /\ got' = Head(keys)
        /\ keys' = Tail(keys)

Drop == /\ Len(keys) > Cap
        /\ keys' = [i \in 1..(Len(keys) - 1) |->
                       IF i <= Cap THEN keys[i] ELSE keys[i + 1]]
        /\ UNCHANGED got

Next == Type \/ Take \/ Drop

Spec == Init /\ [][Next]_<<keys, got>>
=============================================================================
