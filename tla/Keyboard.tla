------------------------------ MODULE Keyboard ------------------------------
(***************************************************************************)
(* Keyboard and mouse input: the PS/2 drivers (drivers/keyboard.cpp,       *)
(* drivers/mouse.cpp), the event ring behind /dev/input                    *)
(* (drivers/input.cpp) and the 100 Hz drain of the timer interrupt         *)
(* (kernel/isr.cpp).                                                       *)
(*                                                                         *)
(* Two agents take bytes out of the controller: the reader (getchar's      *)
(* polling loop, inside SYS_READ or the kernel shell) and the timer        *)
(* interrupt.  SYS_READ runs with IF clear; the kernel shell runs with IF  *)
(* set, so there the interrupt may fall between any two accesses of the    *)
(* reader to the controller or to the ring.  IRQ1 stays masked: pic_remap  *)
(* masks it and only IRQ0 is unmasked, so Keyboard::irq_handler never      *)
(* runs.                                                                   *)
(***************************************************************************)
EXTENDS Integers, Sequences, FiniteSets

CONSTANTS
    RingSize,     \* KB_BUF_SIZE (256 in the build)
    EventCap,     \* events the /dev/input ring holds: IN_RING - 1 (255)
    FifoMax,      \* bytes the controller holds (16)
    KernelShell,  \* the reader is the kernel shell, not SYS_READ
    Mouse,        \* the mouse is moved
    Typed         \* the scan codes that are typed

ASSUME KeyboardAssumption ==
    /\ RingSize \in Nat \ {0, 1} /\ EventCap \in Nat \ {0} /\ FifoMax \in Nat \ {0}
    /\ KernelShell \in BOOLEAN /\ Mouse \in BOOLEAN
    /\ Typed \subseteq {"ctrl", "ctrl_up", "c", "enter"}

(* Scan codes: Ctrl down (0x1D), Ctrl up (0x9D), C (0x2E), Enter           *)
Code == {"ctrl", "ctrl_up", "c", "enter"}

(* A byte of the controller: its status bit 5 (aux) and its value; for a   *)
(* mouse byte, whether bit 3 is set.                                       *)
Byte == [aux : {FALSE}, val : Code] \cup [aux : {TRUE}, val : BOOLEAN]

Index == 0..(RingSize - 1)

VARIABLES
    fifo,     \* the controller: bytes waiting
    phase,    \* which byte of its packet the mouse sends next
    kb_buf, kb_head, kb_tail, ctrl,
    cycle,    \* mouse bytes of the packet being assembled
    events,   \* the /dev/input ring, oldest first
    pc,       \* the reader
    st, dat, reg,   \* its locals: status, data byte, loaded kb_head or kb_tail
    pit,      \* the timer interrupt: "none", "drain" or "ctrl_c"
    sigint,   \* the last timer interrupt sent SIGINT
    got       \* history: the scan code taken last

hwVars     == <<fifo, phase>>
ringVars   == <<kb_buf, kb_head, kb_tail>>
readerVars == <<pc, st, dat, reg>>
vars == <<hwVars, ringVars, ctrl, cycle, events, readerVars, pit, sigint,
          got>>

NoByte == [aux |-> FALSE, val |-> "none"]

Init ==
    /\ fifo = <<>> /\ phase = 0
    /\ kb_buf = [i \in Index |-> "none"] /\ kb_head = 0 /\ kb_tail = 0
    /\ ctrl = FALSE
    /\ cycle = 0
    /\ events = <<>>
    /\ pc = "off" /\ st = NoByte /\ dat = NoByte /\ reg = 0
    /\ pit = "none"
    /\ sigint = FALSE
    /\ got = "none"

-----------------------------------------------------------------------------
(* The hardware *)

KeyByte ==
    /\ Len(fifo) < FifoMax
    /\ \E c \in Typed : fifo' = Append(fifo, [aux |-> FALSE, val |-> c])
    /\ UNCHANGED <<phase, ringVars, ctrl, cycle, events, readerVars,
                   pit, sigint, got>>

(* Packets of three bytes; bit 3 is always set in the first.               *)
MouseByte ==
    /\ Mouse /\ Len(fifo) < FifoMax
    /\ \E b \in BOOLEAN : /\ phase = 0 => b
                          /\ fifo' = Append(fifo, [aux |-> TRUE, val |-> b])
    /\ phase' = (phase + 1) % 3
    /\ UNCHANGED <<ringVars, ctrl, cycle, events, readerVars, pit,
                   sigint, got>>

-----------------------------------------------------------------------------
(* The drivers' operations *)

(* A definition named Op_bug is a mutant of Op, used by no specification.  *)

(* input_push: when the ring is full the oldest event goes.                *)
Push(q, e) == IF Len(q) = EventCap THEN Append(Tail(q), e) ELSE Append(q, e)

(* feed_byte: out of step it drops a byte that cannot be a first one; a    *)
(* whole packet gives no event (overflow), a move, or a move and a button. *)
FeedMouse(b) ==
    IF cycle = 0 /\ ~b THEN UNCHANGED <<cycle, events>>
    ELSE /\ cycle' = (cycle + 1) % 3
         /\ \/ events' = events
            \/ cycle = 2 /\ events' = Push(events, "move")
            \/ cycle = 2 /\ events' = Push(Push(events, "move"), "button")

Inc(i) == (i + 1) % RingSize

(* kb_put, by code that is not interrupted in it                           *)
Put(c) ==
    IF Inc(kb_head) # kb_tail
    THEN /\ kb_buf' = [kb_buf EXCEPT ![kb_head] = c]
         /\ kb_head' = Inc(kb_head)
         /\ events' = Push(events, c)
    ELSE UNCHANGED <<kb_buf, kb_head, events>>

-----------------------------------------------------------------------------
(* The reader: readline > getchar > read_scan > drain, kb_put, kb_get.     *)
(* Each action ends where the next access to shared state begins.          *)

Runs == pit = "none"

ReadLine ==
    /\ Runs /\ pc = "off"
    /\ pc' = "top"
    /\ UNCHANGED <<hwVars, ringVars, ctrl, cycle, events, st, dat, reg, pit,
                   sigint, got>>

(* A character from the serial port, which may end the line                *)
Serial ==
    /\ Runs /\ pc = "top"
    /\ pc' \in {"off", "top"}
    /\ UNCHANGED <<hwVars, ringVars, ctrl, cycle, events, st, dat, reg, pit,
                   sigint, got>>

(* inb(KB_STATUS) of drain *)
Status ==
    /\ Runs /\ pc \in {"top", "drain"}
    /\ IF fifo = <<>> THEN pc' = "check" /\ UNCHANGED st
       ELSE pc' = "data" /\ st' = Head(fifo)
    /\ UNCHANGED <<hwVars, ringVars, ctrl, cycle, events, dat, reg, pit,
                   sigint, got>>

(* inb(KB_DATA): the byte now at the front, or an old one when somebody    *)
(* took it meanwhile; the status read before decides whose it is.          *)
Data ==
    /\ Runs /\ pc = "data"
    /\ dat' \in IF fifo = <<>> THEN Byte ELSE {Head(fifo)}
    /\ fifo' = IF fifo = <<>> THEN fifo ELSE Tail(fifo)
    /\ pc' = IF st.aux THEN "feed" ELSE "put"
    /\ st' = NoByte
    /\ UNCHANGED <<phase, ringVars, ctrl, cycle, events, reg, pit, sigint, got>>

(* feed_byte; a key's byte taken for a mouse byte has any bit 3            *)
Feed ==
    /\ Runs /\ pc = "feed"
    /\ \E b \in (IF dat.aux THEN {dat.val} ELSE BOOLEAN) : FeedMouse(b)
    /\ pc' = "drain"
    /\ dat' = NoByte
    /\ UNCHANGED <<hwVars, ringVars, ctrl, st, reg, pit, sigint, got>>

(* kb_put up to its test: kb_head is in a register from here on            *)
PutLoad ==
    /\ Runs /\ pc = "put"
    /\ IF Inc(kb_head) # kb_tail
       THEN pc' = "store" /\ reg' = kb_head /\ UNCHANGED dat
       ELSE pc' = "drain" /\ dat' = NoByte /\ UNCHANGED reg
    /\ UNCHANGED <<hwVars, ringVars, ctrl, cycle, events, st, pit, sigint, got>>

(* The rest of kb_put; a mouse byte taken for a key's can be any code      *)
PutStore ==
    /\ Runs /\ pc = "store"
    /\ \E c \in (IF dat.aux THEN Code ELSE {dat.val}) :
          /\ kb_buf' = [kb_buf EXCEPT ![reg] = c]
          /\ events' = Push(events, c)
    /\ kb_head' = Inc(reg)
    /\ pc' = "drain"
    /\ dat' = NoByte /\ reg' = 0
    /\ UNCHANGED <<hwVars, kb_tail, ctrl, cycle, st, pit, sigint, got>>

(* read_scan's test of the ring; empty: another round of getchar           *)
Check ==
    /\ Runs /\ pc = "check"
    /\ IF kb_head # kb_tail THEN pc' = "get" /\ reg' = kb_tail
       ELSE pc' = "top" /\ UNCHANGED reg
    /\ UNCHANGED <<hwVars, ringVars, ctrl, cycle, events, st, dat, pit, sigint,
                   got>>

(* kb_get; Enter ends the line                                             *)
Get ==
    /\ Runs /\ pc = "get"
    /\ got' = kb_buf[reg]
    /\ kb_tail' = Inc(reg)
    /\ pc' = IF kb_buf[reg] = "enter" THEN "off" ELSE "top"
    /\ reg' = 0
    /\ UNCHANGED <<hwVars, kb_buf, kb_head, ctrl, cycle, events, st, dat, pit,
                   sigint>>

Reader == \/ Serial \/ Status \/ Data \/ Feed \/ PutLoad \/ PutStore
          \/ Check \/ Get

-----------------------------------------------------------------------------
(* The timer interrupt and the desktop *)

Masked_never == FALSE

(* int 0x80 clears IF; the kernel shell has it set.                        *)
Masked == pc # "off" /\ ~KernelShell

Tick ==
    /\ pit = "none" /\ ~Masked
    /\ pit' = "drain"
    /\ sigint' = FALSE
    /\ UNCHANGED <<hwVars, ringVars, ctrl, cycle, events, readerVars, got>>

(* One round of drain's loop *)
PitByte ==
    /\ pit = "drain" /\ fifo # <<>>
    /\ fifo' = Tail(fifo)
    /\ IF Head(fifo).aux
       THEN FeedMouse(Head(fifo).val) /\ UNCHANGED <<kb_buf, kb_head>>
       ELSE Put(Head(fifo).val) /\ UNCHANGED cycle
    /\ UNCHANGED <<phase, kb_tail, ctrl, readerVars, pit, sigint, got>>

PitDrained ==
    /\ pit = "drain" /\ fifo = <<>>
    /\ pit' = "ctrl_c"
    /\ UNCHANGED <<hwVars, ringVars, ctrl, cycle, events, readerVars, sigint,
                   got>>

(* ctrl_c looks at the oldest code in the ring only: which ones it eats    *)
Eaten(c) == c \in {"ctrl", "ctrl_up"} \/ (c = "c" /\ ctrl)

(* ctrl_c; SIGINT goes to a user task, a tick in the kernel wastes it.     *)
PitCtrlC ==
    LET c == kb_buf[kb_tail] IN
    /\ pit = "ctrl_c"
    /\ pit' = "none"
    /\ IF kb_head # kb_tail /\ Eaten(c)
       THEN /\ kb_tail' = Inc(kb_tail)
            /\ ctrl' = IF c = "c" THEN ctrl ELSE c = "ctrl"
            /\ sigint' = (c = "c" /\ ~KernelShell)
            /\ got' = c
       ELSE UNCHANGED <<kb_tail, ctrl, sigint, got>>
    /\ UNCHANGED <<hwVars, kb_buf, kb_head, cycle, events, readerVars>>

(* SYS_FREAD of /dev/input: input_pop                                      *)
PopEvent ==
    /\ Runs /\ pc = "off" /\ events # <<>>
    /\ events' = Tail(events)
    /\ UNCHANGED <<hwVars, ringVars, ctrl, cycle, readerVars, pit, sigint, got>>

Pit == PitByte \/ PitDrained \/ PitCtrlC

Next == KeyByte \/ MouseByte \/ ReadLine \/ Reader \/ Tick \/ Pit \/ PopEvent

Spec == Init /\ [][Next]_vars

-----------------------------------------------------------------------------
(* The codes between kb_tail and kb_head, oldest first                     *)
Ring == [i \in 1..((kb_head - kb_tail) % RingSize) |->
            kb_buf[(kb_tail + i - 1) % RingSize]]

(* The bytes of the keyboard and of the mouse among the bytes q            *)
KeyPlaces(q)   == {i \in DOMAIN q : ~q[i].aux}
MousePlaces(q) == {i \in DOMAIN q : q[i].aux}

UpTo(S, i) == S \cap 1..i
Nth(S, n)  == CHOOSE i \in S : Cardinality(UpTo(S, i)) = n
KeysOf(q)  == LET S == KeyPlaces(q) IN [n \in 1..Cardinality(S) |-> q[Nth(S, n)].val]

(* The byte the reader holds in its registers *)
InHand == IF pc \in {"put", "store", "feed"} THEN <<dat>> ELSE <<>>

(* Keys in the driver come out in the order typed, each once, and are lost *)
(* only to a full ring: drain, kb_put, kb_get and ctrl_c together, polled  *)
(* and from the timer interrupt.                                           *)
Queue == INSTANCE KeyQueue WITH Cap <- RingSize - 1,
                                keys <- Ring \o KeysOf(InHand \o fifo)
KeysInOrder == Queue!Spec

(* The mouse driver stays in step with the mouse: the next byte of the     *)
(* controller is the byte of the packet that feed_byte expects.  (mouse.cpp*)
(* keeps IRQ12 off because two readers corrupt packets for good.)          *)
PacketsAligned ==
    (cycle + Cardinality(MousePlaces(InHand \o fifo))) % 3 = phase

(* For TLC: no guard and no property looks at what the waiting events are  *)
(* or at the last SIGINT.                                                  *)
View == <<hwVars, ringVars, ctrl, cycle, events = <<>>, readerVars, pit, got>>
=============================================================================
