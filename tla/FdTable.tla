------------------------------ MODULE FdTable ------------------------------
(* The file descriptor tables of the tasks and the pipes they share:         *)
(* kernel/syscall.cpp, sys_open to syscall_cleanup_fds.                      *)
(*                                                                           *)
(* System calls run with interrupts off, so each is one step.  A slot of a   *)
(* table is fd_type, fd_buf, fd_size, fd_pos and cap, the bytes allocated at *)
(* fd_buf; fd_buf is a heap object for files and pipes and the address 1 for *)
(* devices.  kmalloc hands out any free object and fails when none is left.  *)
(* What capabilities, missing files and bad user pointers refuse changes     *)
(* nothing and is a stuttering step.  A step after which the kernel's memory *)
(* is corrupt (wild) or a slot names freed memory (stale) ends the           *)
(* behaviour.                                                                *)
EXTENDS Integers, Sequences, FiniteSets, TLC

CONSTANTS Task,        \* task structures
          MaxFd,       \* MAX_FD
          Obj,         \* blocks the kernel heap can hold
          PipeCap,     \* PIPE_BUF_SZ
          Val,         \* bytes
          Sizes,       \* sizes of the files that can be opened
          BufMax,      \* the 64 KB a file buffer is clamped to
          Word,        \* 2^32, the modulus of u32
          Devices,     \* device nodes opened
          MaxCalls     \* bound on the length of a behaviour

None == "none"

ASSUME FdAssumption ==
    /\ MaxFd \in Nat \ {0} /\ PipeCap \in Nat \ {0} /\ BufMax \in Nat \ {0}
    /\ Word \in Nat /\ Word > PipeCap
    /\ Sizes \subseteq 1 .. (Word - 1)
    /\ Devices \subseteq {"null", "zero", "input"}
    /\ MaxCalls \in Nat
    /\ IsFiniteSet(Task) /\ IsFiniteSet(Obj) /\ None \notin Obj

VARIABLES alive,       \* tasks that exist
          fd,          \* the slots: fd_type, fd_buf, fd_size, fd_pos
          outfd,       \* output_fd of a task, -1 for the screen
          heap,        \* allocated objects
          pipe,        \* pipe_t of the objects that are pipes
          stale,       \* slots whose fd_buf was freed and not cleared
          wild,        \* the kernel wrote outside the object it meant
          calls        \* calls so far

vars == <<alive, fd, outfd, heap, pipe, stale, wild, calls>>

Fd == 0 .. (MaxFd - 1)
Slots == Task \X Fd
Pipes == {"rpipe", "wpipe"}

NoSlot == [typ |-> "free", obj |-> None, cap |-> 0, size |-> 0, pos |-> 0]
Device(d) == [typ |-> d, obj |-> None, cap |-> 0,
              size |-> IF d \in {"zero", "input"} THEN Word - 1 ELSE 0, pos |-> 0]

(* pipe_t; queue, shared, over and raw are history: the bytes written and    *)
(* not yet read, whether an end was ever duplicated, whether dup2 replaced   *)
(* an end, and whether output was redirected into the buffer.                *)
NewPipe == [buf |-> [i \in 0 .. (PipeCap - 1) |-> 0], rpos |-> 0, wpos |-> 0, count |-> 0,
            refs |-> 2, broken |-> FALSE,
            queue |-> <<>>, shared |-> FALSE, over |-> FALSE, raw |-> FALSE]

Open(s) == fd[s].typ # "free"
FreeFds(t) == {f \in Fd : ~Open(<<t, f>>)}
First(S) == CHOOSE f \in S : \A g \in S : f <= g
Sound == stale = {} /\ ~wild

---------------------------------------------------------------------------
(* Giving slots up.  Each pipe loses one reference per slot, is marked       *)
(* broken by close and exit, and is freed when no reference is left; a       *)
(* file's buffer is freed with its slot.                                     *)

PipeSlots(tab, S, o) == {s \in S : tab[s].typ \in Pipes /\ tab[s].obj = o}
Names(S) == {fd[s].obj : s \in S} \ {None}

Freed(S) ==
    {o \in Names(S) : \/ \E s \in S : fd[s].obj = o /\ fd[s].typ = "file"
                     \/ pipe[o].refs <= Cardinality(PipeSlots(fd, S, o))}

Lost(S, o) == Cardinality(PipeSlots(fd, S, o))

Unref(S, brk) ==
    [o \in Obj |->
        IF o \in Freed(S) THEN NewPipe
        ELSE [pipe[o] EXCEPT !.refs = @ - Lost(S, o),
                             !.broken = @ \/ (brk /\ o \in Names(S))]]

Marks_never == FALSE
Marks == TRUE

(* sys_close *)
Close(t, f) ==
    /\ Open(<<t, f>>)
    /\ heap' = heap \ Freed({<<t, f>>})
    /\ pipe' = Unref({<<t, f>>}, Marks)
    /\ fd' = [fd EXCEPT ![<<t, f>>] = NoSlot]
    /\ UNCHANGED <<alive, outfd, stale, wild>>

(* syscall_cleanup_fds, from SYS_EXIT and from a fatal signal *)
Exit(t) ==
    /\ LET S == {s \in Slots : s[1] = t /\ Open(s)} IN
       /\ heap' = heap \ Freed(S)
       /\ pipe' = Unref(S, Marks)
    /\ fd' = [s \in Slots |-> IF s[1] = t THEN NoSlot ELSE fd[s]]
    /\ alive' = alive \ {t}
    /\ outfd' = [outfd EXCEPT ![t] = -1]
    /\ UNCHANGED <<stale, wild>>

---------------------------------------------------------------------------
(* Opening.                                                                  *)

OpenDevice(t, d) ==
    /\ FreeFds(t) # {}
    /\ fd' = [fd EXCEPT ![<<t, First(FreeFds(t))>>] = Device(d)]
    /\ UNCHANGED <<alive, outfd, heap, pipe, stale, wild>>

AtMost(n) == IF n > BufMax THEN BufMax ELSE n

(* A file is loaded whole into a buffer of its size, at most BufMax; the     *)
(* size of the slot is what fs->open returns, the size on the disk.          *)
OpenFile(t, o, n) ==
    /\ FreeFds(t) # {}
    /\ heap' = heap \cup {o}
    /\ fd' = [fd EXCEPT ![<<t, First(FreeFds(t))>>] =
                 [typ |-> "file", obj |-> o, cap |-> AtMost(n), size |-> n, pos |-> 0]]
    /\ UNCHANGED <<alive, outfd, pipe, stale, wild>>

End(typ, o) == [typ |-> typ, obj |-> o, cap |-> PipeCap, size |-> PipeCap, pos |-> 0]

(* sys_pipe: both ends in the two lowest free slots, or nothing.  When the   *)
(* caller's array cannot be written both slots and the pipe are given back.  *)
Rollback_read(tab, t) == [tab EXCEPT ![<<t, First(FreeFds(t))>>] = NoSlot]
Rollback(tab, t) == [s \in Slots |-> IF s[1] = t /\ s[2] \in FreeFds(t) THEN NoSlot ELSE tab[s]]

MakePipe(t, o, copied) ==
    /\ Cardinality(FreeFds(t)) >= 2
    /\ LET r == First(FreeFds(t))
           w == First(FreeFds(t) \ {r})
           tab == [fd EXCEPT ![<<t, r>>] = End("rpipe", o), ![<<t, w>>] = End("wpipe", o)]
       IN fd' = IF copied THEN tab ELSE Rollback(tab, t)
    /\ heap' = IF copied THEN heap \cup {o} ELSE heap
    /\ pipe' = [pipe EXCEPT ![o] = NewPipe]
    /\ UNCHANGED <<alive, outfd, stale, wild>>

---------------------------------------------------------------------------
(* Duplicating.                                                              *)

Referenced(o, pp) == [pp EXCEPT ![o].refs = @ + 1, ![o].shared = TRUE]

(* What dup and dup2 share, with heap h and pipes pp: a file's buffer is     *)
(* copied into a new object, everything else is copied as it is.             *)
Duplicate(src, dst, h, pp) ==
    IF fd[src].typ = "file"
    THEN \E o \in Obj \ h :
           /\ heap' = h \cup {o}
           /\ fd' = [fd EXCEPT ![dst] = [fd[src] EXCEPT !.obj = o, !.cap = fd[src].size]]
           /\ pipe' = pp
    ELSE /\ heap' = h
         /\ fd' = [fd EXCEPT ![dst] = fd[src]]
         /\ pipe' = IF fd[src].typ \in Pipes THEN Referenced(fd[src].obj, pp) ELSE pp

(* sys_dup *)
Dup(t, f) ==
    /\ Open(<<t, f>>) /\ FreeFds(t) # {}
    /\ Duplicate(<<t, f>>, <<t, First(FreeFds(t))>>, heap, pipe)
    /\ UNCHANGED <<alive, outfd, stale, wild>>

(* The pipes after dup2 gave slot s up: it marks no pipe as broken.          *)
Replaced(s) ==
    LET pp == Unref({s}, FALSE)
        o == fd[s].obj
    IN IF fd[s].typ \in Pipes /\ o \notin Freed({s}) THEN [pp EXCEPT ![o].over = TRUE] ELSE pp

(* sys_dup2 gives new_fd up first.                                           *)
Dup2(t, f, g) ==
    /\ Open(<<t, f>>) /\ f # g
    /\ Duplicate(<<t, f>>, <<t, g>>, heap \ Freed({<<t, g>>}), Replaced(<<t, g>>))
    /\ UNCHANGED <<alive, outfd, stale, wild>>

(* sys_dup2 of a file when its copy cannot be allocated: new_fd was given    *)
(* up and its slot still names what was there.                               *)
Dup2Fails(t, f, g) ==
    /\ fd[<<t, f>>].typ = "file" /\ f # g
    /\ heap \ Freed({<<t, g>>}) = Obj
    /\ heap' = heap \ Freed({<<t, g>>})
    /\ pipe' = Replaced(<<t, g>>)
    /\ stale' = {s \in {<<t, g>>} : fd[s].obj # None}
    /\ UNCHANGED <<alive, fd, outfd, wild>>

---------------------------------------------------------------------------
(* sys_fork: the child's slots are filled in order; a file's buffer is       *)
(* copied into the next object of the injection new, a pipe gains one        *)
(* reference per slot.                                                       *)

Files(t) == {f \in Fd : fd[<<t, f>>].typ = "file"}

Inherited(t, c, new) ==
    [s \in Slots |-> IF s[1] # c THEN fd[s]
                     ELSE IF s[2] \in Files(t) THEN [fd[<<t, s[2]>>] EXCEPT !.obj = new[s[2]], !.cap = fd[<<t, s[2]>>].size]
                     ELSE fd[<<t, s[2]>>]]

(* The references of the slots below i of table tab belonging to c.          *)
ChildSlots(c, i) == {s \in Slots : s[1] = c /\ s[2] < i}

Counted(tab, c, i, pp) ==
    [o \in Obj |-> IF PipeSlots(tab, ChildSlots(c, i), o) = {} THEN pp[o]
                   ELSE [pp[o] EXCEPT !.refs = @ + Cardinality(PipeSlots(tab, ChildSlots(c, i), o)),
                                      !.shared = TRUE]]

Uncounted_not(tab, c, i, pp) == pp
Uncounted(tab, c, i, pp) ==
    [o \in Obj |-> [pp[o] EXCEPT !.refs = @ - Cardinality(PipeSlots(tab, ChildSlots(c, i), o))]]

Fork(t, c) ==
    /\ Cardinality(Files(t)) <= Cardinality(Obj \ heap)
    /\ \E S \in SUBSET (Obj \ heap) :
         /\ Cardinality(S) = Cardinality(Files(t))
         /\ \E new \in [Files(t) -> S] :
              /\ \A f, g \in Files(t) : f # g => new[f] # new[g]
              /\ fd' = Inherited(t, c, new)
              /\ heap' = heap \cup S
              /\ pipe' = Counted(fd', c, MaxFd, pipe)
    /\ alive' = alive \cup {c}
    /\ outfd' = [outfd EXCEPT ![c] = -1]
    /\ UNCHANGED <<stale, wild>>

(* The copy of slot i cannot be allocated: the slots below it are undone     *)
(* and the child is given back.                                              *)
ForkFails(t, c) ==
    /\ Cardinality(Files(t)) > Cardinality(Obj \ heap)
    /\ LET i == CHOOSE f \in Files(t) :
                  Cardinality({g \in Files(t) : g < f}) = Cardinality(Obj \ heap)
           tab == [s \in Slots |-> IF s[1] = c THEN fd[<<t, s[2]>>] ELSE fd[s]]
       IN pipe' = Uncounted(tab, c, i, Counted(tab, c, i, pipe))
    /\ UNCHANGED <<alive, fd, outfd, heap, stale, wild>>

(* shell_launch_user and load_binary: a task with the screen as fd 0         *)
Launch(t) ==
    /\ alive = {}
    /\ alive' = {t}
    /\ fd' = [fd EXCEPT ![<<t, 0>>] = Device("fb")]
    /\ outfd' = [outfd EXCEPT ![t] = -1]
    /\ UNCHANGED <<heap, pipe, stale, wild>>

---------------------------------------------------------------------------
(* Reading and writing.                                                      *)

Prefix(d, n) == SubSeq(d, 1, IF Len(d) > n THEN n ELSE Len(d))

Stored_atRead(p, d) ==
    [p EXCEPT !.buf = [i \in 0 .. (PipeCap - 1) |->
                         LET k == (i - p.rpos + PipeCap) % PipeCap
                         IN IF k < Len(d) THEN d[k + 1] ELSE p.buf[i]],
              !.wpos = (@ + Len(d)) % PipeCap,
              !.count = @ + Len(d),
              !.queue = @ \o d]

(* The ring after the bytes d are stored from wpos on.                       *)
Stored(p, d) ==
    [p EXCEPT !.buf = [i \in 0 .. (PipeCap - 1) |->
                         LET k == (i - p.wpos + PipeCap) % PipeCap
                         IN IF k < Len(d) THEN d[k + 1] ELSE p.buf[i]],
              !.wpos = (@ + Len(d)) % PipeCap,
              !.count = @ + Len(d),
              !.queue = @ \o d]

Room(p) == PipeCap - p.count

(* sys_fwrite, pipe write end: what fits is stored; nothing when an end was  *)
(* closed.                                                                   *)
WritePipe(t, f, d) ==
    /\ fd[<<t, f>>].typ = "wpipe"
    /\ LET o == fd[<<t, f>>].obj IN
       /\ ~pipe[o].broken
       /\ pipe' = [pipe EXCEPT ![o] = Stored(@, Prefix(d, Room(@)))]
    /\ UNCHANGED <<alive, fd, outfd, heap, stale, wild>>

(* sys_fread, pipe read end.  The bytes are taken before they are copied to  *)
(* the caller, and are gone if the copy fails.                               *)
ReadPipe(t, f, n) ==
    /\ fd[<<t, f>>].typ = "rpipe"
    /\ LET o == fd[<<t, f>>].obj
           k == IF n > pipe[o].count THEN pipe[o].count ELSE n
       IN pipe' = [pipe EXCEPT ![o].rpos = (@ + k) % PipeCap, ![o].count = @ - k,
                               ![o].queue = SubSeq(@, k + 1, Len(@))]
    /\ UNCHANGED <<alive, fd, outfd, heap, stale, wild>>

Remain(s) == (s.size - s.pos) % Word

(* sys_fread and sys_fwrite of a file: both move fd_pos by at most what is   *)
(* left; writing beyond the buffer damages the heap.  sys_fread takes the    *)
(* write end of a pipe for a file, too.                                      *)
MoveFile(t, f, n, writes) ==
    /\ fd[<<t, f>>].typ \in IF writes THEN {"file"} ELSE {"file", "wpipe"}
    /\ LET s == fd[<<t, f>>]
           k == IF n > Remain(s) THEN Remain(s) ELSE n IN
       /\ fd' = [fd EXCEPT ![<<t, f>>].pos = @ + k]
       /\ wild' = (writes /\ k > 0 /\ s.pos + k > s.cap)
    /\ UNCHANGED <<alive, outfd, heap, pipe, stale>>

(* sys_lseek: whence 0, 1, 2 from the start, the position, the end, in u32   *)
Clamped_not(n, s) == n
Clamped(n, s) == IF n > s.size THEN s.size ELSE n

Lseek(t, f, off, whence) ==
    /\ Open(<<t, f>>)
    /\ LET s == fd[<<t, f>>]
           base == CASE whence = 0 -> 0 [] whence = 1 -> s.pos [] whence = 2 -> s.size
       IN fd' = [fd EXCEPT ![<<t, f>>].pos = Clamped((base + off) % Word, s)]
    /\ UNCHANGED <<alive, outfd, heap, pipe, stale, wild>>

(* sys_set_outfd *)
SetOutfd(t, f) ==
    /\ outfd' = [outfd EXCEPT ![t] = IF f >= 0 /\ Open(<<t, f>>) THEN f ELSE -1]
    /\ UNCHANGED <<alive, fd, heap, pipe, stale, wild>>

(* sys_gfx_putc and sys_gfx_puts with output redirected: a byte goes to      *)
(* fd_buf[fd_pos++] whatever the type of the slot is by now: a file's        *)
(* buffer, the ring of a pipe behind its counters, or memory near address 1. *)
PutOut(t, v) ==
    /\ outfd[t] >= 0
    /\ LET x == <<t, outfd[t]>>
           s == fd[x] IN
       /\ Open(x) /\ s.pos < s.size
       /\ fd' = [fd EXCEPT ![x].pos = @ + 1]
       /\ pipe' = IF s.typ \in Pipes THEN [pipe EXCEPT ![s.obj].buf[s.pos] = v, ![s.obj].raw = TRUE]
                  ELSE pipe
       /\ wild' = (s.typ \in {"zero", "input"} \/ (s.typ = "file" /\ s.pos >= s.cap))
    /\ UNCHANGED <<alive, outfd, heap, stale>>

---------------------------------------------------------------------------

Init ==
    /\ alive = {}
    /\ fd = [s \in Slots |-> NoSlot]
    /\ outfd = [t \in Task |-> -1]
    /\ heap = {}
    /\ pipe = [o \in Obj |-> NewPipe]
    /\ stale = {}
    /\ wild = FALSE
    /\ calls = 0

Bytes == UNION {[1 .. n -> Val] : n \in 1 .. PipeCap}

(* The calls that change which objects the tables name.                      *)
TableCall(t) ==
    \/ Exit(t)
    \/ \E f \in Fd : Close(t, f)
    \/ \E d \in Devices : OpenDevice(t, d)
    \/ \E o \in Obj \ heap, n \in Sizes : OpenFile(t, o, n)
    \/ \E o \in Obj \ heap, copied \in BOOLEAN : MakePipe(t, o, copied)
    \/ \E f \in Fd : Dup(t, f)
    \/ \E f, g \in Fd : Dup2(t, f, g) \/ Dup2Fails(t, f, g)
    \/ \E c \in Task \ alive : Fork(t, c) \/ ForkFails(t, c)

(* The calls that move data and positions.                                   *)
DataCall(t) ==
    \/ \E f \in Fd, d \in Bytes : WritePipe(t, f, d)
    \/ \E f \in Fd, n \in 1 .. PipeCap : ReadPipe(t, f, n)
    \/ \E f \in Fd, n \in 1 .. PipeCap, writes \in BOOLEAN : MoveFile(t, f, n, writes)
    \/ \E f \in Fd, off \in -1 .. 1, whence \in 0 .. 2 : Lseek(t, f, off, whence)
    \/ \E f \in -1 .. (MaxFd - 1) : SetOutfd(t, f)
    \/ \E v \in Val : PutOut(t, v)

Next ==
    /\ Sound
    /\ calls < MaxCalls /\ calls' = calls + 1
    /\ \/ \E t \in Task : Launch(t)
       \/ \E t \in alive : TableCall(t) \/ DataCall(t)

Spec == Init /\ [][Next]_vars

---------------------------------------------------------------------------
(* Properties.                                                               *)

Holders(o) == {s \in Slots \ stale : fd[s].obj = o}

(* A pipe's reference count is the number of slots that name it, and a       *)
(* file's buffer, which has no count, is named by one slot, whatever fork, a *)
(* fork undone half way, dup, dup2, close and exit did in any order: nothing *)
(* is freed twice or under a holder (syscall.cpp:481, 776, 848, 1174).       *)
RefsExact ==
    \A s \in Slots \ stale :
        /\ fd[s].typ \in Pipes => pipe[fd[s].obj].refs = Cardinality(Holders(fd[s].obj))
        /\ fd[s].typ = "file" => Holders(fd[s].obj) = {s}

(* The heap holds what the slots name and nothing else: no slot names a      *)
(* freed object and no closed pipe or buffer stays allocated, also when an   *)
(* allocation or a copy to the caller failed half way.                       *)
HeapExact == heap = {fd[s].obj : s \in Slots \ stale} \ {None}

(* The kernel writes outside the object a slot names only for a file larger  *)
(* than its clamped buffer, or when output redirected to a file's slot finds *)
(* a device there.  In particular no seek and no write moves fd_pos past     *)
(* fd_size, where the unsigned size - pos would let a copy run on through    *)
(* all memory (syscall.cpp:88, 254, 751).                                    *)
WildCause ==
    wild => \E s \in Slots :
                \/ fd[s].typ = "file" /\ fd[s].size > BufMax
                \/ fd[s].typ \in {"zero", "input"} /\ outfd[s[1]] = s[2]

(* The ring of a pipe holds the bytes written and not yet read, in order,    *)
(* whichever tasks wrote and read, unless output was redirected into it.     *)
PipeFifo ==
    \A o \in heap : (\E s \in Slots : fd[s].typ \in Pipes /\ fd[s].obj = o) =>
        LET p == pipe[o] IN
        /\ p.count = Len(p.queue) /\ p.count <= PipeCap
        /\ p.raw \/ \A i \in 1 .. p.count : p.buf[(p.rpos + i - 1) % PipeCap] = p.queue[i]

(* A pipe one of whose ends has no holder left is broken, so the other end   *)
(* is told, unless dup2 replaced that end; a pipe is broken with both ends   *)
(* held only if an end was ever duplicated (syscall.cpp:30, 724).            *)
PipeEnds ==
    \A o \in heap :
        LET Ends(typ) == {s \in Slots \ stale : fd[s].typ = typ /\ fd[s].obj = o}
            gone == Ends("rpipe") = {} \/ Ends("wpipe") = {}
        IN Ends("rpipe") \cup Ends("wpipe") # {} =>
             /\ gone => pipe[o].broken \/ pipe[o].over
             /\ pipe[o].broken => gone \/ pipe[o].shared

Symmetry == Permutations(Task) \cup Permutations(Obj) \cup Permutations(Val)

============================================================================
