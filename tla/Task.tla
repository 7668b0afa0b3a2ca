-------------------------------- MODULE Task --------------------------------
(***************************************************************************)
(* The task table and scheduler of XEKernelOS: kernel/task.cpp, the timer  *)
(* and fault paths of kernel/isr.cpp, and the system calls of              *)
(* kernel/syscall.cpp that create, block, signal or end a task.            *)
(*                                                                         *)
(* The machine has one processor.  `cpu` says what it is executing: the    *)
(* boot loop of kernel_main, the code of the current task, or a phase of   *)
(* the kernel.  An interrupt gate clears IF, so a kernel phase is never    *)
(* interrupted: while cpu is a kernel phase only that phase's action is    *)
(* enabled.  A handler is one action up to the point where the code        *)
(* branches on schedule() or on a pending signal, and the phase action     *)
(* that follows it is forced.                                              *)
(***************************************************************************)
EXTENDS Integers, Sequences, FiniteSets

CONSTANTS
    MaxPid,       \* bound: pids handed out before the model stops creating tasks
    Quantum,      \* TASK_QUANTUM (4 in the build)
    TickMod,      \* 2^32 in the build: pit.ticks() and wake_tick are u32
    TickStop,     \* bound: no timer interrupt when ticks = TickStop (TickMod: no bound)
    SleepTicks,   \* the values of ms / 10 + 1 that programs ask sys_sleep for
    Sigs,         \* the signal numbers that occur
    KillSigs,     \* the signals that programs send with SYS_KILL
    Handlers,     \* the dispositions that programs install with SYS_SIGACTION
    BoostStep,    \* dynamic_boost added by a Ctrl+C (5 in the build)
    BoostCap,     \* the limit of dynamic_boost (100 in the build)
    DecayPeriod,  \* schedule() calls between two decays (10 in the build)
    Ring0Mode,    \* g_ring0_mode (TRUE in the shipped build; nothing assigns it)
    Ring3IrqOn,   \* g_ring3_irq_on (FALSE in the shipped build)
    Workload      \* what the user programs and the keyboard do

Behaviours == {"fork", "exec", "sleep", "waitpid", "exit", "abandon", "kill",
               "sigaction", "dropcap", "fault", "ctrlc"}

SIGINT  == 2
SIGSEGV == 11

(* A definition named Op_bug is a mutant of Op: a slip its code could      *)
(* have.  No specification uses it; putting it in the place of Op must     *)
(* break a property.                                                       *)
Fatal == {9, 11, 2, 15}    \* SIGKILL, SIGSEGV, SIGINT, SIGTERM

ASSUME BoundsAssumption ==
    /\ MaxPid \in Nat \ {0}
    /\ Quantum \in Nat \ {0}
    /\ TickMod \in Nat \ {0}
    /\ TickStop \in Nat
    /\ SleepTicks \subseteq Nat

ASSUME SignalAssumption ==
    /\ Sigs \subseteq 1..31
    /\ {SIGINT, SIGSEGV} \subseteq Sigs
    /\ KillSigs \subseteq Sigs
    /\ Handlers \subseteq {"DFL", "IGN", "user", "bad"}

ASSUME PriorityAssumption ==
    /\ BoostStep \in Nat /\ BoostCap \in 0..127
    /\ DecayPeriod \in Nat \ {0}

ASSUME ModeAssumption ==
    /\ Ring0Mode \in BOOLEAN /\ Ring3IrqOn \in BOOLEAN
    /\ Workload \subseteq Behaviours

Main == 0                 \* main_task, the context of kernel_main
Pid  == 0..MaxPid
User == 1..MaxPid

Phases == {"boot", "user",           \* code that interrupts can reach
           "idle",                   \* the sti; hlt; cli loop of schedule()
           "pit", "sysret", "exit", "sched", "sched_sys",
           "halt", "panic", "corrupt"}

(* "none": the pid was never handed out; "freed": its task_struct was     *)
(* returned to the heap.                                                   *)
States == {"none", "RUNNING", "READY", "BLOCKED", "DEAD", "freed"}

VARIABLES
    cpu,            \* what the processor executes
    current_task,
    next_pid,
    state,          \* task_struct.state
    ready_queue,    \* the pids on ready_queue, head first
    all_tasks,      \* the pids on all_tasks (list order is pid order)
    zombie_reap,
    parent,         \* task_struct.parent; Main's is Main, standing for nullptr
    children,
    ticks,          \* pit.ticks()
    wake_tick,
    quantum,
    dynamic_boost,
    decay_counter,
    pending,        \* pending_signals
    sig_handlers,
    cap_signal,     \* CAP_SIGNAL \in caps
    iflag,          \* IF in the EFLAGS the task runs with
    call            \* the system call a BLOCKED task is inside of

tableVars == <<next_pid, all_tasks, parent, children>>
queueVars == <<state, ready_queue, zombie_reap>>
timeVars  == <<ticks, wake_tick>>
prioVars  == <<quantum, dynamic_boost, decay_counter>>
sigVars   == <<pending, sig_handlers, cap_signal>>
vars == <<cpu, current_task, tableVars, queueVars, timeVars, prioVars,
          sigVars, iflag, call>>

-----------------------------------------------------------------------------
(* Sequences and signals *)

Queued(p) == \E i \in 1..Len(ready_queue) : ready_queue[i] = p

(* list_del of the i-th node *)
RemoveNth(s, i) == [j \in 1..(Len(s) - 1) |-> IF j < i THEN s[j] ELSE s[j + 1]]

(* The elements of S in ascending order, each once: the order in which a  *)
(* walk of all_tasks meets them, because pids only grow.                   *)
Ascending(S) ==
    { w \in [1..Cardinality(S) -> S] :
        /\ \A i, j \in 1..Cardinality(S) : i < j => w[i] < w[j]
        /\ \A p \in S : \E i \in 1..Cardinality(S) : w[i] = p }

(* The effective priority in u8 arithmetic; every task has priority 128.   *)
Eff(p) == (128 + dynamic_boost[p]) % 256

PickSet_last ==
    { i \in 1..Len(ready_queue) :
        /\ \A j \in 1..Len(ready_queue) :
              Eff(ready_queue[j]) <= Eff(ready_queue[i])
        /\ \A j \in (i + 1)..Len(ready_queue) :
              Eff(ready_queue[j]) < Eff(ready_queue[i]) }

(* The position of the first task of greatest effective priority *)
PickSet ==
    { i \in 1..Len(ready_queue) :
        /\ \A j \in 1..Len(ready_queue) :
              Eff(ready_queue[j]) <= Eff(ready_queue[i])
        /\ \A j \in 1..(i - 1) : Eff(ready_queue[j]) < Eff(ready_queue[i]) }

(* task_check_signals stops at the first pending signal that kills the     *)
(* task or enters a handler; the ones before it are consumed and ignored   *)
(* ("bad": the handler is unmapped, or its frame does not fit the stack).  *)
Stops(p) ==
    { s \in pending[p] : \/ sig_handlers[p][s] = "user"
                         \/ sig_handlers[p][s] = "DFL" /\ s \in Fatal }

FirstOf(S) == CHOOSE s \in S : \A x \in S : s <= x

StillPending(p) ==
    IF Stops(p) = {} THEN {}
    ELSE { s \in pending[p] : s > FirstOf(Stops(p)) }

Killed(p) ==
    Stops(p) # {} /\ sig_handlers[p][FirstOf(Stops(p))] = "DFL"

-----------------------------------------------------------------------------
(* task_init *)
Init ==
    /\ cpu = "boot"
    /\ current_task = Main
    /\ next_pid = 1
    /\ state = [p \in Pid |-> IF p = Main THEN "RUNNING" ELSE "none"]
    /\ ready_queue = <<>>
    /\ all_tasks = {Main}
    /\ zombie_reap = {}
    /\ parent = [p \in Pid |-> Main]
    /\ children = [p \in Pid |-> {}]
    /\ ticks = 0
    /\ wake_tick = [p \in Pid |-> 0]
    /\ quantum = [p \in Pid |-> Quantum]
    /\ dynamic_boost = [p \in Pid |-> 0]
    /\ decay_counter = 0
    /\ pending = [p \in Pid |-> {}]
    /\ sig_handlers = [p \in Pid |-> [s \in Sigs |-> "DFL"]]
    /\ cap_signal = [p \in Pid |-> TRUE]
    /\ iflag = [p \in Pid |-> TRUE]
    /\ call = [p \in Pid |-> "none"]

-----------------------------------------------------------------------------
(* Task creation *)

(* The fields task_create_user and sys_fork set alike.                     *)
NewTask(p, running) ==
    /\ next_pid <= MaxPid
    /\ next_pid' = next_pid + 1
    /\ all_tasks' = all_tasks \cup {p}
    /\ parent' = [parent EXCEPT ![p] = current_task]
    /\ children' = [children EXCEPT ![current_task] = @ \cup {p}, ![p] = {}]
    /\ state' = [state EXCEPT ![p] = running]
    /\ wake_tick' = [wake_tick EXCEPT ![p] = 0]
    /\ quantum' = [quantum EXCEPT ![p] = Quantum]
    /\ dynamic_boost' = [dynamic_boost EXCEPT ![p] = 0]
    /\ pending' = [pending EXCEPT ![p] = {}]
    /\ sig_handlers' = [sig_handlers EXCEPT ![p] = [s \in Sigs |-> "DFL"]]
    /\ cap_signal' = [cap_signal EXCEPT ![p] = cap_signal[current_task]]
    /\ call' = [call EXCEPT ![p] = "none"]
    /\ UNCHANGED <<zombie_reap, ticks, decay_counter>>

(* load_binary / shell_launch_user: cli, task_create_user (which queues    *)
(* the task, makes it current and dequeues it again), enter_user_mode.     *)
Launch ==
    /\ cpu = "boot"
    /\ NewTask(next_pid, "RUNNING")
    /\ current_task' = next_pid
    /\ iflag' = [iflag EXCEPT ![next_pid] = Ring3IrqOn /\ ~Ring0Mode]
    /\ cpu' = "user"
    /\ UNCHANGED ready_queue

ForkAllowed == ~Ring0Mode

(* SYS_FORK.  It is refused in ring0 mode and when memory runs out; the    *)
(* caller then only sees -1.                                               *)
Fork ==
    /\ cpu = "user" /\ "fork" \in Workload
    /\ ForkAllowed
    /\ NewTask(next_pid, "READY")
    /\ ready_queue' = Append(ready_queue, next_pid)
    /\ iflag' = [iflag EXCEPT ![next_pid] = iflag[current_task]]
    /\ cpu' = "sysret"
    /\ UNCHANGED current_task

(* SYS_EXEC / SYS_EXEC_FD on success: the frame gets EFLAGS 0x202 and      *)
(* everything else of the task is kept.  In ring0 mode the handler runs on *)
(* the stack of the address space it replaces, so loading the new page     *)
(* directory takes its return addresses away.                              *)
Exec ==
    /\ cpu = "user" /\ "exec" \in Workload
    /\ iflag' = [iflag EXCEPT ![current_task] = TRUE]
    /\ cpu' = IF Ring0Mode THEN "corrupt" ELSE "sysret"
    /\ UNCHANGED <<current_task, tableVars, queueVars, timeVars, prioVars,
                   sigVars, call>>

-----------------------------------------------------------------------------
(* Blocking *)

Block(c) ==
    /\ state' = [state EXCEPT ![current_task] = "BLOCKED"]
    /\ call' = [call EXCEPT ![current_task] = c]
    /\ cpu' = "sched_sys"

HasChild_unchecked == TRUE
HasChild == children[current_task] # {}

(* SYS_WAITPID: without children it returns -1 at once.                    *)
Waitpid ==
    /\ cpu = "user" /\ "waitpid" \in Workload
    /\ HasChild
    /\ Block("waitpid")
    /\ UNCHANGED <<current_task, tableVars, ready_queue, zombie_reap,
                   timeVars, prioVars, sigVars, iflag>>


(* The u32 deadline that sys_sleep stores *)
Deadline(d) == (ticks + d) % TickMod

Sleep ==
    /\ cpu = "user" /\ "sleep" \in Workload
    /\ \E d \in SleepTicks :
          wake_tick' = [wake_tick EXCEPT ![current_task] = Deadline(d)]
    /\ Block("sleep")
    /\ UNCHANGED <<current_task, tableVars, ready_queue, zombie_reap, ticks,
                   prioVars, sigVars, iflag>>

(* Every other system call, and the early returns (-1) of the ones above   *)
(* and below: no task state changes, but the return path is taken.         *)
OtherSyscall ==
    /\ cpu = "user"
    /\ cpu' = "sysret"
    /\ UNCHANGED <<current_task, tableVars, queueVars, timeVars, prioVars,
                   sigVars, iflag, call>>

-----------------------------------------------------------------------------
(* Signals and capabilities *)

(* SYS_KILL: needs CAP_SIGNAL; task_send_signal finds any task of          *)
(* all_tasks, blocked ones included.                                       *)
Kill ==
    /\ cpu = "user" /\ "kill" \in Workload
    /\ cap_signal[current_task]
    /\ \E t \in all_tasks, s \in KillSigs :
          pending' = [pending EXCEPT ![t] = @ \cup {s}]
    /\ cpu' = "sysret"
    /\ UNCHANGED <<current_task, tableVars, queueVars, timeVars, prioVars,
                   sig_handlers, cap_signal, iflag, call>>

Sigaction ==
    /\ cpu = "user" /\ "sigaction" \in Workload
    /\ \E s \in KillSigs \cup {SIGINT}, h \in Handlers :
          sig_handlers' = [sig_handlers EXCEPT ![current_task][s] = h]
    /\ cpu' = "sysret"
    /\ UNCHANGED <<current_task, tableVars, queueVars, timeVars, prioVars,
                   pending, cap_signal, iflag, call>>

DropCap ==
    /\ cpu = "user" /\ "dropcap" \in Workload
    /\ cap_signal' = [cap_signal EXCEPT ![current_task] = FALSE]
    /\ cpu' = "sysret"
    /\ UNCHANGED <<current_task, tableVars, queueVars, timeVars, prioVars,
                   pending, sig_handlers, iflag, call>>

(* The end of c_isr_handler for a system call from ring 3: pending signals *)
(* of the task that is current now, which schedule() may have changed.     *)
SysReturn ==
    /\ cpu = "sysret"
    /\ IF Ring0Mode
       THEN cpu' = "user" /\ UNCHANGED pending
       ELSE /\ pending' = [pending EXCEPT ![current_task] =
                              StillPending(current_task)]
            /\ cpu' = IF Killed(current_task) THEN "exit" ELSE "user"
    /\ UNCHANGED <<current_task, tableVars, queueVars, timeVars, prioVars,
                   sig_handlers, cap_signal, iflag, call>>

(* A page fault of user code: SIGSEGV is made pending, then the vec < 0x20 *)
(* branch below it panics all the same.                                    *)
PageFault ==
    /\ cpu = "user" /\ "fault" \in Workload
    /\ pending' = IF Ring0Mode THEN pending
                  ELSE [pending EXCEPT ![current_task] = @ \cup {SIGSEGV}]
    /\ cpu' = "panic"
    /\ UNCHANGED <<current_task, tableVars, queueVars, timeVars, prioVars,
                   sig_handlers, cap_signal, iflag, call>>

-----------------------------------------------------------------------------
(* The timer interrupt *)


Expired_notCurrent(now) ==
    { p \in all_tasks : /\ state[p] = "BLOCKED" /\ p # current_task
                        /\ wake_tick[p] # 0
                        /\ (now - wake_tick[p]) % TickMod < TickMod \div 2 }

(* The sleepers whose wake_tick the (i32)(now - wake_tick) >= 0 test finds *)
(* expired *)
Expired(now) ==
    { p \in all_tasks : /\ state[p] = "BLOCKED"
                        /\ wake_tick[p] # 0
                        /\ (now - wake_tick[p]) % TickMod < TickMod \div 2 }

Now == (ticks + 1) % TickMod

Woken == [p \in Pid |-> IF p \in Expired(Now) THEN "READY" ELSE state[p]]

(* PIT handler and the sleepers' loop, common to all contexts *)
Timer ==
    /\ ticks # TickStop
    /\ ticks' = Now
    /\ wake_tick' = [p \in Pid |-> IF p \in Expired(Now) THEN 0
                                   ELSE wake_tick[p]]
    /\ call' = [p \in Pid |-> IF p \in Expired(Now) THEN "none" ELSE call[p]]

(* In kernel_main: a ring0 frame, so main_task is requeued and schedule()  *)
(* runs on every tick.                                                     *)
TickBoot ==
    /\ cpu = "boot"
    /\ Timer
    /\ state' = [Woken EXCEPT ![Main] = "READY"]
    /\ \E w \in Ascending(Expired(Now)) :
          ready_queue' = Append(ready_queue \o w, Main)
    /\ cpu' = "sched"
    /\ UNCHANGED <<current_task, tableVars, zombie_reap, prioVars, sigVars,
                   iflag>>

(* In the idle loop: current_task is BLOCKED or READY, so no schedule().   *)
TickIdle ==
    /\ cpu = "idle"
    /\ Timer
    /\ state' = Woken
    /\ \E w \in Ascending(Expired(Now)) : ready_queue' = ready_queue \o w
    /\ UNCHANGED <<cpu, current_task, tableVars, zombie_reap, prioVars,
                   sigVars, iflag>>


(* task_boost_priority *)
Boosted(b) == IF b + BoostStep > BoostCap THEN BoostCap ELSE b + BoostStep

(* In a ring3 task with IF set.  A Ctrl+C in the keyboard buffer boosts    *)
(* the interrupted task and sends it SIGINT.                               *)
TickUser ==
    /\ cpu = "user" /\ iflag[current_task] /\ ~Ring0Mode
    /\ Timer
    /\ state' = Woken
    /\ \E w \in Ascending(Expired(Now)) : ready_queue' = ready_queue \o w
    /\ \/ UNCHANGED <<dynamic_boost, pending>>
       \/ /\ "ctrlc" \in Workload
          /\ dynamic_boost' = [dynamic_boost EXCEPT ![current_task] = Boosted(@)]
          /\ pending' = [pending EXCEPT ![current_task] = @ \cup {SIGINT}]
    /\ cpu' = "pit"
    /\ UNCHANGED <<current_task, tableVars, zombie_reap, quantum,
                   decay_counter, sig_handlers, cap_signal, iflag>>

(* The quantum after this tick *)
Spent(q) == IF q > 0 THEN q - 1 ELSE 0

(* The rest of the PIT path: task_check_signals, then preemption when the  *)
(* quantum is used up (schedule() requeues the running task at the tail).  *)
PitReturn ==
    /\ cpu = "pit"
    /\ pending' = [pending EXCEPT ![current_task] = StillPending(current_task)]
    /\ IF Killed(current_task)
       THEN cpu' = "exit" /\ UNCHANGED <<quantum, state, ready_queue>>
       ELSE /\ quantum' = [quantum EXCEPT ![current_task] = Spent(@)]
            /\ IF Spent(quantum[current_task]) = 0
               THEN /\ state' = [state EXCEPT ![current_task] = "READY"]
                    /\ ready_queue' = Append(ready_queue, current_task)
                    /\ cpu' = "sched"
               ELSE cpu' = "user" /\ UNCHANGED <<state, ready_queue>>
    /\ UNCHANGED <<current_task, tableVars, zombie_reap, timeVars,
                   dynamic_boost, decay_counter, sig_handlers, cap_signal,
                   iflag, call>>

-----------------------------------------------------------------------------
(* Exit *)

(* SYS_EXIT.  "abandon" lets a program exit while it has children.         *)
Exit ==
    /\ cpu = "user" /\ "exit" \in Workload
    /\ children[current_task] = {} \/ "abandon" \in Workload
    /\ cpu' = "exit"
    /\ UNCHANGED <<current_task, tableVars, queueVars, timeVars, prioVars,
                   sigVars, iflag, call>>

ParentWaits_notDead(par) == state[par] \notin {"DEAD", "freed"}
ParentWaits_never(par) == FALSE

(* The test task_do_exit makes before it wakes the parent *)
ParentWaits(par) == state[par] = "BLOCKED"

(* task_do_exit of a task with a parent other than main_task.  The parent  *)
(* pointer of a task that outlived its parent points into freed memory:    *)
(* either the memory still holds the dead parent (state DEAD, nobody is    *)
(* woken), or it was reused and anything may follow.                       *)
ExitToParent ==
    LET self == current_task
        par  == parent[self] IN
    /\ cpu = "exit" /\ par # Main
    /\ children' = [children EXCEPT ![par] = @ \ {self}]
    /\ zombie_reap' = zombie_reap \cup {self}
    /\ IF ParentWaits(par)
       THEN /\ state' = [state EXCEPT ![self] = "DEAD", ![par] = "READY"]
            /\ ready_queue' = Append(ready_queue, par)
            /\ call' = [call EXCEPT ![par] = "none"]
       ELSE /\ state' = [state EXCEPT ![self] = "DEAD"]
            /\ UNCHANGED <<ready_queue, call>>
    /\ \/ cpu' = "sched"
       \/ state[par] = "freed" /\ cpu' = "corrupt"
    /\ UNCHANGED <<current_task, next_pid, all_tasks, parent, timeVars,
                   prioVars, sigVars, iflag>>

(* task_do_exit of a task that main_task launched: jump to g_entry_esp,    *)
(* back in load_binary / shell_launch_user, where task_cleanup_user frees  *)
(* it and makes main_task current; then sti.                               *)
ExitToBoot ==
    LET self == current_task IN
    /\ cpu = "exit" /\ parent[self] = Main
    /\ state' = [state EXCEPT ![self] = "freed"]
    /\ all_tasks' = all_tasks \ {self}
    /\ children' = [children EXCEPT ![Main] = @ \ {self}]
    /\ current_task' = Main
    /\ cpu' = "boot"
    /\ UNCHANGED <<next_pid, parent, ready_queue, zombie_reap, timeVars,
                   prioVars, sigVars, iflag, call>>

-----------------------------------------------------------------------------
(* schedule(), after the requeueing of a RUNNING current_task *)

(* kfree of the zombies *)
Reaped == [p \in Pid |-> IF p \in zombie_reap THEN "freed" ELSE state[p]]

Unlinked_kept == all_tasks

(* all_tasks without them *)
Unlinked == all_tasks \ zombie_reap

(* An empty ready_queue: hlt for ever when current_task is the one that    *)
(* died, otherwise wait for an interrupt to queue somebody.                *)
SchedEmpty ==
    /\ cpu \in {"sched", "sched_sys"}
    /\ ready_queue = <<>>
    /\ state' = Reaped
    /\ all_tasks' = Unlinked
    /\ zombie_reap' = {}
    /\ cpu' = IF state[current_task] = "DEAD" THEN "halt" ELSE "idle"
    /\ UNCHANGED <<current_task, next_pid, parent, children, ready_queue,
                   timeVars, prioVars, sigVars, iflag, call>>

(* Every DecayPeriod-th schedule() takes one off the boost of the tasks    *)
(* left on the queue q.                                                    *)
Decayed(q) ==
    IF decay_counter + 1 >= DecayPeriod
    THEN [p \in Pid |-> IF (\E i \in 1..Len(q) : q[i] = p) /\ dynamic_boost[p] > 0
                        THEN dynamic_boost[p] - 1 ELSE dynamic_boost[p]]
    ELSE dynamic_boost

(* Where the restored frame returns to.  A ring0 frame has no SS:ESP, so a *)
(* ring0 context (main_task, any task in ring0 mode) restored over the     *)
(* frame of another task runs on that task's stack.                        *)
Resume(nt) ==
    IF nt # current_task /\ (nt = Main \/ Ring0Mode) THEN "corrupt"
    ELSE IF nt = Main THEN "boot"
    ELSE IF cpu = "sched" THEN "user" ELSE "sysret"

Dispatch ==
    /\ cpu \in {"sched", "sched_sys", "idle"}
    /\ \E i \in PickSet :
          LET nt == ready_queue[i]
              q  == RemoveNth(ready_queue, i) IN
          /\ ready_queue' = q
          /\ state' = [Reaped EXCEPT ![nt] = "RUNNING"]
          /\ quantum' = [quantum EXCEPT ![nt] = Quantum]
          /\ dynamic_boost' = Decayed(q)
          /\ current_task' = nt
          /\ cpu' = Resume(nt)
    /\ all_tasks' = Unlinked
    /\ zombie_reap' = {}
    /\ decay_counter' = IF decay_counter + 1 >= DecayPeriod THEN 0
                        ELSE decay_counter + 1
    /\ UNCHANGED <<next_pid, parent, children, timeVars, sigVars, iflag, call>>

-----------------------------------------------------------------------------
Tick == TickBoot \/ TickIdle \/ TickUser

Syscall == \/ Fork \/ Exec \/ Waitpid \/ Sleep \/ Exit
           \/ Kill \/ Sigaction \/ DropCap \/ OtherSyscall

Kernel == \/ SysReturn \/ PitReturn \/ ExitToParent \/ ExitToBoot
          \/ SchedEmpty \/ Dispatch

Next == Launch \/ Syscall \/ PageFault \/ Tick \/ Kernel

Spec == Init /\ [][Next]_vars

(***************************************************************************)
(* Fairness.  The kernel's own code always runs on (weak fairness of       *)
(* Kernel).  The PIT interrupts at 100 Hz and the PIC keeps an IRQ that    *)
(* arrives while IF is clear, so a context that is interruptible again and *)
(* again is interrupted (strong fairness of Tick).  Programs owe nothing.  *)
(***************************************************************************)
FairSpec == Spec /\ WF_vars(Kernel) /\ SF_vars(Tick)

-----------------------------------------------------------------------------
(* Safety *)

(* Every variable keeps the type of the field or list it stands for.       *)
TypeOK ==
    /\ cpu \in Phases
    /\ current_task \in Pid
    /\ next_pid \in 1..(MaxPid + 1)
    /\ state \in [Pid -> States]
    /\ ready_queue \in Seq(Pid)
    /\ all_tasks \subseteq Pid
    /\ zombie_reap \subseteq Pid
    /\ parent \in [Pid -> Pid]
    /\ children \in [Pid -> SUBSET User]
    /\ ticks \in 0..(TickMod - 1)
    /\ wake_tick \in [Pid -> 0..(TickMod - 1)]
    /\ quantum \in [Pid -> 0..Quantum]
    /\ dynamic_boost \in [Pid -> 0..BoostCap]
    /\ decay_counter \in 0..(DecayPeriod - 1)
    /\ pending \in [Pid -> SUBSET Sigs]
    /\ sig_handlers \in [Pid -> [Sigs -> {"DFL", "IGN", "user", "bad"}]]
    /\ cap_signal \in [Pid -> BOOLEAN]
    /\ iflag \in [Pid -> BOOLEAN]
    /\ call \in [Pid -> {"none", "sleep", "waitpid"}]

(* The invariant the comment in task_create_user states: a task is on      *)
(* ready_queue exactly when it is READY, and then once.  A second          *)
(* list_add_tail of a queued node would cut it out of the list and make    *)
(* schedule() walk a ring for ever; a READY task off the queue is lost.    *)
QueueExact ==
    /\ \A i, j \in 1..Len(ready_queue) :
          ready_queue[i] = ready_queue[j] => i = j
    /\ \A p \in Pid : Queued(p) <=> state[p] = "READY"

Alive(p) == state[p] \in {"RUNNING", "READY", "BLOCKED"}

(* No task is lost: whoever is not running or queued is BLOCKED and        *)
(* somebody is left who will wake it, the PIT at its wake_tick or a child  *)
(* when it exits (sys_waitpid, sys_sleep, task_do_exit together).          *)
NoLostTask ==
    \A p \in User :
        /\ state[p] = "RUNNING" => p = current_task
        /\ state[p] = "BLOCKED" => \/ wake_tick[p] # 0
                                   \/ \E c \in children[p] : Alive(c)
        /\ state[p] = "DEAD" => p \in zombie_reap

(* The idle loop of schedule() can end: with everybody BLOCKED some task   *)
(* still has a wake_tick, so waitpid never leaves all tasks waiting for    *)
(* each other.                                                             *)
IdleCanEnd ==
    cpu = "idle" => \/ ready_queue # <<>>
                    \/ \E p \in all_tasks : /\ state[p] = "BLOCKED"
                                             /\ wake_tick[p] # 0

(* The lists reach no freed task_struct: all_tasks is exactly the          *)
(* allocated tasks, and the children list of an allocated task holds       *)
(* exactly the allocated tasks whose parent pointer names it, but for the  *)
(* one on zombie_reap.                                                     *)
ListsExact ==
    /\ all_tasks = { p \in Pid : state[p] \notin {"none", "freed"} }
    /\ \A p \in all_tasks :
          children[p] = { c \in all_tasks \ {Main} :
                             parent[c] = p /\ c \notin zombie_reap }

(* The defensive hlt of schedule() (empty queue, DEAD current_task) is     *)
(* only reached by a task whose parent's task_struct is freed.             *)
HaltCause == cpu = "halt" => state[parent[current_task]] = "freed"

(* Programs that reap their children before they exit never stop the       *)
(* kernel: no halt, no panic, no jump through a wrong stack.               *)
KernelRuns == cpu \notin {"halt", "panic", "corrupt"}

-----------------------------------------------------------------------------
(* What comments of the code say and the code does not do *)

(* sys_waitpid: a task leaves waitpid when a child has exited.             *)
WaitpidReaps ==
    [][\A p \in User :
          call[p] = "waitpid" /\ call'[p] # "waitpid"
             => children'[p] # children[p]]_vars

-----------------------------------------------------------------------------
(* Liveness *)

Stopped == cpu \in {"halt", "panic", "corrupt"}

(* TASK_QUANTUM: no task on ready_queue is starved, not even by tasks that *)
(* compute for ever.                                                       *)
ReadyRuns ==
    \A p \in User : state[p] = "READY" ~> (state[p] # "READY" \/ Stopped)

(* A sleeper with a deadline is woken.                                     *)
SleepersWake ==
    \A p \in User : (state[p] = "BLOCKED" /\ wake_tick[p] # 0)
                        ~> (state[p] # "BLOCKED" \/ Stopped)
=============================================================================
