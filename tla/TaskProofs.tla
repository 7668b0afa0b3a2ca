----------------------------- MODULE TaskProofs -----------------------------
(***************************************************************************)
(* Proofs about the scheduler of module Task, for every number of tasks,   *)
(* every quantum, every tick width, every workload and both modes.         *)
(***************************************************************************)
EXTENDS Task, FiniteSetTheorems, WellFoundedInduction, TLAPS

-----------------------------------------------------------------------------
(* Facts about the operators on lists *)

(* Deleting a node of a list leaves a list of the same element type.       *)
LEMMA RemoveNthType ==
  ASSUME NEW S, NEW s \in Seq(S), NEW i \in 1..Len(s)
  PROVE  /\ RemoveNth(s, i) \in Seq(S)
         /\ Len(RemoveNth(s, i)) = Len(s) - 1
         /\ \A j \in 1..(Len(s) - 1) :
               RemoveNth(s, i)[j] = IF j < i THEN s[j] ELSE s[j + 1]
<1>1. Len(s) - 1 \in Nat
  OBVIOUS
<1>2. RemoveNth(s, i) \in [1..(Len(s) - 1) -> S]
  BY DEF RemoveNth
<1>3. QED
  BY <1>1, <1>2 DEF RemoveNth

(* A walk over a set of pids is a list without repetition of that set.     *)
LEMMA AscendingFacts ==
  ASSUME NEW S \in SUBSET Pid, NEW w \in Ascending(S)
  PROVE  /\ w \in Seq(Pid)
         /\ \A i \in 1..Len(w) : w[i] \in S
         /\ \A i, j \in 1..Len(w) : w[i] = w[j] => i = j
         /\ \A p \in S : \E i \in 1..Len(w) : w[i] = p
<1>1. IsFiniteSet(Pid)
  BY FS_Interval, BoundsAssumption DEF Pid
<1>2. IsFiniteSet(S)
  BY <1>1, FS_Subset
<1>3. Cardinality(S) \in Nat
  BY <1>2, FS_CardinalityType
<1> DEFINE n == Cardinality(S)
<1>4. /\ w \in [1..n -> S]
      /\ \A i, j \in 1..n : i < j => w[i] < w[j]
      /\ \A p \in S : \E i \in 1..n : w[i] = p
  BY DEF Ascending
<1> HIDE DEF n
<1>5. n \in Nat
  BY <1>3 DEF n
<1>6. w \in Seq(Pid) /\ Len(w) = n
  BY <1>4, <1>5
<1>7. ASSUME NEW i \in 1..n, NEW j \in 1..n, w[i] = w[j]
      PROVE  i = j
  <2>1. w[i] \in Pid /\ w[j] \in Pid
    BY <1>4
  <2>2. Pid \subseteq Int
    BY BoundsAssumption DEF Pid
  <2>3. w[i] \in Int /\ w[j] \in Int
    BY <2>1, <2>2
  <2>4. ~(w[i] < w[j]) /\ ~(w[j] < w[i])
    BY <2>3, <1>7
  <2>5. ~(i < j) /\ ~(j < i)
    BY <2>4, <1>4
  <2>6. QED
    BY <2>5, <1>5
<1>8. QED
  BY <1>4, <1>6, <1>7

-----------------------------------------------------------------------------
(* Arithmetic of u32 ticks *)

LEMMA ModType ==
  ASSUME NEW a \in Int
  PROVE  a % TickMod \in 0..(TickMod - 1)
BY BoundsAssumption

-----------------------------------------------------------------------------
(* Types *)

LEMMA InitType == Init => TypeOK
BY BoundsAssumption, SignalAssumption, PriorityAssumption, ModeAssumption
   DEF Init, TypeOK, Phases, States, Pid, User, Main

(* The sets a timer interrupt works on are sets of pids.                   *)
LEMMA ExpiredType ==
  ASSUME TypeOK
  PROVE  /\ Now \in 0..(TickMod - 1)
         /\ Expired(Now) \in SUBSET Pid
         /\ Woken \in [Pid -> States]
<1>1. ticks + 1 \in Int
  BY BoundsAssumption DEF TypeOK
<1>2. Now \in 0..(TickMod - 1)
  BY <1>1, ModType DEF Now
<1>3. Expired(Now) \in SUBSET Pid
  BY DEF TypeOK, Expired
<1>4. Woken \in [Pid -> States]
  BY DEF TypeOK, Woken, States
<1>5. QED
  BY <1>2, <1>3, <1>4

LEMMA TimerType ==
  ASSUME TypeOK, Timer
  PROVE  /\ ticks' \in 0..(TickMod - 1)
         /\ wake_tick' \in [Pid -> 0..(TickMod - 1)]
         /\ call' \in [Pid -> {"none", "sleep", "waitpid"}]
<1>1. 0 \in 0..(TickMod - 1)
  BY BoundsAssumption
<1>2. QED
  BY <1>1, ExpiredType DEF TypeOK, Timer

LEMMA NewTaskType ==
  ASSUME TypeOK, NEW st \in States, NewTask(next_pid, st)
  PROVE  /\ next_pid \in Pid
         /\ next_pid' \in 1..(MaxPid + 1)
         /\ all_tasks' \subseteq Pid
         /\ parent' \in [Pid -> Pid]
         /\ children' \in [Pid -> SUBSET User]
         /\ state' \in [Pid -> States]
         /\ wake_tick' \in [Pid -> 0..(TickMod - 1)]
         /\ quantum' \in [Pid -> 0..Quantum]
         /\ dynamic_boost' \in [Pid -> 0..BoostCap]
         /\ pending' \in [Pid -> SUBSET Sigs]
         /\ sig_handlers' \in [Pid -> [Sigs -> {"DFL", "IGN", "user", "bad"}]]
         /\ cap_signal' \in [Pid -> BOOLEAN]
         /\ call' \in [Pid -> {"none", "sleep", "waitpid"}]
         /\ UNCHANGED <<zombie_reap, ticks, decay_counter>>
<1> USE BoundsAssumption, PriorityAssumption
<1>1. next_pid \in User /\ next_pid \in Pid /\ next_pid' \in 1..(MaxPid + 1)
  BY DEF TypeOK, NewTask, Pid, User
<1>2. all_tasks' \subseteq Pid /\ parent' \in [Pid -> Pid]
  BY <1>1 DEF TypeOK, NewTask
<1>3. children' \in [Pid -> SUBSET User]
  BY <1>1 DEF TypeOK, NewTask
<1>4. state' \in [Pid -> States] /\ call' \in [Pid -> {"none", "sleep", "waitpid"}]
  BY <1>1 DEF TypeOK, NewTask
<1>5. /\ wake_tick' \in [Pid -> 0..(TickMod - 1)]
      /\ quantum' \in [Pid -> 0..Quantum]
      /\ dynamic_boost' \in [Pid -> 0..BoostCap]
  BY <1>1 DEF TypeOK, NewTask
<1>6. pending' \in [Pid -> SUBSET Sigs] /\ cap_signal' \in [Pid -> BOOLEAN]
  BY <1>1 DEF TypeOK, NewTask
<1>7. sig_handlers' \in [Pid -> [Sigs -> {"DFL", "IGN", "user", "bad"}]]
  BY <1>1 DEF TypeOK, NewTask
<1>8. QED
  BY <1>1, <1>2, <1>3, <1>4, <1>5, <1>6, <1>7 DEF NewTask

(* The queue after the sleepers of a tick were appended *)
LEMMA WokenQueueType ==
  ASSUME TypeOK, NEW w \in Ascending(Expired(Now))
  PROVE  w \in Seq(Pid) /\ ready_queue \o w \in Seq(Pid)
<1>1. ready_queue \in Seq(Pid)
  BY DEF TypeOK
<1>2. w \in Seq(Pid)
  BY ExpiredType, AscendingFacts
<1>3. QED
  BY <1>1, <1>2

LEMMA NextType == TypeOK /\ [Next]_vars => TypeOK'
<1> SUFFICES ASSUME TypeOK, [Next]_vars
             PROVE  TypeOK'
  OBVIOUS
<1> USE BoundsAssumption, SignalAssumption, PriorityAssumption, ModeAssumption
<1>1. CASE Launch
  BY <1>1, NewTaskType DEF TypeOK, Launch, Phases, States
<1>2. CASE Fork
  <2>1. NewTask(next_pid, "READY") /\ "READY" \in States
    BY <1>2 DEF Fork, States
  <2>2. ready_queue \in Seq(Pid) /\ next_pid \in Pid
    BY <2>1, NewTaskType DEF TypeOK
  <2>3. ready_queue' \in Seq(Pid)
    BY <1>2, <2>2 DEF Fork
  <2>4. iflag' \in [Pid -> BOOLEAN] /\ cpu' \in Phases
    BY <1>2 DEF TypeOK, Fork, Phases
  <2>5. QED
    BY <1>2, <2>1, <2>3, <2>4, NewTaskType DEF TypeOK, Fork
<1>3. CASE Exec
  BY <1>3 DEF TypeOK, Exec, Phases, tableVars, queueVars, timeVars, prioVars, sigVars
<1>4. CASE Waitpid
  BY <1>4 DEF TypeOK, Waitpid, Block, Phases, States, tableVars, timeVars, prioVars, sigVars
<1>5. CASE Sleep
  <2>1. PICK d \in SleepTicks :
           wake_tick' = [wake_tick EXCEPT ![current_task] = Deadline(d)]
    BY <1>5 DEF Sleep
  <2>2. ticks + d \in Int
    BY DEF TypeOK
  <2>3. Deadline(d) \in 0..(TickMod - 1)
    BY <2>2, ModType DEF Deadline
  <2>4. wake_tick' \in [Pid -> 0..(TickMod - 1)]
    BY <2>1, <2>3 DEF TypeOK
  <2>5. QED
    BY <1>5, <2>4 DEF TypeOK, Sleep, Block, Phases, States, tableVars, prioVars, sigVars
<1>6. CASE Exit
  BY <1>6 DEF TypeOK, Exit, Phases, tableVars, queueVars, timeVars, prioVars, sigVars
<1>7. CASE Kill
  <2>1. PICK t \in all_tasks, s \in KillSigs :
           pending' = [pending EXCEPT ![t] = @ \cup {s}]
    BY <1>7 DEF Kill
  <2>2. pending' \in [Pid -> SUBSET Sigs]
    BY <2>1 DEF TypeOK
  <2>3. QED
    BY <1>7, <2>2 DEF TypeOK, Kill, Phases, tableVars, queueVars, timeVars, prioVars
<1>8. CASE Sigaction
  <2>1. PICK s \in KillSigs \cup {SIGINT}, h \in Handlers :
           sig_handlers' = [sig_handlers EXCEPT ![current_task][s] = h]
    BY <1>8 DEF Sigaction
  <2>2. s \in Sigs /\ h \in {"DFL", "IGN", "user", "bad"}
    OBVIOUS
  <2>3. sig_handlers' \in [Pid -> [Sigs -> {"DFL", "IGN", "user", "bad"}]]
    BY <2>1, <2>2 DEF TypeOK
  <2>4. QED
    BY <1>8, <2>3 DEF TypeOK, Sigaction, Phases, tableVars, queueVars, timeVars, prioVars
<1>9. CASE DropCap
  BY <1>9 DEF TypeOK, DropCap, Phases, tableVars, queueVars, timeVars, prioVars
<1>10. CASE OtherSyscall
  BY <1>10 DEF TypeOK, OtherSyscall, Phases, tableVars, queueVars, timeVars, prioVars, sigVars
<1>11. CASE PageFault
  BY <1>11 DEF TypeOK, PageFault, Phases, tableVars, queueVars, timeVars, prioVars
<1>12. CASE TickBoot
  <2>1. PICK w \in Ascending(Expired(Now)) :
           ready_queue' = Append(ready_queue \o w, Main)
    BY <1>12 DEF TickBoot
  <2>2. Main \in Pid
    BY DEF Main, Pid
  <2>3. ready_queue' \in Seq(Pid)
    BY <2>1, <2>2, WokenQueueType
  <2>4. state' \in [Pid -> States]
    BY <1>12, ExpiredType DEF TickBoot, States
  <2>5. QED
    BY <1>12, <2>3, <2>4, TimerType
       DEF TypeOK, TickBoot, Phases, tableVars, prioVars, sigVars
<1>13. CASE TickIdle
  <2>1. PICK w \in Ascending(Expired(Now)) : ready_queue' = ready_queue \o w
    BY <1>13 DEF TickIdle
  <2>2. ready_queue' \in Seq(Pid)
    BY <2>1, WokenQueueType
  <2>3. QED
    BY <1>13, <2>2, ExpiredType, TimerType
       DEF TypeOK, TickIdle, tableVars, prioVars, sigVars
<1>14. CASE TickUser
  <2>1. PICK w \in Ascending(Expired(Now)) : ready_queue' = ready_queue \o w
    BY <1>14 DEF TickUser
  <2>2. ready_queue' \in Seq(Pid)
    BY <2>1, WokenQueueType
  <2>3. dynamic_boost' \in [Pid -> 0..BoostCap]
    <3>1. \A b \in 0..BoostCap : Boosted(b) \in 0..BoostCap
      BY DEF Boosted
    <3>2. CASE dynamic_boost' = dynamic_boost
      BY <3>2 DEF TypeOK
    <3>3. CASE dynamic_boost' =
                 [dynamic_boost EXCEPT ![current_task] = Boosted(@)]
      BY <3>1, <3>3 DEF TypeOK
    <3>4. QED
      BY <1>14, <3>2, <3>3 DEF TickUser
  <2>4. pending' \in [Pid -> SUBSET Sigs]
    <3>1. CASE pending' = pending
      BY <3>1 DEF TypeOK
    <3>2. CASE pending' = [pending EXCEPT ![current_task] = @ \cup {SIGINT}]
      BY <3>2 DEF TypeOK
    <3>3. QED
      BY <1>14, <3>1, <3>2 DEF TickUser
  <2>5. QED
    BY <1>14, <2>2, <2>3, <2>4, ExpiredType, TimerType
       DEF TypeOK, TickUser, Phases, tableVars
<1>15. CASE SysReturn
  <2>1. StillPending(current_task) \in SUBSET Sigs
    BY DEF TypeOK, StillPending
  <2>2. pending' \in [Pid -> SUBSET Sigs]
    <3>1. CASE pending' = pending
      BY <3>1 DEF TypeOK
    <3>2. CASE pending' = [pending EXCEPT ![current_task] =
                              StillPending(current_task)]
      BY <2>1, <3>2 DEF TypeOK
    <3>3. QED
      BY <1>15, <3>1, <3>2 DEF SysReturn
  <2>3. cpu' \in Phases
    BY <1>15 DEF SysReturn, Phases
  <2>4. QED
    BY <1>15, <2>2, <2>3 DEF TypeOK, SysReturn, tableVars, queueVars, timeVars, prioVars
<1>16. CASE PitReturn
  <2>1. StillPending(current_task) \in SUBSET Sigs
    BY DEF TypeOK, StillPending
  <2>2. pending' \in [Pid -> SUBSET Sigs]
    BY <1>16, <2>1 DEF TypeOK, PitReturn
  <2>3. quantum' \in [Pid -> 0..Quantum]
    BY <1>16 DEF TypeOK, PitReturn, Spent
  <2>4. state' \in [Pid -> States] /\ ready_queue' \in Seq(Pid) /\ cpu' \in Phases
    <3>1. CASE UNCHANGED <<state, ready_queue>>
      BY <1>16, <3>1 DEF TypeOK, PitReturn, Phases
    <3>2. CASE /\ state' = [state EXCEPT ![current_task] = "READY"]
               /\ ready_queue' = Append(ready_queue, current_task)
               /\ cpu' = "sched"
      <4>1. ready_queue \in Seq(Pid) /\ current_task \in Pid
        BY DEF TypeOK
      <4>2. ready_queue' \in Seq(Pid)
        BY <3>2, <4>1
      <4>3. state' \in [Pid -> States] /\ cpu' \in Phases
        BY <3>2 DEF TypeOK, States, Phases
      <4>4. QED
        BY <4>2, <4>3
    <3>3. QED
      BY <1>16, <3>1, <3>2 DEF PitReturn
  <2>5. QED
    BY <1>16, <2>2, <2>3, <2>4 DEF TypeOK, PitReturn, tableVars, timeVars
<1>17. CASE ExitToParent
  <2>1. current_task \in Pid /\ parent[current_task] \in Pid
    BY DEF TypeOK
  <2>2. ready_queue \in Seq(Pid)
    BY DEF TypeOK
  <2>3. children' \in [Pid -> SUBSET User]
    BY <1>17, <2>1 DEF TypeOK, ExitToParent
  <2>4. state' \in [Pid -> States] /\ ready_queue' \in Seq(Pid)
    <3>1. CASE ParentWaits(parent[current_task])
      <4>1. ready_queue' \in Seq(Pid)
        BY <1>17, <2>1, <2>2, <3>1, SMTT(30) DEF ExitToParent
      <4>2. state' \in [Pid -> States]
        <5>1. state' = [state EXCEPT ![current_task] = "DEAD",
                                     ![parent[current_task]] = "READY"]
          BY <1>17, <3>1 DEF ExitToParent
        <5>2. QED
          BY <5>1 DEF TypeOK, States
      <4>3. QED
        BY <4>1, <4>2
    <3>2. CASE ~ParentWaits(parent[current_task])
      BY <1>17, <2>1, <2>2, <3>2 DEF TypeOK, ExitToParent, States
    <3>3. QED
      BY <3>1, <3>2
  <2>5. call' \in [Pid -> {"none", "sleep", "waitpid"}] /\ cpu' \in Phases
    BY <1>17, <2>1 DEF TypeOK, ExitToParent, Phases
  <2>6. QED
    BY <1>17, <2>1, <2>3, <2>4, <2>5
       DEF TypeOK, ExitToParent, timeVars, prioVars, sigVars
<1>18. CASE ExitToBoot
  BY <1>18 DEF TypeOK, ExitToBoot, Phases, States, timeVars, prioVars, sigVars, Pid, Main
<1>19. CASE SchedEmpty
  BY <1>19 DEF TypeOK, SchedEmpty, Reaped, Unlinked, Phases, States, timeVars, prioVars, sigVars
<1>20. CASE Dispatch
  <2>1. PICK i \in PickSet :
          LET nt == ready_queue[i]
              q  == RemoveNth(ready_queue, i) IN
          /\ ready_queue' = q
          /\ state' = [Reaped EXCEPT ![nt] = "RUNNING"]
          /\ quantum' = [quantum EXCEPT ![nt] = Quantum]
          /\ dynamic_boost' = Decayed(q)
          /\ current_task' = nt
          /\ cpu' = Resume(nt)
    BY <1>20 DEF Dispatch
  <2>2. i \in 1..Len(ready_queue)
    BY DEF PickSet
  <2>3. ready_queue[i] \in Pid /\ ready_queue' \in Seq(Pid)
    BY <2>1, <2>2, RemoveNthType DEF TypeOK
  <2>4. dynamic_boost' \in [Pid -> 0..BoostCap]
    <3> DEFINE q == RemoveNth(ready_queue, i)
    <3>1. dynamic_boost' = Decayed(q)
      BY <2>1
    <3> HIDE DEF q
    <3>2. \A b \in 0..BoostCap : b > 0 => b - 1 \in 0..BoostCap
      OBVIOUS
    <3>3. Decayed(q) \in [Pid -> 0..BoostCap]
      BY <3>2 DEF TypeOK, Decayed
    <3>4. QED
      BY <3>1, <3>3
  <2>5. state' \in [Pid -> States] /\ quantum' \in [Pid -> 0..Quantum]
    BY <2>1, <2>3, SMTT(30) DEF TypeOK, Reaped, States
  <2>6. cpu' \in Phases
    BY <2>1 DEF Resume, Phases
  <2>7. decay_counter' \in 0..(DecayPeriod - 1)
    BY <1>20 DEF TypeOK, Dispatch
  <2>8. QED
    BY <1>20, <2>1, <2>3, <2>4, <2>5, <2>6, <2>7
       DEF TypeOK, Dispatch, Unlinked, timeVars, sigVars
<1>21. CASE UNCHANGED vars
  BY <1>21 DEF TypeOK, vars, tableVars, queueVars, timeVars, prioVars, sigVars
<1>22. QED
  BY <1>1, <1>2, <1>3, <1>4, <1>5, <1>6, <1>7, <1>8, <1>9, <1>10, <1>11, <1>12,
     <1>13, <1>14, <1>15, <1>16, <1>17, <1>18, <1>19, <1>20, <1>21
     DEF Next, Syscall, Tick, Kernel

(* Every variable of the scheduler keeps its type, whatever the programs   *)
(* do: no field of a task_struct, no list of task.cpp ever holds anything  *)
(* else.                                                                   *)
THEOREM TypeCorrect == Spec => []TypeOK
<1>1. Init => TypeOK
  BY InitType
<1>2. TypeOK /\ [Next]_vars => TypeOK'
  BY NextType
<1>3. QED
  BY <1>1, <1>2, PTL DEF Spec

-----------------------------------------------------------------------------
(* Lists without repetition *)

On(q, p) == \E i \in 1..Len(q) : q[i] = p

Distinct(q) == \A i, j \in 1..Len(q) : q[i] = q[j] => i = j

(* list_add_tail of a node that is not on the list                         *)
LEMMA AppendDistinct ==
  ASSUME NEW q \in Seq(Pid), NEW p \in Pid, Distinct(q), ~On(q, p)
  PROVE  /\ Distinct(Append(q, p))
         /\ \A x \in Pid : On(Append(q, p), x) <=> On(q, x) \/ x = p
<1> DEFINE r == Append(q, p)
<1>1. /\ Len(r) = Len(q) + 1 /\ Len(q) \in Nat
      /\ r[Len(q) + 1] = p
      /\ \A i \in 1..Len(q) : r[i] = q[i]
  OBVIOUS
<1> HIDE DEF r
<1>2. Distinct(r)
  BY <1>1 DEF Distinct, On
<1>3. ASSUME NEW x \in Pid
      PROVE  On(r, x) <=> On(q, x) \/ x = p
  <2>1. On(r, x) => On(q, x) \/ x = p
    BY <1>1 DEF On
  <2>2. On(q, x) => On(r, x)
    BY <1>1 DEF On
  <2>3. On(r, p)
    BY <1>1 DEF On
  <2>4. QED
    BY <2>1, <2>2, <2>3
<1>4. QED
  BY <1>2, <1>3 DEF r

(* list_add_tail of several nodes, none of them on the list                *)
LEMMA ConcatDistinct ==
  ASSUME NEW q \in Seq(Pid), NEW w \in Seq(Pid), Distinct(q), Distinct(w),
         \A x \in Pid : ~(On(q, x) /\ On(w, x))
  PROVE  /\ Distinct(q \o w)
         /\ \A x \in Pid : On(q \o w, x) <=> On(q, x) \/ On(w, x)
<1> DEFINE r == q \o w
           n == Len(q)
           m == Len(w)
<1>1. /\ n \in Nat /\ m \in Nat /\ Len(r) = n + m
      /\ \A i \in 1..n : r[i] = q[i]
      /\ \A i \in (n + 1)..(n + m) : r[i] = w[i - n]
  OBVIOUS
<1>2. /\ \A i \in 1..n : q[i] \in Pid /\ On(q, q[i])
      /\ \A i \in 1..m : w[i] \in Pid /\ On(w, w[i])
  BY DEF On
<1> HIDE DEF r, n, m
<1>3. ASSUME NEW i \in 1..Len(r), NEW j \in 1..Len(r), r[i] = r[j]
      PROVE  i = j
  <2>1. CASE i \in 1..n /\ j \in 1..n
    BY <1>1, <1>3, <2>1 DEF Distinct, n
  <2>2. CASE i \in (n + 1)..(n + m) /\ j \in (n + 1)..(n + m)
    <3>1. i - n \in 1..m /\ j - n \in 1..m
      BY <1>1, <2>2
    <3>2. w[i - n] = w[j - n]
      BY <1>1, <1>3, <2>2
    <3>3. i - n = j - n
      BY <3>1, <3>2 DEF Distinct, m
    <3>4. QED
      BY <3>3, <1>1
  <2>3. CASE i \in 1..n /\ j \in (n + 1)..(n + m)
    <3>1. j - n \in 1..m
      BY <1>1, <2>3
    <3>2. q[i] = w[j - n]
      BY <1>1, <1>3, <2>3
    <3>3. QED
      BY <1>2, <2>3, <3>1, <3>2
  <2>4. CASE j \in 1..n /\ i \in (n + 1)..(n + m)
    <3>1. i - n \in 1..m
      BY <1>1, <2>4
    <3>2. q[j] = w[i - n]
      BY <1>1, <1>3, <2>4
    <3>3. QED
      BY <1>2, <2>4, <3>1, <3>2
  <2>5. QED
    BY <1>1, <2>1, <2>2, <2>3, <2>4
<1>4. ASSUME NEW x \in Pid
      PROVE  On(r, x) <=> On(q, x) \/ On(w, x)
  <2>1. On(r, x) => On(q, x) \/ On(w, x)
    <3> SUFFICES ASSUME NEW i \in 1..Len(r), r[i] = x
                 PROVE  On(q, x) \/ On(w, x)
      BY DEF On
    <3>1. CASE i \in 1..n
      BY <1>1, <1>2, <3>1
    <3>2. CASE i \in (n + 1)..(n + m)
      <4>1. i - n \in 1..m /\ w[i - n] = x
        BY <1>1, <3>2
      <4>2. QED
        BY <4>1, <1>2
    <3>3. QED
      BY <1>1, <3>1, <3>2
  <2>2. On(q, x) => On(r, x)
    BY <1>1 DEF On, n
  <2>3. On(w, x) => On(r, x)
    <3> SUFFICES ASSUME NEW i \in 1..m, w[i] = x
                 PROVE  On(r, x)
      BY DEF On, m
    <3>1. i + n \in (n + 1)..(n + m) /\ (i + n) - n = i /\ i + n \in 1..Len(r)
      BY <1>1
    <3>2. r[i + n] = x
      BY <1>1, <3>1
    <3>3. QED
      BY <3>1, <3>2 DEF On
  <2>4. QED
    BY <2>1, <2>2, <2>3
<1>5. QED
  BY <1>3, <1>4 DEF r, Distinct

(* list_del takes exactly one task off the list.                           *)
LEMMA RemoveDistinct ==
  ASSUME NEW q \in Seq(Pid), Distinct(q), NEW i \in 1..Len(q)
  PROVE  /\ Distinct(RemoveNth(q, i))
         /\ \A x \in Pid : On(RemoveNth(q, i), x) <=> On(q, x) /\ x # q[i]
<1> DEFINE r == RemoveNth(q, i)
           n == Len(q)
<1>1. /\ n \in Nat /\ Len(r) = n - 1
      /\ \A j \in 1..(n - 1) : r[j] = IF j < i THEN q[j] ELSE q[j + 1]
  BY RemoveNthType
<1> HIDE DEF r
<1>2. ASSUME NEW j \in 1..Len(r), NEW k \in 1..Len(r), r[j] = r[k]
      PROVE  j = k
  <2> DEFINE jj == IF j < i THEN j ELSE j + 1
             kk == IF k < i THEN k ELSE k + 1
  <2>1. jj \in 1..n /\ kk \in 1..n
    BY <1>1
  <2>2. q[jj] = q[kk]
    BY <1>1, <1>2
  <2>3. jj = kk
    BY <2>1, <2>2 DEF Distinct
  <2>4. QED
    BY <2>3, <1>1
<1>3. ASSUME NEW x \in Pid
      PROVE  On(r, x) <=> On(q, x) /\ x # q[i]
  <2>1. ASSUME On(r, x)
        PROVE  On(q, x) /\ x # q[i]
    <3>1. PICK j \in 1..(n - 1) : r[j] = x
      BY <1>1, <2>1 DEF On
    <3> DEFINE jj == IF j < i THEN j ELSE j + 1
    <3>2. jj \in 1..n /\ jj # i /\ q[jj] = x
      BY <1>1, <3>1
    <3> HIDE DEF jj
    <3>3. QED
      BY <3>2 DEF On, Distinct
  <2>2. ASSUME On(q, x), x # q[i]
        PROVE  On(r, x)
    <3>1. PICK k \in 1..n : q[k] = x
      BY <2>2 DEF On
    <3> DEFINE kk == IF k < i THEN k ELSE k - 1
    <3>2. k # i
      BY <2>2, <3>1
    <3>3. kk \in 1..(n - 1) /\ r[kk] = x
      BY <1>1, <3>1, <3>2
    <3>4. QED
      BY <1>1, <3>3 DEF On
  <2>3. QED
    BY <2>1, <2>2
<1>4. QED
  BY <1>2, <1>3 DEF r, Distinct

-----------------------------------------------------------------------------
(* The ready queue *)

(* A pid that was not handed out has no task_struct.                       *)
Fresh == \A p \in Pid : p >= next_pid => state[p] = "none"

(* Whoever executes its own code is RUNNING.                               *)
OnCpu ==
    /\ cpu \in {"user", "pit", "sysret", "exit"}
          => current_task \in User /\ state[current_task] = "RUNNING"
    /\ cpu = "boot" => current_task = Main /\ state[Main] = "RUNNING"

(* While a task that main_task launched lives, main_task waits for it in   *)
(* enter_user_mode, RUNNING and on no queue, and there is one such task.   *)
MainWaits ==
    /\ \A p \in User : Alive(p) /\ parent[p] = Main
                          => state[Main] = "RUNNING" /\ cpu # "boot"
    /\ \A p, q \in User : /\ Alive(p) /\ parent[p] = Main
                           /\ Alive(q) /\ parent[q] = Main => p = q

(* zombie_reap holds dead tasks only.                                      *)
ZombiesDead == \A p \in zombie_reap : state[p] = "DEAD"

QueueInv == TypeOK /\ QueueExact /\ Fresh /\ OnCpu /\ MainWaits /\ ZombiesDead

(* The invariant, as facts about the list operators                        *)
LEMMA QueueFacts ==
  ASSUME QueueInv
  PROVE  /\ current_task \in Pid /\ next_pid \in Nat /\ Main \in Pid
         /\ User \subseteq Pid /\ \A p \in Pid : p # Main => p \in User
         /\ state \in [Pid -> States] /\ parent \in [Pid -> Pid]
         /\ ready_queue \in Seq(Pid) /\ Distinct(ready_queue)
         /\ \A p \in Pid : On(ready_queue, p) <=> state[p] = "READY"
<1> USE BoundsAssumption
<1>1. /\ current_task \in Pid /\ next_pid \in Nat
      /\ state \in [Pid -> States] /\ parent \in [Pid -> Pid]
      /\ ready_queue \in Seq(Pid)
  BY DEF QueueInv, TypeOK
<1>2. Main \in Pid /\ User \subseteq Pid /\ \A p \in Pid : p # Main => p \in User
  BY DEF Main, User, Pid
<1>3. Distinct(ready_queue) /\ \A p \in Pid : On(ready_queue, p) <=> state[p] = "READY"
  BY DEF QueueInv, QueueExact, Queued, On, Distinct
<1>4. QED
  BY <1>1, <1>2, <1>3

LEMMA QueueExactPrime ==
  ASSUME Distinct(ready_queue'),
         \A p \in Pid : On(ready_queue', p) <=> state'[p] = "READY"
  PROVE  QueueExact'
BY DEF QueueExact, Queued, On, Distinct

(* A step that changes neither the table nor the queue                     *)
LEMMA QuietStep ==
  ASSUME QueueInv,
         UNCHANGED <<current_task, next_pid, state, ready_queue, zombie_reap, parent>>,
         cpu' # "boot",
         cpu' \in {"user", "pit", "sysret", "exit"}
            => cpu \in {"user", "pit", "sysret", "exit"}
  PROVE  (QueueExact /\ Fresh /\ OnCpu /\ MainWaits /\ ZombiesDead)'
<1>1. QueueExact'
  BY QueueFacts, QueueExactPrime
<1>2. Fresh' /\ ZombiesDead'
  BY DEF QueueInv, Fresh, ZombiesDead
<1>3. OnCpu'
  BY DEF QueueInv, OnCpu
<1>4. MainWaits'
  BY DEF QueueInv, MainWaits, Alive
<1>5. QED
  BY <1>1, <1>2, <1>3, <1>4

(* task_create_user: the new task runs at once, on no queue.               *)
LEMMA LaunchStep ==
  ASSUME QueueInv, Launch
  PROVE  (QueueExact /\ Fresh /\ OnCpu /\ MainWaits /\ ZombiesDead)'
<1> DEFINE p == next_pid
<1>1. p \in User /\ p \in Pid /\ p # Main
  BY BoundsAssumption DEF QueueInv, TypeOK, Launch, NewTask, User, Pid, Main
<1>2. state[p] = "none" /\ current_task = Main /\ state[Main] = "RUNNING"
  BY <1>1, QueueFacts DEF QueueInv, Fresh, OnCpu, Launch
<1>3. /\ state' = [state EXCEPT ![p] = "RUNNING"]
      /\ parent' = [parent EXCEPT ![p] = Main]
      /\ next_pid' = next_pid + 1 /\ cpu' = "user" /\ current_task' = p
      /\ UNCHANGED <<ready_queue, zombie_reap>>
  BY <1>2 DEF Launch, NewTask
<1> HIDE DEF p
<1>4. QueueExact'
  BY <1>1, <1>2, <1>3, QueueFacts, QueueExactPrime
<1>5. Fresh'
  <2> SUFFICES ASSUME NEW x \in Pid, x >= next_pid'
               PROVE  state'[x] = "none"
    BY DEF Fresh
  <2>1. x \in Int /\ next_pid \in Nat
    BY BoundsAssumption, QueueFacts DEF Pid
  <2>2. x # p /\ x >= next_pid
    BY <1>3, <2>1 DEF p
  <2>3. QED
    BY <2>2, <1>3, QueueFacts DEF QueueInv, Fresh
<1>6. OnCpu' /\ ZombiesDead'
  BY <1>1, <1>2, <1>3, QueueFacts DEF QueueInv, OnCpu, ZombiesDead, TypeOK
<1>7. \A x \in User : Alive(x)' /\ parent'[x] = Main => x = p
  BY <1>1, <1>3, QueueFacts DEF QueueInv, MainWaits, Alive, Launch
<1>8. MainWaits'
  BY <1>1, <1>2, <1>3, <1>7, QueueFacts DEF MainWaits
<1>9. QED
  BY <1>4, <1>5, <1>6, <1>8

(* sys_fork: the child is queued READY.                                    *)
LEMMA ForkStep ==
  ASSUME QueueInv, Fork
  PROVE  (QueueExact /\ Fresh /\ OnCpu /\ MainWaits /\ ZombiesDead)'
<1> DEFINE p == next_pid
<1>1. p \in User /\ p \in Pid /\ p # Main
  BY BoundsAssumption DEF QueueInv, TypeOK, Fork, NewTask, User, Pid, Main
<1>2. /\ state[p] = "none" /\ current_task \in User /\ current_task # Main
      /\ state[current_task] = "RUNNING"
  BY <1>1, QueueFacts DEF QueueInv, Fresh, OnCpu, Fork, User, Main
<1>3. /\ state' = [state EXCEPT ![p] = "READY"]
      /\ parent' = [parent EXCEPT ![p] = current_task]
      /\ ready_queue' = Append(ready_queue, p)
      /\ next_pid' = next_pid + 1 /\ cpu' = "sysret"
      /\ UNCHANGED <<current_task, zombie_reap>>
  BY <1>2 DEF Fork, NewTask
<1> HIDE DEF p
<1>4. QueueExact'
  <2>1. ~On(ready_queue, p)
    BY <1>1, <1>2, QueueFacts
  <2>2. /\ Distinct(ready_queue')
        /\ \A x \in Pid : On(ready_queue', x) <=> On(ready_queue, x) \/ x = p
    BY <1>1, <1>3, <2>1, QueueFacts, AppendDistinct
  <2>3. QED
    BY <1>1, <1>3, <2>2, QueueFacts, QueueExactPrime
<1>5. Fresh'
  <2> SUFFICES ASSUME NEW x \in Pid, x >= next_pid'
               PROVE  state'[x] = "none"
    BY DEF Fresh
  <2>1. x \in Int /\ next_pid \in Nat
    BY BoundsAssumption, QueueFacts DEF Pid
  <2>2. x # p /\ x >= next_pid
    BY <1>3, <2>1 DEF p
  <2>3. QED
    BY <2>2, <1>3, QueueFacts DEF QueueInv, Fresh
<1>6. OnCpu' /\ ZombiesDead'
  BY <1>1, <1>2, <1>3, QueueFacts DEF QueueInv, OnCpu, ZombiesDead, TypeOK
<1>7. \A x \in User : Alive(x)' /\ parent'[x] = Main => Alive(x) /\ parent[x] = Main
  BY <1>1, <1>2, <1>3, QueueFacts DEF Alive
<1>8. MainWaits'
  BY <1>1, <1>3, <1>7, QueueFacts DEF QueueInv, MainWaits
<1>9. QED
  BY <1>4, <1>5, <1>6, <1>8

(* sys_waitpid and sys_sleep take the caller off the processor.            *)
LEMMA BlockStep ==
  ASSUME QueueInv, Waitpid \/ Sleep
  PROVE  (QueueExact /\ Fresh /\ OnCpu /\ MainWaits /\ ZombiesDead)'
<1>1. current_task \in User /\ current_task # Main /\ state[current_task] = "RUNNING"
  BY DEF QueueInv, OnCpu, Waitpid, Sleep, User, Main
<1>2. /\ state' = [state EXCEPT ![current_task] = "BLOCKED"]
      /\ cpu' = "sched_sys"
      /\ UNCHANGED <<current_task, next_pid, parent, ready_queue, zombie_reap>>
  BY DEF Waitpid, Sleep, Block, tableVars
<1>3. QueueExact'
  BY <1>1, <1>2, QueueFacts, QueueExactPrime
<1>4. Fresh' /\ OnCpu' /\ ZombiesDead'
  BY <1>1, <1>2, QueueFacts DEF QueueInv, Fresh, OnCpu, ZombiesDead, TypeOK
<1>5. \A x \in User : Alive(x)' /\ parent'[x] = Main => Alive(x) /\ parent[x] = Main
  BY <1>1, <1>2, QueueFacts DEF Alive
<1>6. MainWaits'
  BY <1>1, <1>2, <1>5, QueueFacts DEF QueueInv, MainWaits
<1>7. QED
  BY <1>3, <1>4, <1>6

(* The sleepers a tick wakes were BLOCKED, so none of them is queued twice.*)
LEMMA WakeStep ==
  ASSUME QueueInv, NEW w \in Ascending(Expired(Now))
  PROVE  /\ ready_queue \o w \in Seq(Pid)
         /\ Distinct(ready_queue \o w)
         /\ \A p \in Pid : On(ready_queue \o w, p) <=> Woken[p] = "READY"
         /\ \A p \in Pid : state[p] # "BLOCKED" => Woken[p] = state[p]
         /\ \A p \in Pid : state[p] = "BLOCKED" => Woken[p] \in {"BLOCKED", "READY"}
<1>1. TypeOK
  BY DEF QueueInv
<1>2. Expired(Now) \in SUBSET Pid /\ ready_queue \o w \in Seq(Pid)
  BY <1>1, ExpiredType, WokenQueueType
<1>3. w \in Seq(Pid) /\ Distinct(w) /\ \A p \in Pid : On(w, p) <=> p \in Expired(Now)
  BY <1>2, AscendingFacts DEF Distinct, On
<1>4. \A p \in Expired(Now) : state[p] = "BLOCKED"
  BY DEF Expired
<1>5. \A p \in Pid : ~(On(ready_queue, p) /\ On(w, p))
  BY <1>3, <1>4, QueueFacts
<1>6. /\ Distinct(ready_queue \o w)
      /\ \A p \in Pid : On(ready_queue \o w, p) <=> On(ready_queue, p) \/ On(w, p)
  BY <1>3, <1>5, QueueFacts, ConcatDistinct
<1>7. \A p \in Pid : Woken[p] = IF p \in Expired(Now) THEN "READY" ELSE state[p]
  BY DEF Woken
<1>8. QED
  BY <1>2, <1>3, <1>4, <1>6, <1>7, QueueFacts

(* A tick that interrupts kernel_main: main_task is queued behind them.    *)
LEMMA TickBootStep ==
  ASSUME QueueInv, TickBoot
  PROVE  (QueueExact /\ Fresh /\ OnCpu /\ MainWaits /\ ZombiesDead)'
<1>1. PICK w \in Ascending(Expired(Now)) :
         ready_queue' = Append(ready_queue \o w, Main)
  BY DEF TickBoot
<1>2. /\ cpu' = "sched" /\ state' = [Woken EXCEPT ![Main] = "READY"]
      /\ UNCHANGED <<current_task, next_pid, parent, zombie_reap>>
  BY DEF TickBoot, tableVars
<1>3. state[Main] = "RUNNING" /\ \A x \in User : ~(Alive(x) /\ parent[x] = Main)
  BY DEF QueueInv, OnCpu, MainWaits, TickBoot
<1>4. Woken \in [Pid -> States] /\ ~On(ready_queue \o w, Main)
  BY <1>3, WakeStep, QueueFacts, ExpiredType DEF QueueInv
<1>5. QueueExact'
  <2>1. /\ Distinct(ready_queue')
        /\ \A x \in Pid : On(ready_queue', x) <=> On(ready_queue \o w, x) \/ x = Main
    BY <1>1, <1>4, WakeStep, QueueFacts, AppendDistinct
  <2>2. QED
    BY <1>2, <1>4, <2>1, WakeStep, QueueFacts, QueueExactPrime
<1>6. Fresh'
  BY <1>2, <1>3, <1>4, WakeStep, QueueFacts DEF QueueInv, Fresh
<1>7. OnCpu'
  BY <1>2 DEF OnCpu
<1>8. ZombiesDead'
  BY <1>2, <1>3, <1>4, WakeStep, QueueFacts DEF QueueInv, ZombiesDead, TypeOK
<1>9. \A x \in User : Alive(x)' => Alive(x) \/ x = Main
  BY <1>2, <1>4, WakeStep, QueueFacts DEF Alive
<1>10. MainWaits'
  BY <1>2, <1>3, <1>9, QueueFacts DEF MainWaits, User, Main
<1>11. QED
  BY <1>5, <1>6, <1>7, <1>8, <1>10

(* A tick in the idle loop or in user code                                 *)
LEMMA TickStep ==
  ASSUME QueueInv, TickIdle \/ TickUser
  PROVE  (QueueExact /\ Fresh /\ OnCpu /\ MainWaits /\ ZombiesDead)'
<1>1. PICK w \in Ascending(Expired(Now)) : ready_queue' = ready_queue \o w
  BY DEF TickIdle, TickUser
<1>2. /\ cpu' \in {"pit", "idle"} /\ (cpu' = "pit" => cpu = "user")
      /\ state' = Woken
      /\ UNCHANGED <<current_task, next_pid, parent, zombie_reap>>
  BY DEF TickIdle, TickUser, tableVars
<1>3. QueueExact'
  BY <1>1, <1>2, WakeStep, QueueExactPrime
<1>4. Fresh'
  BY <1>2, WakeStep DEF QueueInv, Fresh
<1>5. OnCpu'
  BY <1>2, WakeStep, QueueFacts DEF QueueInv, OnCpu
<1>6. ZombiesDead'
  BY <1>2, WakeStep DEF QueueInv, ZombiesDead, TypeOK
<1>7. \A x \in User : Alive(x)' /\ parent'[x] = Main => Alive(x) /\ parent[x] = Main
  BY <1>2, WakeStep, QueueFacts DEF Alive
<1>8. MainWaits'
  BY <1>2, <1>7, WakeStep, QueueFacts DEF QueueInv, MainWaits
<1>9. QED
  BY <1>3, <1>4, <1>5, <1>6, <1>8

(* The end of the quantum: the running task goes to the tail.              *)
LEMMA PitReturnStep ==
  ASSUME QueueInv, PitReturn
  PROVE  (QueueExact /\ Fresh /\ OnCpu /\ MainWaits /\ ZombiesDead)'
<1>1. /\ current_task \in User /\ current_task \in Pid /\ current_task # Main
      /\ state[current_task] = "RUNNING"
  BY QueueFacts DEF QueueInv, OnCpu, PitReturn, User, Main
<1>2. UNCHANGED <<current_task, next_pid, parent, zombie_reap>>
  BY DEF PitReturn, tableVars
<1>3. CASE UNCHANGED <<state, ready_queue>>
  <2>1. cpu = "pit" /\ cpu' # "boot"
    BY DEF PitReturn
  <2>2. QED
    BY <1>2, <1>3, <2>1, QuietStep
<1>4. CASE /\ state' = [state EXCEPT ![current_task] = "READY"]
           /\ ready_queue' = Append(ready_queue, current_task)
           /\ cpu' = "sched"
  <2>1. QueueExact'
    <3>1. ~On(ready_queue, current_task)
      BY <1>1, QueueFacts
    <3>2. /\ Distinct(ready_queue')
          /\ \A x \in Pid : On(ready_queue', x)
                               <=> On(ready_queue, x) \/ x = current_task
      BY <1>1, <1>4, <3>1, QueueFacts, AppendDistinct
    <3>3. QED
      BY <1>1, <1>4, <3>2, QueueFacts, QueueExactPrime
  <2>2. Fresh' /\ OnCpu' /\ ZombiesDead'
    BY <1>1, <1>2, <1>4, QueueFacts DEF QueueInv, Fresh, OnCpu, ZombiesDead, TypeOK
  <2>3. \A x \in User : Alive(x)' /\ parent'[x] = Main => Alive(x) /\ parent[x] = Main
    BY <1>1, <1>2, <1>4, QueueFacts DEF Alive
  <2>4. MainWaits'
    BY <1>1, <1>2, <1>4, <2>3, QueueFacts DEF QueueInv, MainWaits
  <2>5. QED
    BY <2>1, <2>2, <2>4
<1>5. QED
  BY <1>3, <1>4 DEF PitReturn

(* task_do_exit: a BLOCKED parent is queued, any other is left alone.      *)
LEMMA ExitToParentStep ==
  ASSUME QueueInv, ExitToParent
  PROVE  (QueueExact /\ Fresh /\ OnCpu /\ MainWaits /\ ZombiesDead)'
<1> DEFINE self == current_task
           par  == parent[current_task]
<1>1. /\ self \in User /\ self \in Pid /\ self # Main /\ state[self] = "RUNNING"
      /\ par \in Pid /\ par # Main
  BY QueueFacts DEF QueueInv, OnCpu, ExitToParent, User, Main
<1>2. /\ zombie_reap' = zombie_reap \cup {self}
      /\ cpu' \in {"sched", "corrupt"}
      /\ UNCHANGED <<current_task, next_pid, parent>>
  BY DEF ExitToParent
<1>3. CASE state[par] = "BLOCKED"
  <2>1. /\ state' = [state EXCEPT ![self] = "DEAD", ![par] = "READY"]
        /\ ready_queue' = Append(ready_queue, par)
    BY <1>3 DEF ExitToParent, ParentWaits
  <2>2. par # self /\ ~On(ready_queue, par)
    BY <1>1, <1>3, QueueFacts
  <2> HIDE DEF self, par
  <2>3. /\ state' \in [Pid -> States]
        /\ \A x \in Pid : state'[x] = IF x = par THEN "READY"
                                      ELSE IF x = self THEN "DEAD" ELSE state[x]
    BY <1>1, <2>1, <2>2, QueueFacts DEF States
  <2>4. QueueExact'
    <3>1. /\ Distinct(ready_queue')
          /\ \A x \in Pid : On(ready_queue', x) <=> On(ready_queue, x) \/ x = par
      BY <1>1, <2>1, <2>2, QueueFacts, AppendDistinct
    <3>2. QED
      BY <1>1, <2>2, <2>3, <3>1, QueueFacts, QueueExactPrime
  <2>5. Fresh' /\ OnCpu'
    BY <1>1, <1>2, <1>3, <2>3, QueueFacts DEF QueueInv, Fresh, OnCpu
  <2>6. ZombiesDead'
    BY <1>1, <1>2, <1>3, <2>2, <2>3, QueueFacts DEF QueueInv, ZombiesDead, TypeOK
  <2>7. \A x \in User : Alive(x)' /\ parent'[x] = Main => Alive(x) /\ parent[x] = Main
    BY <1>1, <1>2, <1>3, <2>3, QueueFacts DEF Alive
  <2>8. MainWaits'
    BY <1>1, <1>2, <2>3, <2>7, QueueFacts DEF QueueInv, MainWaits
  <2>9. QED
    BY <2>4, <2>5, <2>6, <2>8
<1>4. CASE state[par] # "BLOCKED"
  <2>1. state' = [state EXCEPT ![self] = "DEAD"] /\ ready_queue' = ready_queue
    BY <1>4 DEF ExitToParent, ParentWaits
  <2> HIDE DEF self, par
  <2>2. QueueExact'
    BY <1>1, <2>1, QueueFacts, QueueExactPrime
  <2>3. Fresh' /\ OnCpu'
    BY <1>1, <1>2, <2>1, QueueFacts DEF QueueInv, Fresh, OnCpu
  <2>4. ZombiesDead'
    BY <1>1, <1>2, <2>1, QueueFacts DEF QueueInv, ZombiesDead, TypeOK
  <2>5. \A x \in User : Alive(x)' /\ parent'[x] = Main => Alive(x) /\ parent[x] = Main
    BY <1>1, <1>2, <2>1, QueueFacts DEF Alive
  <2>6. MainWaits'
    BY <1>1, <1>2, <2>1, <2>5, QueueFacts DEF QueueInv, MainWaits
  <2>7. QED
    BY <2>2, <2>3, <2>4, <2>6
<1>5. QED
  BY <1>3, <1>4

(* Back to kernel_main: nobody else had main_task for a parent.            *)
LEMMA ExitToBootStep ==
  ASSUME QueueInv, ExitToBoot
  PROVE  (QueueExact /\ Fresh /\ OnCpu /\ MainWaits /\ ZombiesDead)'
<1> DEFINE self == current_task
<1>1. /\ self \in User /\ self \in Pid /\ self # Main /\ state[self] = "RUNNING"
      /\ parent[self] = Main
  BY QueueFacts DEF QueueInv, OnCpu, ExitToBoot, User, Main
<1>2. /\ state' = [state EXCEPT ![self] = "freed"]
      /\ current_task' = Main /\ cpu' = "boot"
      /\ UNCHANGED <<next_pid, parent, ready_queue, zombie_reap>>
  BY DEF ExitToBoot
<1>3. state[Main] = "RUNNING" /\ \A x \in User : Alive(x) /\ parent[x] = Main => x = self
  BY <1>1 DEF QueueInv, MainWaits, Alive
<1> HIDE DEF self
<1>4. QueueExact'
  BY <1>1, <1>2, QueueFacts, QueueExactPrime
<1>5. Fresh' /\ OnCpu'
  BY <1>1, <1>2, <1>3, QueueFacts DEF QueueInv, Fresh, OnCpu
<1>6. ZombiesDead'
  BY <1>1, <1>2, QueueFacts DEF QueueInv, ZombiesDead, TypeOK
<1>7. \A x \in User : ~(Alive(x)' /\ parent'[x] = Main)
  BY <1>1, <1>2, <1>3, QueueFacts DEF Alive
<1>8. MainWaits'
  BY <1>7 DEF MainWaits
<1>9. QED
  BY <1>4, <1>5, <1>6, <1>8

(* schedule() frees zombies only.                                          *)
LEMMA ReapedFacts ==
  ASSUME QueueInv
  PROVE  /\ Reaped \in [Pid -> States]
         /\ \A p \in Pid : Reaped[p] # state[p]
               => state[p] = "DEAD" /\ Reaped[p] = "freed"
         /\ \A p \in zombie_reap : Reaped[p] = "freed"
BY QueueFacts DEF QueueInv, TypeOK, ZombiesDead, Reaped, States

LEMMA SchedEmptyStep ==
  ASSUME QueueInv, SchedEmpty
  PROVE  (QueueExact /\ Fresh /\ OnCpu /\ MainWaits /\ ZombiesDead)'
<1>1. /\ state' = Reaped /\ zombie_reap' = {} /\ cpu' \in {"halt", "idle"}
      /\ UNCHANGED <<current_task, next_pid, parent, ready_queue>>
  BY DEF SchedEmpty
<1>2. QueueExact'
  BY <1>1, ReapedFacts, QueueFacts, QueueExactPrime
<1>3. Fresh' /\ OnCpu' /\ ZombiesDead'
  BY <1>1, ReapedFacts DEF QueueInv, Fresh, OnCpu, ZombiesDead
<1>4. \A x \in User : Alive(x)' /\ parent'[x] = Main => Alive(x) /\ parent[x] = Main
  BY <1>1, ReapedFacts, QueueFacts DEF Alive
<1>5. MainWaits'
  BY <1>1, <1>4, ReapedFacts, QueueFacts DEF QueueInv, MainWaits
<1>6. QED
  BY <1>2, <1>3, <1>5

(* schedule() picks one task, takes it off the queue and runs it.          *)
LEMMA DispatchStep ==
  ASSUME QueueInv, Dispatch
  PROVE  (QueueExact /\ Fresh /\ OnCpu /\ MainWaits /\ ZombiesDead)'
<1>1. PICK i \in PickSet :
        /\ ready_queue' = RemoveNth(ready_queue, i)
        /\ state' = [Reaped EXCEPT ![ready_queue[i]] = "RUNNING"]
        /\ current_task' = ready_queue[i]
        /\ cpu' = Resume(ready_queue[i])
  BY DEF Dispatch
<1>2. /\ zombie_reap' = {} /\ cpu \in {"sched", "sched_sys", "idle"}
      /\ UNCHANGED <<next_pid, parent>>
  BY DEF Dispatch
<1>3. i \in 1..Len(ready_queue)
  BY DEF PickSet
<1> DEFINE nt == ready_queue[i]
<1>4. nt \in Pid /\ state[nt] = "READY"
  BY <1>3, QueueFacts DEF On
<1>5. /\ Distinct(ready_queue')
      /\ \A x \in Pid : On(ready_queue', x) <=> On(ready_queue, x) /\ x # nt
  BY <1>1, <1>3, QueueFacts, RemoveDistinct
<1>6. \A x \in Pid : state'[x] = IF x = nt THEN "RUNNING" ELSE Reaped[x]
  BY <1>1, <1>4, ReapedFacts
<1>7. cpu' \in {"corrupt", "user", "sysret", "boot"} /\ (cpu' = "boot" => nt = Main)
  BY <1>1 DEF Resume
<1>8. cpu' \in {"user", "sysret"} => nt # Main
  BY <1>1 DEF Resume
<1>9. current_task' = nt
  BY <1>1
<1> HIDE DEF nt
<1>10. QueueExact'
  BY <1>4, <1>5, <1>6, ReapedFacts, QueueFacts, QueueExactPrime
<1>11. Fresh' /\ ZombiesDead'
  BY <1>2, <1>4, <1>6, ReapedFacts, QueueFacts DEF QueueInv, Fresh, ZombiesDead
<1>12. OnCpu'
  BY <1>4, <1>6, <1>7, <1>8, <1>9, QueueFacts DEF OnCpu
<1>13. \A x \in User : Alive(x)' /\ parent'[x] = Main => Alive(x) /\ parent[x] = Main
  BY <1>2, <1>4, <1>6, ReapedFacts, QueueFacts DEF Alive
<1>14. ASSUME NEW x \in User, Alive(x), parent[x] = Main
       PROVE  state'[Main] = "RUNNING" /\ cpu' # "boot"
  <2>1. state[Main] = "RUNNING"
    BY <1>14 DEF QueueInv, MainWaits
  <2>2. nt # Main
    BY <1>4, <2>1
  <2>3. QED
    BY <1>6, <1>7, <2>1, <2>2, ReapedFacts, QueueFacts
<1>15. MainWaits'
  BY <1>13, <1>14 DEF QueueInv, MainWaits
<1>16. QED
  BY <1>10, <1>11, <1>12, <1>15

LEMMA QueueNext == QueueInv /\ [Next]_vars => QueueInv'
<1> SUFFICES ASSUME QueueInv, [Next]_vars
             PROVE  QueueInv'
  OBVIOUS
<1>1. TypeOK'
  BY NextType DEF QueueInv
<1> SUFFICES (QueueExact /\ Fresh /\ OnCpu /\ MainWaits /\ ZombiesDead)'
  BY <1>1 DEF QueueInv
<1>2. CASE Exec \/ Exit \/ Kill \/ Sigaction \/ DropCap \/ OtherSyscall
           \/ PageFault \/ SysReturn
  <2>1. /\ UNCHANGED <<current_task, next_pid, state, ready_queue, zombie_reap, parent>>
        /\ cpu' # "boot" /\ cpu \in {"user", "sysret"}
    BY <1>2 DEF Exec, Exit, Kill, Sigaction, DropCap, OtherSyscall, PageFault,
                SysReturn, tableVars, queueVars
  <2>2. QED
    BY <2>1, QuietStep
<1>3. CASE UNCHANGED vars
  <2>1. UNCHANGED <<cpu, current_task, next_pid, state, ready_queue, zombie_reap, parent>>
    BY <1>3 DEF vars, tableVars, queueVars
  <2>2. QueueExact'
    BY <2>1, QueueFacts, QueueExactPrime
  <2>3. QED
    BY <2>1, <2>2 DEF QueueInv, Fresh, OnCpu, MainWaits, ZombiesDead, Alive
<1>4. QED
  BY <1>2, <1>3, LaunchStep, ForkStep, BlockStep, TickBootStep, TickStep,
     PitReturnStep, ExitToParentStep, ExitToBootStep, SchedEmptyStep, DispatchStep
     DEF Next, Syscall, Tick, Kernel

LEMMA QueueInit == Init => QueueInv
<1>1. Init => TypeOK
  BY InitType
<1>2. Init => QueueExact /\ Fresh /\ OnCpu /\ MainWaits /\ ZombiesDead
  BY BoundsAssumption DEF Init, QueueExact, Queued, Fresh, OnCpu, MainWaits,
     ZombiesDead, Alive, Main, Pid, User
<1>3. QED
  BY <1>1, <1>2 DEF QueueInv

(* The queue invariant of task_create_user's comment: for any number of    *)
(* tasks and any mix of fork, exit, kill, sleep, waitpid and ticks,        *)
(* ready_queue holds each READY task exactly once and nobody else.         *)
THEOREM ReadyQueueExact == Spec => []QueueExact
<1>1. QueueInv => QueueExact
  BY DEF QueueInv
<1>2. QED
  BY <1>1, QueueInit, QueueNext, PTL DEF Spec

-----------------------------------------------------------------------------
(***************************************************************************)
(* The lists that hold the tasks, and who wakes whom, on top of the queue  *)
(* invariant                                                               *)
(***************************************************************************)

(* A task_struct that is allocated                                         *)
Exists(p) == state[p] \notin {"none", "freed"}

(* all_tasks, zombie_reap and the children lists, by the state of tasks    *)
Listed == \A p \in Pid : p \in all_tasks <=> Exists(p)
Zombies == \A p \in Pid : p \in zombie_reap <=> state[p] = "DEAD"
Kids == \A p, c \in Pid :
    Exists(p) => (c \in children[p]
                    <=> c # Main /\ Exists(c) /\ state[c] # "DEAD" /\ parent[c] = p)

(* A parent is older than its child, and was once a task.                  *)
Tree == \A p \in User : state[p] # "none" => parent[p] < p /\ state[parent[p]] # "none"

(* kernel_main never waits in a list but ready_queue, and never exits.     *)
MainUp == state[Main] \in {"RUNNING", "READY"}

(* schedule() runs on behalf of somebody who no longer runs.               *)
OffCpu ==
    /\ cpu = "sched" => state[current_task] \in {"READY", "DEAD"}
    /\ cpu = "sched_sys" => state[current_task] = "BLOCKED"
    /\ cpu = "idle" => state[current_task] \in {"BLOCKED", "READY"}

RunsAlone == \A p \in User : state[p] = "RUNNING" => p = current_task

(* When a task has just died its parent is queued, or gone before it.      *)
Bereft ==
    cpu = "sched" /\ state[current_task] = "DEAD"
       => state[parent[current_task]] \in {"READY", "DEAD", "freed"}

TreePart ==
    /\ Listed /\ Zombies /\ Kids /\ Tree /\ MainUp
    /\ OffCpu /\ RunsAlone /\ Bereft /\ HaltCause

TreeInv == QueueInv /\ TreePart

LEMMA TreeFacts ==
  ASSUME TreeInv
  PROVE  /\ QueueInv /\ TreePart /\ Main \notin User
         /\ Pid \subseteq Int /\ next_pid \in Int
         /\ all_tasks \subseteq Pid /\ zombie_reap \subseteq Pid
         /\ children \in [Pid -> SUBSET Pid]
         /\ current_task \in Pid /\ Main \in Pid
         /\ User \subseteq Pid /\ \A p \in Pid : p # Main => p \in User
         /\ state \in [Pid -> States] /\ parent \in [Pid -> Pid]
<1>1. User \subseteq Pid /\ Main \notin User /\ Pid \subseteq Int
  BY BoundsAssumption DEF User, Pid, Main
<1>2. QueueInv /\ TreePart /\ TypeOK
  BY DEF TreeInv, QueueInv
<1>3. /\ next_pid \in Int /\ all_tasks \subseteq Pid /\ zombie_reap \subseteq Pid
      /\ children \in [Pid -> SUBSET Pid]
  <2>1. next_pid \in Int
    BY <1>2, BoundsAssumption DEF TypeOK
  <2>2. children \in [Pid -> SUBSET User]
    BY <1>2 DEF TypeOK
  <2>3. children \in [Pid -> SUBSET Pid]
    BY <1>1, <2>2
  <2>4. QED
    BY <1>2, <2>1, <2>3 DEF TypeOK
<1>4. /\ current_task \in Pid /\ Main \in Pid
      /\ User \subseteq Pid /\ \A p \in Pid : p # Main => p \in User
      /\ state \in [Pid -> States] /\ parent \in [Pid -> Pid]
  BY <1>2, QueueFacts
<1>5. QED
  BY <1>1, <1>2, <1>3, <1>4

(* The lists as the code has them                                          *)
LEMMA ListsFromTree == TreeInv => ListsExact
<1> SUFFICES ASSUME TreeInv
             PROVE  ListsExact
  OBVIOUS
<1>1. all_tasks = { p \in Pid : state[p] \notin {"none", "freed"} }
  BY TreeFacts DEF TreePart, Listed, Exists
<1>2. ASSUME NEW p \in all_tasks
      PROVE  children[p] = { c \in all_tasks \ {Main} :
                                parent[c] = p /\ c \notin zombie_reap }
  <2>1. p \in Pid /\ Exists(p) /\ children[p] \subseteq Pid
    BY TreeFacts DEF TreePart, Listed
  <2>2. \A c \in Pid : c \in children[p]
            <=> c \in all_tasks \ {Main} /\ parent[c] = p /\ c \notin zombie_reap
    BY <2>1, TreeFacts DEF TreePart, Listed, Zombies, Kids
  <2>3. QED
    BY <2>1, <2>2, TreeFacts
<1>3. QED
  BY <1>1, <1>2 DEF ListsExact

-----------------------------------------------------------------------------
(* What each step does to the table *)

(* A step that leaves the table alone                                      *)
LEMMA QuietTree ==
  ASSUME TreeInv,
         UNCHANGED <<current_task, state, zombie_reap, all_tasks, parent, children>>,
         cpu' \in {"user", "sysret", "exit", "pit", "panic", "corrupt"} \/ cpu' = cpu
  PROVE  TreePart'
<1>1. (Listed /\ Zombies /\ Kids /\ Tree /\ MainUp /\ RunsAlone)'
  BY DEF TreeInv, TreePart, Listed, Zombies, Kids, Tree, MainUp, RunsAlone, Exists
<1>2. (OffCpu /\ Bereft /\ HaltCause)'
  BY DEF TreeInv, TreePart, OffCpu, Bereft, HaltCause
<1>3. QED
  BY <1>1, <1>2 DEF TreePart

(* task_create_user and sys_fork                                           *)
LEMMA NewTaskEffect ==
  ASSUME TreeInv, NEW st \in {"RUNNING", "READY"}, NewTask(next_pid, st),
         state[current_task] = "RUNNING"
  PROVE  /\ next_pid \in User /\ next_pid \in Pid /\ state[next_pid] = "none"
         /\ next_pid # current_task /\ next_pid # Main /\ current_task < next_pid
         /\ \A x \in Pid : state'[x] = IF x = next_pid THEN st ELSE state[x]
         /\ \A x \in Pid : parent'[x] = IF x = next_pid THEN current_task ELSE parent[x]
         /\ \A x \in Pid : children'[x] = IF x = next_pid THEN {}
                               ELSE IF x = current_task THEN children[x] \cup {next_pid}
                               ELSE children[x]
         /\ all_tasks' = all_tasks \cup {next_pid} /\ zombie_reap' = zombie_reap
         /\ \A x \in Pid : state[x] # "none" => x < next_pid
<1>1. next_pid \in User /\ next_pid \in Pid /\ next_pid # Main
  BY BoundsAssumption DEF TreeInv, QueueInv, TypeOK, NewTask, User, Pid, Main
<1>2. \A x \in Pid : state[x] # "none" => x < next_pid
  BY TreeFacts DEF QueueInv, Fresh
<1>3. state[next_pid] = "none" /\ next_pid # current_task /\ current_task < next_pid
  BY <1>1, <1>2, TreeFacts DEF QueueInv, Fresh
<1>4. QED
  BY <1>1, <1>2, <1>3, TreeFacts DEF NewTask

LEMMA NewTaskTree ==
  ASSUME TreeInv, NEW st \in {"RUNNING", "READY"}, NewTask(next_pid, st),
         state[current_task] = "RUNNING"
  PROVE  (Listed /\ Zombies /\ Kids /\ Tree /\ MainUp)'
<1> DEFINE n == next_pid
<1>1. Exists(current_task) /\ \A x \in Pid : Exists(x)' <=> Exists(x) \/ x = n
  BY NewTaskEffect, TreeFacts DEF Exists
<1>2. (Listed /\ Zombies /\ MainUp)'
  BY <1>1, NewTaskEffect, TreeFacts DEF TreePart, Listed, Zombies, MainUp
<1>3. Kids'
  <2> SUFFICES ASSUME NEW p \in Pid, NEW c \in Pid, Exists(p)'
               PROVE  c \in children'[p]
                        <=> c # Main /\ Exists(c)' /\ state'[c] # "DEAD" /\ parent'[c] = p
    BY DEF Kids
  <2>1. CASE p = n
    <3>1. c \notin children'[p]
      BY <2>1, NewTaskEffect
    <3>2. Exists(c) /\ c # Main => parent[c] # n
      BY NewTaskEffect, TreeFacts DEF TreePart, Tree, Exists
    <3>3. QED
      BY <2>1, <3>1, <3>2, <1>1, NewTaskEffect
  <2>2. CASE p # n /\ c = n
    <3>1. n \notin children[p]
      BY <2>2, <1>1, NewTaskEffect, TreeFacts DEF TreePart, Kids, Exists
    <3>2. QED
      BY <2>2, <3>1, <1>1, NewTaskEffect
  <2>3. CASE p # n /\ c # n
    <3>1. Exists(p) /\ (Exists(c)' <=> Exists(c))
      BY <2>3, <1>1
    <3>2. state'[c] = state[c] /\ parent'[c] = parent[c]
      BY <2>3, NewTaskEffect
    <3>3. c \in children'[p] <=> c \in children[p]
      BY <2>3, NewTaskEffect, ZenonT(30)
    <3>4. QED
      BY <3>1, <3>2, <3>3, TreeFacts DEF TreePart, Kids
  <2>4. QED
    BY <2>1, <2>2, <2>3
<1>4. Tree'
  BY NewTaskEffect, TreeFacts DEF TreePart, Tree
<1>5. QED
  BY <1>2, <1>3, <1>4

LEMMA LaunchTree ==
  ASSUME TreeInv, Launch
  PROVE  TreePart'
<1>1. /\ NewTask(next_pid, "RUNNING") /\ cpu' = "user" /\ current_task' = next_pid
      /\ cpu = "boot" /\ state[current_task] = "RUNNING" /\ current_task = Main
  BY TreeFacts DEF Launch, QueueInv, OnCpu
<1>2. (Listed /\ Zombies /\ Kids /\ Tree /\ MainUp)'
  BY <1>1, NewTaskTree
<1>3. RunsAlone'
  BY <1>1, NewTaskEffect, TreeFacts DEF TreePart, RunsAlone
<1>4. (OffCpu /\ Bereft /\ HaltCause)'
  BY <1>1 DEF OffCpu, Bereft, HaltCause
<1>5. QED
  BY <1>2, <1>3, <1>4 DEF TreePart

LEMMA ForkTree ==
  ASSUME TreeInv, Fork
  PROVE  TreePart'
<1>1. /\ NewTask(next_pid, "READY") /\ cpu' = "sysret" /\ current_task' = current_task
      /\ state[current_task] = "RUNNING"
  BY TreeFacts DEF Fork, QueueInv, OnCpu
<1>2. (Listed /\ Zombies /\ Kids /\ Tree /\ MainUp)'
  BY <1>1, NewTaskTree
<1>3. RunsAlone'
  BY <1>1, NewTaskEffect, TreeFacts DEF TreePart, RunsAlone
<1>4. (OffCpu /\ Bereft /\ HaltCause)'
  BY <1>1 DEF OffCpu, Bereft, HaltCause
<1>5. QED
  BY <1>2, <1>3, <1>4 DEF TreePart

-----------------------------------------------------------------------------
(* A step that moves tasks between RUNNING, READY and BLOCKED only         *)
LEMMA MoveLists ==
  ASSUME TreeInv,
         UNCHANGED <<zombie_reap, all_tasks, parent, children>>,
         \A x \in Pid : state'[x] # state[x] => Alive(x) /\ Alive(x)'
  PROVE  (Listed /\ Zombies /\ Kids /\ Tree)'
<1>1. \A x \in Pid : /\ Exists(x)' <=> Exists(x)
                     /\ state'[x] = "DEAD" <=> state[x] = "DEAD"
                     /\ state'[x] = "none" <=> state[x] = "none"
  BY DEF Exists, Alive
<1>2. (Listed /\ Zombies)'
  BY <1>1, TreeFacts DEF TreePart, Listed, Zombies
<1>3. Kids'
  BY <1>1, TreeFacts DEF TreePart, Kids
<1>4. Tree'
  BY <1>1, TreeFacts DEF TreePart, Tree
<1>5. QED
  BY <1>2, <1>3, <1>4

(* sys_waitpid and sys_sleep                                               *)
LEMMA BlockTree ==
  ASSUME TreeInv, Waitpid \/ Sleep
  PROVE  TreePart'
<1>1. current_task \in User /\ current_task # Main /\ state[current_task] = "RUNNING"
  BY TreeFacts DEF QueueInv, OnCpu, Waitpid, Sleep
<1>2. /\ state' = [state EXCEPT ![current_task] = "BLOCKED"]
      /\ cpu' = "sched_sys"
      /\ UNCHANGED <<current_task, zombie_reap, all_tasks, parent, children>>
  BY DEF Waitpid, Sleep, Block, tableVars
<1>3. \A x \in Pid : state'[x] = IF x = current_task THEN "BLOCKED" ELSE state[x]
  BY <1>2, TreeFacts
<1>4. (Listed /\ Zombies /\ Kids /\ Tree)'
  BY <1>1, <1>2, <1>3, MoveLists DEF Alive
<1>5. (MainUp /\ OffCpu /\ RunsAlone /\ Bereft /\ HaltCause)'
  BY <1>1, <1>2, <1>3, TreeFacts
     DEF TreePart, MainUp, OffCpu, RunsAlone, Bereft, HaltCause
<1>6. QED
  BY <1>4, <1>5 DEF TreePart

(* What a timer interrupt does to the states                               *)
LEMMA WokenMoves ==
  ASSUME TreeInv
  PROVE  \A x \in Pid : \/ Woken[x] = state[x]
                        \/ state[x] = "BLOCKED" /\ Woken[x] = "READY"
BY DEF Woken, Expired

LEMMA TickBootTree ==
  ASSUME TreeInv, TickBoot
  PROVE  TreePart'
<1>1. /\ cpu' = "sched" /\ state' = [Woken EXCEPT ![Main] = "READY"]
      /\ UNCHANGED <<current_task, zombie_reap, all_tasks, parent, children>>
  BY DEF TickBoot, tableVars
<1>2. current_task = Main /\ state[Main] = "RUNNING" /\ Woken \in [Pid -> States]
  BY TreeFacts, ExpiredType DEF QueueInv, OnCpu, TickBoot
<1>3. \A x \in Pid : state'[x] = IF x = Main THEN "READY" ELSE Woken[x]
  BY <1>1, <1>2, TreeFacts
<1>4. (Listed /\ Zombies /\ Kids /\ Tree)'
  BY <1>1, <1>2, <1>3, WokenMoves, MoveLists DEF Alive
<1>5. (MainUp /\ OffCpu /\ Bereft /\ HaltCause)'
  BY <1>1, <1>2, <1>3, TreeFacts DEF MainUp, OffCpu, Bereft, HaltCause
<1>6. RunsAlone'
  BY <1>1, <1>2, <1>3, WokenMoves, TreeFacts DEF TreePart, RunsAlone
<1>7. QED
  BY <1>4, <1>5, <1>6 DEF TreePart

LEMMA TickTree ==
  ASSUME TreeInv, TickIdle \/ TickUser
  PROVE  TreePart'
<1>1. /\ cpu' \in {"pit", "idle"} /\ (cpu' = "idle" => cpu = "idle")
      /\ state' = Woken
      /\ UNCHANGED <<current_task, zombie_reap, all_tasks, parent, children>>
  BY DEF TickIdle, TickUser, tableVars
<1>2. (Listed /\ Zombies /\ Kids /\ Tree)'
  BY <1>1, WokenMoves, MoveLists DEF Alive
<1>3. (MainUp /\ OffCpu /\ Bereft /\ HaltCause)'
  BY <1>1, WokenMoves, TreeFacts DEF TreePart, MainUp, OffCpu, Bereft, HaltCause
<1>4. RunsAlone'
  BY <1>1, WokenMoves, TreeFacts DEF TreePart, RunsAlone
<1>5. QED
  BY <1>2, <1>3, <1>4 DEF TreePart

LEMMA PitReturnTree ==
  ASSUME TreeInv, PitReturn
  PROVE  TreePart'
<1>1. /\ UNCHANGED <<current_task, zombie_reap, all_tasks, parent, children>>
      /\ \/ state' = state /\ cpu' \in {"exit", "user"}
         \/ state' = [state EXCEPT ![current_task] = "READY"] /\ cpu' = "sched"
  BY DEF PitReturn, tableVars
<1>2. CASE state' = state /\ cpu' \in {"exit", "user"}
  BY <1>1, <1>2, QuietTree
<1>3. CASE state' = [state EXCEPT ![current_task] = "READY"] /\ cpu' = "sched"
  <2>1. current_task \in User /\ state[current_task] = "RUNNING"
    BY TreeFacts DEF QueueInv, OnCpu, PitReturn
  <2>2. \A x \in Pid : state'[x] = IF x = current_task THEN "READY" ELSE state[x]
    BY <1>3, TreeFacts
  <2>3. (Listed /\ Zombies /\ Kids /\ Tree)'
    BY <1>1, <2>1, <2>2, MoveLists DEF Alive
  <2>4. (MainUp /\ OffCpu /\ RunsAlone /\ Bereft /\ HaltCause)'
    BY <1>1, <1>3, <2>1, <2>2, TreeFacts
       DEF TreePart, MainUp, OffCpu, RunsAlone, Bereft, HaltCause
  <2>5. QED
    BY <2>3, <2>4 DEF TreePart
<1>4. QED
  BY <1>1, <1>2, <1>3

(* What task_do_exit does to the states: self dies, a BLOCKED parent is    *)
(* queued, and nobody else changes.                                        *)
LEMMA ExitEffect ==
  ASSUME TreeInv, ExitToParent
  PROVE  /\ current_task \in User /\ state[current_task] = "RUNNING"
         /\ parent[current_task] \in User /\ parent[current_task] # current_task
         /\ state'[current_task] = "DEAD"
         /\ state'[parent[current_task]] =
               IF state[parent[current_task]] = "BLOCKED" THEN "READY"
               ELSE state[parent[current_task]]
         /\ \A x \in Pid : x # current_task /\ x # parent[current_task]
                              => state'[x] = state[x]
         /\ children' = [children EXCEPT ![parent[current_task]] = @ \ {current_task}]
         /\ zombie_reap' = zombie_reap \cup {current_task}
         /\ cpu' \in {"sched", "corrupt"}
         /\ UNCHANGED <<current_task, next_pid, all_tasks, parent>>
<1> DEFINE self == current_task
           par  == parent[current_task]
<1>1. /\ self \in User /\ self \in Pid /\ state[self] = "RUNNING"
      /\ par \in Pid /\ par # Main
  BY TreeFacts DEF QueueInv, OnCpu, ExitToParent
<1>2. par \in User /\ par # self
  <2>1. par \in Int /\ self \in Int /\ par < self
    BY <1>1, TreeFacts DEF TreePart, Tree
  <2>2. QED
    BY <1>1, <2>1, TreeFacts
<1>3. \/ /\ state[par] = "BLOCKED"
         /\ state' = [state EXCEPT ![self] = "DEAD", ![par] = "READY"]
      \/ /\ state[par] # "BLOCKED"
         /\ state' = [state EXCEPT ![self] = "DEAD"]
  BY DEF ExitToParent, ParentWaits
<1>4. /\ state'[self] = "DEAD"
      /\ state'[par] = IF state[par] = "BLOCKED" THEN "READY" ELSE state[par]
      /\ \A x \in Pid : x # self /\ x # par => state'[x] = state[x]
  BY <1>1, <1>2, <1>3, TreeFacts
<1>5. QED
  BY <1>1, <1>2, <1>4 DEF ExitToParent

LEMMA ExitToParentTree ==
  ASSUME TreeInv, ExitToParent
  PROVE  TreePart'
<1> DEFINE self == current_task
           par  == parent[current_task]
<1>1. /\ self \in User /\ self \in Pid /\ self # Main /\ state[self] = "RUNNING"
      /\ par \in User /\ par \in Pid /\ par # self /\ par # Main
  BY ExitEffect, TreeFacts
<1>2. \A x \in Pid : /\ Exists(x)' <=> Exists(x)
                     /\ state'[x] = "none" <=> state[x] = "none"
                     /\ state'[x] = "DEAD" <=> state[x] = "DEAD" \/ x = self
                     /\ state'[x] = "RUNNING" => state[x] = "RUNNING" /\ x # self
  BY <1>1, ExitEffect DEF Exists
<1>3. \A p \in Pid : children'[p] = IF p = par THEN children[p] \ {self} ELSE children[p]
  BY <1>1, ExitEffect, TreeFacts
<1> HIDE DEF self, par
<1>4. Listed'
  BY <1>2, ExitEffect, TreeFacts DEF TreePart, Listed
<1>5. Zombies'
  BY <1>2, ExitEffect, TreeFacts DEF TreePart, Zombies, self
<1>6. Kids'
  <2> SUFFICES ASSUME NEW p \in Pid, NEW c \in Pid, Exists(p)'
               PROVE  c \in children'[p]
                        <=> c # Main /\ Exists(c)' /\ state'[c] # "DEAD" /\ parent'[c] = p
    BY DEF Kids
  <2>1. c \in children[p]
          <=> c # Main /\ Exists(c) /\ state[c] # "DEAD" /\ parent[c] = p
    BY <1>2, TreeFacts DEF TreePart, Kids
  <2>2. parent' = parent /\ parent[self] = par
    BY ExitEffect DEF self, par
  <2>3. QED
    BY <1>2, <1>3, <2>1, <2>2
<1>7. Tree'
  BY <1>2, ExitEffect, TreeFacts DEF TreePart, Tree
<1>8. MainUp'
  BY <1>1, ExitEffect, TreeFacts DEF TreePart, MainUp, self, par
<1>9. OffCpu' /\ HaltCause'
  BY ExitEffect DEF OffCpu, HaltCause
<1>10. RunsAlone'
  BY <1>2, ExitEffect, TreeFacts DEF TreePart, RunsAlone
<1>11. Bereft'
  <2>1. state[par] # "none" /\ state[par] # "RUNNING" /\ state[par] \in States
    BY <1>1, TreeFacts DEF TreePart, Tree, RunsAlone, self, par
  <2>2. state'[par] \in {"READY", "DEAD", "freed"}
    BY <2>1, ExitEffect DEF States, par
  <2>3. parent'[current_task'] = par
    BY ExitEffect DEF par
  <2>4. QED
    BY <2>2, <2>3 DEF Bereft
<1>12. QED
  BY <1>4, <1>5, <1>6, <1>7, <1>8, <1>9, <1>10, <1>11 DEF TreePart

LEMMA ExitToBootTree ==
  ASSUME TreeInv, ExitToBoot
  PROVE  TreePart'
<1> DEFINE self == current_task
<1>1. /\ self \in User /\ self \in Pid /\ self # Main /\ state[self] = "RUNNING"
      /\ parent[self] = Main
  BY TreeFacts DEF QueueInv, OnCpu, ExitToBoot
<1>2. /\ all_tasks' = all_tasks \ {self} /\ cpu' = "boot" /\ current_task' = Main
      /\ UNCHANGED <<parent, zombie_reap>>
  BY DEF ExitToBoot
<1>3. \A x \in Pid : state'[x] = IF x = self THEN "freed" ELSE state[x]
  BY TreeFacts DEF ExitToBoot
<1>4. \A p \in Pid : children'[p] = IF p = Main THEN children[p] \ {self} ELSE children[p]
  BY TreeFacts DEF ExitToBoot
<1>5. \A x \in Pid : Exists(x)' <=> Exists(x) /\ x # self
  BY <1>1, <1>3 DEF Exists
<1> HIDE DEF self
<1>6. (Listed /\ Zombies /\ MainUp)'
  BY <1>1, <1>2, <1>3, <1>5, TreeFacts DEF TreePart, Listed, Zombies, MainUp
<1>7. Kids'
  <2> SUFFICES ASSUME NEW p \in Pid, NEW c \in Pid, Exists(p)'
               PROVE  c \in children'[p]
                        <=> c # Main /\ Exists(c)' /\ state'[c] # "DEAD" /\ parent'[c] = p
    BY DEF Kids
  <2>1. c \in children[p]
          <=> c # Main /\ Exists(c) /\ state[c] # "DEAD" /\ parent[c] = p
    BY <1>5, TreeFacts DEF TreePart, Kids
  <2>2. QED
    BY <1>1, <1>2, <1>3, <1>4, <1>5, <2>1
<1>8. Tree'
  <2>1. \A x \in Pid : state'[x] = "none" <=> state[x] = "none"
    BY <1>1, <1>3
  <2>2. QED
    BY <1>2, <2>1, TreeFacts DEF TreePart, Tree
<1>9. (OffCpu /\ Bereft /\ HaltCause)'
  BY <1>2 DEF OffCpu, Bereft, HaltCause
<1>10. RunsAlone'
  BY <1>1, <1>2, <1>3, TreeFacts DEF TreePart, RunsAlone, self
<1>11. QED
  BY <1>6, <1>7, <1>8, <1>9, <1>10 DEF TreePart

(* schedule() frees what died and touches nothing else of the table.       *)
LEMMA ReapLists ==
  ASSUME TreeInv,
         all_tasks' = Unlinked, zombie_reap' = {}, UNCHANGED <<parent, children>>,
         \A x \in Pid : IF Alive(x) THEN Alive(x)' ELSE state'[x] = Reaped[x]
  PROVE  (Listed /\ Zombies /\ Kids /\ Tree)'
<1>1. \A x \in Pid : Alive(x) <=> Exists(x) /\ state[x] # "DEAD"
  BY TreeFacts DEF Alive, Exists, States
<1>2. \A x \in Pid : Reaped[x] = IF state[x] = "DEAD" THEN "freed" ELSE state[x]
  BY TreeFacts DEF TreePart, Zombies, Reaped
<1>3. \A x \in Pid : /\ Exists(x)' <=> Alive(x)
                     /\ state'[x] # "DEAD"
                     /\ state'[x] = "none" <=> state[x] = "none"
  BY <1>1, <1>2 DEF Alive, Exists
<1>4. Listed'
  BY <1>1, <1>3, TreeFacts DEF TreePart, Listed, Zombies, Unlinked
<1>5. Zombies'
  BY <1>3 DEF Zombies
<1>6. Kids'
  BY <1>1, <1>3, TreeFacts DEF TreePart, Kids
<1>7. Tree'
  BY <1>3, TreeFacts DEF TreePart, Tree
<1>8. QED
  BY <1>4, <1>5, <1>6, <1>7

LEMMA SchedEmptyTree ==
  ASSUME TreeInv, SchedEmpty
  PROVE  TreePart'
<1>1. /\ cpu \in {"sched", "sched_sys"} /\ state' = Reaped
      /\ cpu' = IF state[current_task] = "DEAD" THEN "halt" ELSE "idle"
      /\ UNCHANGED <<current_task, parent, children>>
      /\ all_tasks' = Unlinked /\ zombie_reap' = {}
  BY DEF SchedEmpty
<1>2. \A x \in Pid : Reaped[x] = IF state[x] = "DEAD" THEN "freed" ELSE state[x]
  BY TreeFacts DEF TreePart, Zombies, Reaped
<1>3. \A x \in Pid : Alive(x) => Reaped[x] = state[x]
  BY <1>2 DEF Alive
<1>4. (Listed /\ Zombies /\ Kids /\ Tree)'
  BY <1>1, <1>3, ReapLists DEF Alive
<1>5. (MainUp /\ OffCpu /\ RunsAlone /\ Bereft)'
  BY <1>1, <1>2, TreeFacts DEF TreePart, MainUp, OffCpu, RunsAlone, Bereft
<1>6. \A x \in Pid : state[x] # "READY"
  BY QueueFacts, TreeFacts DEF SchedEmpty, On
<1>7. HaltCause'
  <2> SUFFICES ASSUME cpu' = "halt"
               PROVE  state'[parent[current_task]] = "freed"
    BY <1>1 DEF HaltCause
  <2>1. cpu = "sched" /\ state[current_task] = "DEAD"
    BY <1>1, TreeFacts DEF TreePart, OffCpu
  <2>2. parent[current_task] \in Pid /\ state[parent[current_task]] \in {"DEAD", "freed"}
    BY <1>6, <2>1, TreeFacts DEF TreePart, Bereft
  <2>3. QED
    BY <1>1, <1>2, <2>2
<1>8. QED
  BY <1>4, <1>5, <1>7 DEF TreePart

LEMMA DispatchTree ==
  ASSUME TreeInv, Dispatch
  PROVE  TreePart'
<1>1. PICK i \in PickSet :
        /\ state' = [Reaped EXCEPT ![ready_queue[i]] = "RUNNING"]
        /\ current_task' = ready_queue[i]
        /\ cpu' = Resume(ready_queue[i])
  BY DEF Dispatch
<1>2. /\ cpu \in {"sched", "sched_sys", "idle"}
      /\ UNCHANGED <<parent, children>> /\ all_tasks' = Unlinked /\ zombie_reap' = {}
  BY DEF Dispatch
<1> DEFINE nt == ready_queue[i]
<1>3. nt \in Pid /\ state[nt] = "READY"
  <2>1. i \in 1..Len(ready_queue)
    BY DEF PickSet
  <2>2. QED
    BY <2>1, QueueFacts, TreeFacts DEF On
<1>4. current_task' = nt /\ cpu' \in {"corrupt", "user", "sysret", "boot"}
  BY <1>1 DEF Resume
<1>5. \A x \in Pid : Reaped[x] = IF state[x] = "DEAD" THEN "freed" ELSE state[x]
  BY TreeFacts DEF TreePart, Zombies, Reaped
<1>6. \A x \in Pid : state'[x] = IF x = nt THEN "RUNNING" ELSE Reaped[x]
  BY <1>1, <1>3, ReapedFacts, TreeFacts
<1> HIDE DEF nt
<1>7. (Listed /\ Zombies /\ Kids /\ Tree)'
  <2>1. \A x \in Pid : IF Alive(x) THEN Alive(x)' ELSE state'[x] = Reaped[x]
    BY <1>3, <1>5, <1>6 DEF Alive
  <2>2. QED
    BY <1>2, <2>1, ReapLists
<1>8. (MainUp /\ OffCpu /\ Bereft /\ HaltCause)'
  BY <1>4, <1>5, <1>6, TreeFacts DEF TreePart, MainUp, OffCpu, Bereft, HaltCause
<1>9. state[current_task] # "RUNNING"
  BY <1>2, TreeFacts DEF TreePart, OffCpu
<1>10. RunsAlone'
  BY <1>4, <1>5, <1>6, <1>9, TreeFacts DEF TreePart, RunsAlone
<1>11. QED
  BY <1>7, <1>8, <1>10 DEF TreePart

LEMMA TreeInit == Init => TreeInv
<1> SUFFICES ASSUME Init
             PROVE  TreeInv
  OBVIOUS
<1>1. QueueInv
  BY QueueInit
<1>2. /\ cpu = "boot" /\ zombie_reap = {} /\ all_tasks = {Main} /\ Main \in Pid
      /\ \A p \in Pid : /\ state[p] = IF p = Main THEN "RUNNING" ELSE "none"
                        /\ children[p] = {}
  BY QueueFacts, <1>1 DEF Init
<1>3. \A p \in User : p \in Pid /\ p # Main
  BY BoundsAssumption DEF User, Pid, Main
<1>4. (Listed /\ Zombies /\ Kids /\ Tree)
  BY <1>2, <1>3 DEF Listed, Zombies, Kids, Tree, Exists
<1>5. (MainUp /\ OffCpu /\ RunsAlone /\ Bereft /\ HaltCause)
  BY <1>2, <1>3 DEF MainUp, OffCpu, RunsAlone, Bereft, HaltCause
<1>6. QED
  BY <1>1, <1>4, <1>5 DEF TreeInv, TreePart

LEMMA TreeNext == TreeInv /\ [Next]_vars => TreeInv'
<1> SUFFICES ASSUME TreeInv, [Next]_vars
             PROVE  TreeInv'
  OBVIOUS
<1>1. QueueInv'
  BY QueueNext DEF TreeInv
<1> SUFFICES TreePart'
  BY <1>1 DEF TreeInv
<1>2. CASE Exec \/ Exit \/ Kill \/ Sigaction \/ DropCap \/ OtherSyscall
           \/ PageFault \/ SysReturn \/ UNCHANGED vars
  <2>1. /\ UNCHANGED <<current_task, state, zombie_reap, all_tasks, parent, children>>
        /\ cpu' \in {"user", "sysret", "exit", "pit", "panic", "corrupt"} \/ cpu' = cpu
    BY <1>2 DEF Exec, Exit, Kill, Sigaction, DropCap, OtherSyscall, PageFault,
                SysReturn, vars, tableVars, queueVars
  <2>2. QED
    BY <2>1, QuietTree
<1>3. QED
  BY <1>2, LaunchTree, ForkTree, BlockTree, TickBootTree, TickTree, PitReturnTree,
     ExitToParentTree, ExitToBootTree, SchedEmptyTree, DispatchTree
     DEF Next, Syscall, Tick, Kernel

LEMMA TreeAlways == Spec => []TreeInv
BY TreeInit, TreeNext, PTL DEF Spec

(* The lists of task.cpp reach no freed task_struct: whatever programs     *)
(* fork, exit, sleep and wait, all_tasks holds exactly the allocated tasks *)
(* and each children list exactly the living ones whose parent pointer     *)
(* names its owner (task_create_user, sys_fork, task_do_exit, schedule,    *)
(* task_cleanup_user).                                                     *)
THEOREM ListsNeverStale == Spec => []ListsExact
BY TreeAlways, ListsFromTree, PTL

(* The defensive hlt of schedule(), an empty queue with a DEAD             *)
(* current_task, is reached only by a task whose parent was freed before   *)
(* it: task_do_exit queues every other parent, or finds it queued.         *)
THEOREM HaltOnlyOrphans == Spec => []HaltCause
<1>1. TreeInv => HaltCause
  BY DEF TreeInv, TreePart
<1>2. QED
  BY <1>1, TreeAlways, PTL

-----------------------------------------------------------------------------
(* Who wakes a BLOCKED task *)

(* The machine is not up for 2^32 ticks (497 days) and nobody sleeps past  *)
(* that point: wake_tick = 0 means "no deadline" to the timer interrupt,   *)
(* and a sum that wraps to 0 would be lost.  ms / 10 + 1 is never 0.       *)
NoWrap == TickStop < TickMod /\ \A d \in SleepTicks : d > 0 /\ TickStop + d < TickMod

Waker == \A p \in User : state[p] = "BLOCKED"
            => wake_tick[p] # 0 \/ \E c \in children[p] : Alive(c)

WakeInv == TreeInv /\ Waker /\ ticks <= TickStop

LEMMA SmallMod ==
  ASSUME NEW n \in Nat \ {0}, NEW a \in Nat, a < n
  PROVE  a % n = a
OBVIOUS

LEMMA ChildFacts ==
  ASSUME TreeInv, NEW p \in Pid, Exists(p), NEW c \in children[p]
  PROVE  /\ c \in Pid /\ c # Main /\ c \in User /\ parent[c] = p
         /\ Alive(c) /\ p < c /\ c # p
<1>1. c \in Pid
  BY TreeFacts
<1>2. c # Main /\ Exists(c) /\ state[c] # "DEAD" /\ parent[c] = p /\ c \in User
  BY <1>1, TreeFacts DEF TreePart, Kids
<1>3. Alive(c)
  BY <1>1, <1>2, TreeFacts DEF Alive, Exists, States
<1>4. p < c
  BY <1>2, TreeFacts DEF TreePart, Tree, Exists
<1>5. p \in Int /\ c \in Int
  BY <1>1, TreeFacts
<1>6. QED
  BY <1>1, <1>2, <1>3, <1>4, <1>5

(* A step that takes nobody's waker away                                   *)
LEMMA WakerKept ==
  ASSUME TreeInv, Waker,
         \A x \in Pid : Alive(x) => Alive(x)',
         \A p \in User : state'[p] = "BLOCKED"
            => /\ state[p] = "BLOCKED" /\ wake_tick'[p] = wake_tick[p]
               /\ children[p] \subseteq children'[p]
  PROVE  Waker'
<1> SUFFICES ASSUME NEW p \in User, state'[p] = "BLOCKED", wake_tick'[p] = 0
             PROVE  \E c \in children'[p] : Alive(c)'
  BY DEF Waker
<1>1. PICK c \in children[p] : Alive(c)
  BY DEF Waker
<1>2. p \in Pid /\ c \in Pid
  BY TreeFacts
<1>3. QED
  BY <1>1, <1>2

LEMMA WakerQuiet ==
  ASSUME TreeInv, Waker, UNCHANGED <<state, wake_tick, children>>
  PROVE  Waker'
BY DEF Waker, Alive

LEMMA WakerNew ==
  ASSUME TreeInv, Waker, Launch \/ Fork
  PROVE  Waker'
<1>1. PICK st \in {"RUNNING", "READY"} : NewTask(next_pid, st)
  BY DEF Launch, Fork
<1>2. state[current_task] = "RUNNING"
  BY TreeFacts DEF Launch, Fork, QueueInv, OnCpu
<1>3. \A x \in Pid : x # next_pid => wake_tick'[x] = wake_tick[x]
  BY <1>1, TreeFacts DEF NewTask, QueueInv, TypeOK
<1>4. \A x \in Pid : Alive(x) => Alive(x)'
  BY <1>1, <1>2, NewTaskEffect DEF Alive
<1>5. ASSUME NEW p \in User, state'[p] = "BLOCKED"
      PROVE  /\ state[p] = "BLOCKED" /\ wake_tick'[p] = wake_tick[p]
             /\ children[p] \subseteq children'[p]
  <2>1. p \in Pid
    BY TreeFacts
  <2>2. p # next_pid /\ state[p] = "BLOCKED"
    BY <1>1, <1>2, <1>5, <2>1, NewTaskEffect
  <2>3. children[p] \subseteq children'[p]
    BY <1>1, <1>2, <2>1, <2>2, NewTaskEffect
  <2>4. QED
    BY <1>3, <2>1, <2>2, <2>3
<1>6. QED
  BY <1>4, <1>5, WakerKept

(* sys_waitpid blocks a task that has a living child.                      *)
LEMMA WakerWaitpid ==
  ASSUME TreeInv, Waker, Waitpid
  PROVE  Waker'
<1>1. current_task \in User /\ state[current_task] = "RUNNING"
  BY TreeFacts DEF QueueInv, OnCpu, Waitpid
<1>2. /\ children[current_task] # {}
      /\ UNCHANGED <<children, wake_tick>>
      /\ \A x \in Pid : state'[x] = IF x = current_task THEN "BLOCKED" ELSE state[x]
  BY TreeFacts DEF Waitpid, HasChild, Block, tableVars, timeVars
<1>3. \A x \in Pid : Alive(x) => Alive(x)'
  BY <1>2 DEF Alive
<1>4. PICK c \in children[current_task] : TRUE
  BY <1>2
<1>5. Alive(c)'
  BY <1>1, <1>3, <1>4, ChildFacts, TreeFacts DEF Exists
<1>6. ASSUME NEW p \in User, state'[p] = "BLOCKED"
      PROVE  wake_tick'[p] # 0 \/ \E d \in children'[p] : Alive(d)'
  <2>1. CASE p = current_task
    BY <1>2, <1>4, <1>5, <2>1
  <2>2. CASE p # current_task
    <3>1. p \in Pid /\ state[p] = "BLOCKED"
      BY <1>2, <1>6, <2>2, TreeFacts
    <3>2. wake_tick[p] # 0 \/ \E d \in children[p] : Alive(d)
      BY <3>1 DEF Waker
    <3>3. children[p] \subseteq Pid
      BY <3>1, TreeFacts
    <3>4. QED
      BY <1>2, <1>3, <3>2, <3>3
  <2>3. QED
    BY <2>1, <2>2
<1>7. QED
  BY <1>6 DEF Waker

(* sys_sleep stores a deadline that is not 0.                              *)
LEMMA WakerSleep ==
  ASSUME NoWrap, WakeInv, Sleep
  PROVE  Waker'
<1> USE DEF WakeInv
<1>1. current_task \in User /\ state[current_task] = "RUNNING"
  BY TreeFacts DEF QueueInv, OnCpu, Sleep
<1>2. PICK d \in SleepTicks :
         wake_tick' = [wake_tick EXCEPT ![current_task] = Deadline(d)]
  BY DEF Sleep
<1>3. Deadline(d) # 0
  <2>1. ticks \in Nat /\ d \in Nat /\ TickMod \in Nat \ {0} /\ TickStop \in Nat
    BY BoundsAssumption, TreeFacts DEF QueueInv, TypeOK
  <2>2. ticks + d \in Nat /\ ticks + d < TickMod /\ ticks + d > 0
    BY <2>1 DEF NoWrap
  <2>3. QED
    BY <2>1, <2>2, SmallMod DEF Deadline
<1>4. \A x \in Pid : wake_tick'[x] = IF x = current_task THEN Deadline(d) ELSE wake_tick[x]
  BY <1>2, TreeFacts DEF QueueInv, TypeOK
<1>5. /\ children' = children
      /\ \A x \in Pid : state'[x] = IF x = current_task THEN "BLOCKED" ELSE state[x]
  BY TreeFacts DEF Sleep, Block, tableVars
<1>6. \A x \in Pid : Alive(x) => Alive(x)'
  BY <1>5 DEF Alive
<1>7. ASSUME NEW p \in User, state'[p] = "BLOCKED", p # current_task
      PROVE  wake_tick'[p] # 0 \/ \E c \in children'[p] : Alive(c)'
  <2>1. p \in Pid /\ state[p] = "BLOCKED"
    BY <1>5, <1>7, TreeFacts
  <2>2. wake_tick[p] # 0 \/ \E c \in children[p] : Alive(c)
    BY <2>1 DEF Waker
  <2>3. children[p] \subseteq Pid
    BY <2>1, TreeFacts
  <2>4. QED
    BY <1>4, <1>5, <1>6, <1>7, <2>1, <2>2, <2>3
<1>8. QED
  BY <1>1, <1>3, <1>4, <1>7, TreeFacts DEF Waker

(* A tick takes the deadline only of those it wakes.                       *)
LEMMA WakerTick ==
  ASSUME TreeInv, Waker, Tick
  PROVE  Waker'
<1>1. Woken \in [Pid -> States]
  BY ExpiredType, TreeFacts DEF QueueInv
<1>2. \A p \in Pid : /\ state'[p] = Woken[p] \/ (p = Main /\ state'[p] = "READY")
                     /\ wake_tick'[p] = IF p \in Expired(Now) THEN 0 ELSE wake_tick[p]
  BY <1>1, TreeFacts DEF Tick, TickBoot, TickIdle, TickUser, Timer
<1>3. children' = children
  BY DEF Tick, TickBoot, TickIdle, TickUser, tableVars
<1>4. \A x \in Pid : Alive(x) => Alive(x)'
  BY <1>2, WokenMoves DEF Alive
<1>5. \A p \in Pid : state'[p] = "BLOCKED"
                       => state[p] = "BLOCKED" /\ wake_tick'[p] = wake_tick[p]
  BY <1>2, WokenMoves DEF Woken
<1>6. QED
  BY <1>3, <1>4, <1>5, WakerKept, TreeFacts

LEMMA WakerPit ==
  ASSUME TreeInv, Waker, PitReturn
  PROVE  Waker'
<1>1. current_task \in Pid /\ state[current_task] = "RUNNING"
  BY TreeFacts DEF QueueInv, OnCpu, PitReturn
<1>2. UNCHANGED <<children, wake_tick>>
  BY DEF PitReturn, tableVars, timeVars
<1>3. \A x \in Pid : state'[x] = state[x] \/ (x = current_task /\ state'[x] = "READY")
  BY TreeFacts DEF PitReturn
<1>4. \A x \in Pid : Alive(x) => Alive(x)'
  BY <1>1, <1>3 DEF Alive
<1>5. QED
  BY <1>2, <1>3, <1>4, WakerKept, TreeFacts

(* A task that exits was the waker of its parent only, which it wakes.     *)
LEMMA WakerExit ==
  ASSUME TreeInv, Waker, ExitToParent \/ ExitToBoot
  PROVE  Waker'
<1> DEFINE self == current_task
           par  == parent[current_task]
<1>1. self \in User /\ state[self] = "RUNNING" /\ wake_tick' = wake_tick
  BY TreeFacts DEF QueueInv, OnCpu, ExitToParent, ExitToBoot, timeVars
<1>2. \A x \in Pid : x # self /\ x # par => state'[x] = state[x]
  BY ExitEffect, TreeFacts DEF ExitToBoot
<1>3. \A x \in Pid : x # par => children'[x] = children[x]
  BY ExitEffect, TreeFacts DEF ExitToBoot
<1>4. state'[self] # "BLOCKED" /\ (par \in User => state'[par] # "BLOCKED")
  <2>1. CASE ExitToParent
    BY <2>1, ExitEffect
  <2>2. CASE ExitToBoot
    BY <2>2, TreeFacts DEF ExitToBoot
  <2>3. QED
    BY <2>1, <2>2
<1>5. \A x \in Pid : Alive(x) /\ x # self => Alive(x)'
  <2>1. CASE ExitToParent
    BY <2>1, <1>2, ExitEffect DEF Alive
  <2>2. CASE ExitToBoot
    BY <2>2, TreeFacts DEF ExitToBoot, Alive
  <2>3. QED
    BY <2>1, <2>2
<1> SUFFICES ASSUME NEW p \in User, state'[p] = "BLOCKED", wake_tick'[p] = 0
             PROVE  \E c \in children'[p] : Alive(c)'
  BY DEF Waker
<1>6. p \in Pid /\ p # self /\ p # par /\ state[p] = "BLOCKED"
  BY <1>2, <1>4, TreeFacts
<1>7. PICK c \in children[p] : Alive(c)
  BY <1>1, <1>6 DEF Waker
<1>8. c \in Pid /\ parent[c] = p
  BY <1>6, <1>7, ChildFacts DEF Exists
<1>9. QED
  BY <1>3, <1>5, <1>6, <1>7, <1>8

LEMMA WakerSchedule ==
  ASSUME TreeInv, Waker, SchedEmpty \/ Dispatch
  PROVE  Waker'
<1>1. UNCHANGED <<children, wake_tick>>
  BY DEF SchedEmpty, Dispatch, timeVars
<1>2. \A x \in Pid : state'[x] = Reaped[x] \/ state'[x] = "RUNNING"
  BY ReapedFacts, TreeFacts DEF SchedEmpty, Dispatch
<1>3. \A x \in Pid : /\ Alive(x) => Alive(x)'
                     /\ state'[x] = "BLOCKED" => state[x] = "BLOCKED"
  BY <1>2, ReapedFacts, TreeFacts DEF Alive
<1>4. QED
  BY <1>1, <1>3, WakerKept, TreeFacts

LEMMA TicksBounded ==
  ASSUME NoWrap, WakeInv, [Next]_vars
  PROVE  ticks' <= TickStop
<1>1. ticks \in Nat /\ ticks <= TickStop /\ TickMod \in Nat \ {0} /\ TickStop \in Nat
  BY BoundsAssumption DEF WakeInv, TreeInv, QueueInv, TypeOK
<1>2. CASE Timer
  <2>1. ticks + 1 \in Nat /\ ticks + 1 < TickMod /\ ticks + 1 <= TickStop
    BY <1>1, <1>2 DEF NoWrap, Timer
  <2>2. QED
    BY <1>1, <1>2, <2>1, SmallMod DEF Timer, Now
<1>3. CASE ticks' = ticks
  BY <1>1, <1>3
<1>4. Timer \/ ticks' = ticks
  BY DEF Next, Syscall, Tick, Kernel, Launch, NewTask, Fork, Exec, Waitpid, Sleep, Exit,
     Kill, Sigaction, DropCap, OtherSyscall, PageFault, TickBoot, TickIdle, TickUser,
     SysReturn, PitReturn, ExitToParent, ExitToBoot, SchedEmpty, Dispatch, vars, timeVars
<1>5. QED
  BY <1>2, <1>3, <1>4

LEMMA WakeNext == NoWrap /\ WakeInv /\ [Next]_vars => WakeInv'
<1> SUFFICES ASSUME NoWrap, WakeInv, [Next]_vars
             PROVE  WakeInv'
  OBVIOUS
<1>1. TreeInv /\ Waker /\ TreeInv'
  BY TreeNext DEF WakeInv
<1>2. ticks' <= TickStop
  BY TicksBounded
<1> SUFFICES Waker'
  BY <1>1, <1>2 DEF WakeInv
<1>3. CASE Exec \/ Exit \/ Kill \/ Sigaction \/ DropCap \/ OtherSyscall
           \/ PageFault \/ SysReturn \/ UNCHANGED vars
  <2>1. UNCHANGED <<state, wake_tick, children>>
    BY <1>3 DEF Exec, Exit, Kill, Sigaction, DropCap, OtherSyscall, PageFault,
                SysReturn, vars, tableVars, queueVars, timeVars
  <2>2. QED
    BY <1>1, <2>1, WakerQuiet
<1>4. QED
  BY <1>1, <1>3, WakerNew, WakerWaitpid, WakerSleep, WakerTick, WakerPit,
     WakerExit, WakerSchedule DEF Next, Syscall, Kernel

LEMMA WakeAlways == ASSUME NoWrap PROVE Spec => []WakeInv
<1>1. Init => WakeInv
  <2> SUFFICES ASSUME Init
               PROVE  WakeInv
    OBVIOUS
  <2>1. TreeInv
    BY TreeInit
  <2>2. ticks <= TickStop
    BY BoundsAssumption DEF Init
  <2>3. \A p \in User : state[p] # "BLOCKED"
    BY <2>1, TreeFacts DEF Init
  <2>4. QED
    BY <2>1, <2>2, <2>3 DEF WakeInv, Waker
<1>2. WakeInv /\ [Next]_vars => WakeInv'
  BY WakeNext
<1>3. QED
  BY <1>1, <1>2, PTL DEF Spec

(* No task is lost: whoever is neither running nor queued is BLOCKED, and  *)
(* the timer interrupt or a living child will wake it (sys_sleep,          *)
(* sys_waitpid, task_do_exit), until the tick counter wraps.               *)
THEOREM NobodyLost == ASSUME NoWrap PROVE Spec => []NoLostTask
<1>1. WakeInv => NoLostTask
  BY TreeFacts DEF WakeInv, Waker, NoLostTask, TreePart, RunsAlone, Zombies
<1>2. QED
  BY <1>1, WakeAlways, PTL

(* A set of pids that is not empty has a greatest element.                 *)
LEMMA GreatestPid ==
  ASSUME NEW S, S \subseteq Pid, S # {}
  PROVE  \E m \in S : \A x \in S : x <= m
<1> DEFINE R == OpToRel(<, Nat)
           T == { MaxPid - x : x \in S }
<1>1. MaxPid \in Nat /\ \A x \in S : x \in Nat /\ MaxPid - x \in Nat
  BY BoundsAssumption DEF Pid
<1>2. T \subseteq Nat /\ T # {}
  BY <1>1
<1>3. PICK t \in T : \A u \in T : ~(<<u, t>> \in R)
  <2>1. IsWellFoundedOn(R, Nat)
    BY NatLessThanWellFounded
  <2> HIDE DEF R, T
  <2>2. QED
    BY <1>2, <2>1, WFMin
<1>4. \A u \in T : ~(u < t)
  BY <1>2, <1>3 DEF OpToRel
<1>5. PICK m \in S : t = MaxPid - m
  OBVIOUS
<1>6. ASSUME NEW x \in S
      PROVE  x <= m
  <2>1. MaxPid - x \in T
    OBVIOUS
  <2>2. ~(MaxPid - x < MaxPid - m)
    BY <1>4, <1>5, <2>1
  <2>3. QED
    BY <1>1, <2>2
<1>7. QED
  BY <1>6

(* The youngest BLOCKED task has no living child to wait for once nobody   *)
(* is READY, so it has a deadline.                                         *)
LEMMA IdleFromWake == WakeInv => IdleCanEnd
<1> SUFFICES ASSUME WakeInv, cpu = "idle", ready_queue = <<>>
             PROVE  \E p \in all_tasks : state[p] = "BLOCKED" /\ wake_tick[p] # 0
  BY DEF IdleCanEnd
<1>1. TreeInv /\ Waker
  BY DEF WakeInv
<1>2. \A x \in Pid : state[x] # "READY"
  BY <1>1, TreeFacts, QueueFacts DEF On
<1>3. current_task \in User /\ state[current_task] = "BLOCKED"
  BY <1>1, <1>2, TreeFacts DEF TreePart, OffCpu, MainUp
<1> DEFINE B == { p \in User : state[p] = "BLOCKED" }
<1>4. B \subseteq Pid /\ B # {}
  BY <1>1, <1>3, TreeFacts
<1>5. PICK m \in B : \A x \in B : x <= m
  <2> HIDE DEF B
  <2>1. QED
    BY <1>4, GreatestPid
<1>6. m \in Pid /\ m \in User /\ state[m] = "BLOCKED" /\ Exists(m)
  BY <1>4, <1>5 DEF Exists
<1>7. m \in all_tasks
  BY <1>1, <1>6, TreeFacts DEF TreePart, Listed
<1>8. ASSUME NEW c \in children[m], Alive(c)
      PROVE  FALSE
  <2>1. c \in Pid /\ c \in User /\ m < c
    BY <1>1, <1>6, ChildFacts
  <2>2. state[c] # "RUNNING"
    BY <1>1, <1>3, <2>1, TreeFacts DEF TreePart, RunsAlone
  <2>3. c \in B
    BY <1>2, <1>8, <2>1, <2>2 DEF Alive
  <2>4. c <= m /\ c \in Int /\ m \in Int
    BY <1>1, <1>5, <1>6, <2>1, <2>3, TreeFacts
  <2>5. QED
    BY <2>1, <2>4
<1>9. wake_tick[m] # 0
  BY <1>1, <1>6, <1>8 DEF Waker
<1>10. QED
  BY <1>6, <1>7, <1>9

(* The sti; hlt; cli loop of schedule() can end: parents and children in   *)
(* waitpid and sleep never all wait for each other, until the tick counter *)
(* wraps.                                                                  *)
THEOREM IdleLoopEnds == ASSUME NoWrap PROVE Spec => []IdleCanEnd
BY WakeAlways, IdleFromWake, PTL

-----------------------------------------------------------------------------
(* Programs that reap their children *)

(* Ring-3 programs that exit only without children, do not fault and get   *)
(* no signal                                                               *)
Polite == ~Ring0Mode /\ Workload \cap {"abandon", "fault", "kill", "ctrlc"} = {}

(* A parent outlives its children.                                         *)
Family == \A p \in User : Alive(p) => Alive(parent[p])
Childless == cpu = "exit" => children[current_task] = {}

(* kernel_main runs, or is queued, only when no program is left; it is     *)
(* queued only between its own tick and the schedule() that follows.       *)
MainAlone == cpu = "boot" \/ state[Main] = "READY" => \A p \in User : ~Alive(p)
MainNext == state[Main] = "READY" => current_task = Main /\ cpu = "sched"

(* The parent of a task that has just died is on the queue.                *)
Mourned ==
    cpu = "sched" /\ state[current_task] = "DEAD" => state[parent[current_task]] = "READY"

NoSignal == \A p \in Pid : pending[p] = {}

PolitePart ==
    /\ Family /\ Childless /\ MainAlone /\ MainNext /\ Mourned
    /\ NoSignal /\ KernelRuns

PoliteInv == TreeInv /\ PolitePart

LEMMA PoliteFacts ==
  ASSUME PoliteInv
  PROVE  /\ TreeInv /\ PolitePart
         /\ cpu \in {"user", "pit", "sysret", "exit"} =>
               /\ current_task \in User /\ current_task \in Pid
               /\ state[current_task] = "RUNNING" /\ state[Main] = "RUNNING"
         /\ \A p \in Pid : ~Killed(p) /\ StillPending(p) = {}
<1>1. TreeInv /\ PolitePart
  BY DEF PoliteInv
<1>2. ASSUME cpu \in {"user", "pit", "sysret", "exit"}
      PROVE  /\ current_task \in User /\ current_task \in Pid
             /\ state[current_task] = "RUNNING" /\ state[Main] = "RUNNING"
  <2>1. current_task \in User /\ state[current_task] = "RUNNING"
    BY <1>1, <1>2, TreeFacts DEF QueueInv, OnCpu
  <2>2. state[Main] # "READY"
    BY <1>1, <2>1 DEF PolitePart, MainAlone, Alive
  <2>3. QED
    BY <1>1, <2>1, <2>2, TreeFacts DEF TreePart, MainUp
<1>3. \A p \in Pid : Stops(p) = {}
  BY <1>1 DEF PolitePart, NoSignal, Stops
<1>4. QED
  BY <1>1, <1>2, <1>3 DEF Killed, StillPending

(* Nobody is signalled, and every step ends in code that runs.             *)
LEMMA PoliteSignals ==
  ASSUME Polite, PoliteInv, [Next]_vars
  PROVE  NoSignal'
<1>1. pending \in [Pid -> SUBSET Sigs] /\ \A p \in Pid : pending[p] = {}
  BY PoliteFacts, TreeFacts DEF PolitePart, NoSignal, QueueInv, TypeOK
<1>2. CASE SysReturn \/ PitReturn
  <2>1. \/ pending' = pending
        \/ pending' = [pending EXCEPT ![current_task] = StillPending(current_task)]
    BY <1>2 DEF SysReturn, PitReturn
  <2>2. StillPending(current_task) = {}
    BY PoliteFacts, TreeFacts
  <2>3. QED
    BY <1>1, <2>1, <2>2 DEF NoSignal
<1>3. CASE Launch \/ Fork
  <2>1. pending' = [pending EXCEPT ![next_pid] = {}]
    BY <1>3 DEF Launch, Fork, NewTask
  <2>2. QED
    BY <1>1, <2>1 DEF NoSignal
<1>4. CASE pending' = pending
  BY <1>1, <1>4 DEF NoSignal
<1>5. ~Kill /\ ~PageFault /\ ~("ctrlc" \in Workload)
  BY DEF Polite, Kill, PageFault
<1>6. QED
  BY <1>2, <1>3, <1>4, <1>5
     DEF Next, Syscall, Tick, Kernel, Exec, Waitpid, Sleep, Exit, Sigaction, DropCap,
         OtherSyscall, TickBoot, TickIdle, TickUser, ExitToParent, ExitToBoot,
         SchedEmpty, Dispatch, vars, sigVars

(* A step of user code that changes no task                                *)
LEMMA PoliteQuiet ==
  ASSUME Polite, PoliteInv,
         Exec \/ Exit \/ Sigaction \/ DropCap \/ OtherSyscall \/ SysReturn
  PROVE  (Family /\ Childless /\ MainAlone /\ MainNext /\ Mourned /\ KernelRuns)'
<1>1. cpu \in {"user", "sysret"} /\ UNCHANGED <<current_task, state, parent, children>>
  BY DEF Exec, Exit, Sigaction, DropCap, OtherSyscall, SysReturn, tableVars, queueVars
<1>2. cpu' \in {"user", "sysret", "exit"} /\ (cpu' = "exit" => children[current_task] = {})
  BY PoliteFacts, TreeFacts
     DEF Polite, Exec, Exit, Sigaction, DropCap, OtherSyscall, SysReturn
<1>3. (Family /\ Childless)'
  BY <1>1, <1>2, PoliteFacts DEF PolitePart, Family, Childless, Alive
<1>4. (MainAlone /\ MainNext /\ Mourned /\ KernelRuns)'
  BY <1>1, <1>2, PoliteFacts DEF MainAlone, MainNext, Mourned, KernelRuns
<1>5. QED
  BY <1>3, <1>4

LEMMA PoliteNew ==
  ASSUME Polite, PoliteInv, Launch \/ Fork
  PROVE  (Family /\ Childless /\ MainAlone /\ MainNext /\ Mourned /\ KernelRuns)'
<1>1. PICK st \in {"RUNNING", "READY"} : NewTask(next_pid, st)
  BY DEF Launch, Fork
<1>2. state[current_task] = "RUNNING" /\ state[Main] = "RUNNING" /\ TreeInv
  BY PoliteFacts, TreeFacts DEF Launch, Fork, QueueInv, OnCpu
<1>3. cpu' \in {"user", "sysret"}
  BY DEF Launch, Fork
<1>4. /\ Main # next_pid /\ next_pid \in Pid /\ current_task # next_pid
      /\ state[next_pid] = "none"
      /\ \A x \in Pid : state'[x] = IF x = next_pid THEN st ELSE state[x]
      /\ \A x \in Pid : parent'[x] = IF x = next_pid THEN current_task ELSE parent[x]
  BY <1>1, <1>2, NewTaskEffect
<1>5. Family'
  <2> SUFFICES ASSUME NEW p \in User, Alive(p)'
               PROVE  Alive(parent[p])'
    BY DEF Family
  <2>1. CASE p = next_pid
    <3>1. parent'[p] = current_task /\ state'[current_task] = "RUNNING"
      BY <1>2, <1>4, <2>1, TreeFacts
    <3>2. QED
      BY <3>1 DEF Alive
  <2>2. CASE p # next_pid
    <3>1. p \in Pid /\ Alive(p) /\ parent'[p] = parent[p] /\ parent[p] \in Pid
      BY <1>2, <1>4, <2>2, TreeFacts DEF Alive
    <3>2. Alive(parent[p])
      BY <3>1, PoliteFacts DEF PolitePart, Family
    <3>3. QED
      BY <1>4, <3>1, <3>2 DEF Alive
  <2>3. QED
    BY <2>1, <2>2
<1>6. state'[Main] = "RUNNING"
  BY <1>2, <1>4, TreeFacts
<1>7. (Childless /\ MainAlone /\ MainNext /\ Mourned /\ KernelRuns)'
  BY <1>3, <1>6 DEF Childless, MainAlone, MainNext, Mourned, KernelRuns
<1>8. QED
  BY <1>5, <1>7

(* A step that moves tasks between RUNNING, READY and BLOCKED only         *)
LEMMA PoliteMove ==
  ASSUME PoliteInv, parent' = parent, \A x \in Pid : Alive(x)' <=> Alive(x)
  PROVE  Family'
BY PoliteFacts, TreeFacts DEF PolitePart, Family

LEMMA PoliteBlock ==
  ASSUME Polite, PoliteInv, Waitpid \/ Sleep \/ TickUser \/ PitReturn
  PROVE  (Family /\ Childless /\ MainAlone /\ MainNext /\ Mourned /\ KernelRuns)'
<1>1. cpu \in {"user", "pit"} /\ UNCHANGED <<current_task, parent>>
  BY DEF Waitpid, Sleep, TickUser, PitReturn, tableVars
<1>2. /\ current_task \in User /\ state[current_task] = "RUNNING"
      /\ state[Main] = "RUNNING" /\ current_task \in Pid /\ TreeInv
      /\ current_task # Main
  BY <1>1, PoliteFacts, TreeFacts
<1>3. /\ cpu' \in {"sched_sys", "pit", "sched", "user"}
      /\ cpu' = "sched" => state'[current_task] = "READY"
      /\ \A x \in Pid : \/ state'[x] = state[x]
                        \/ x = current_task /\ state'[x] \in {"BLOCKED", "READY"}
                        \/ state[x] = "BLOCKED" /\ state'[x] = "READY"
  <2>1. CASE Waitpid \/ Sleep
    BY <2>1, TreeFacts, <1>2 DEF Waitpid, Sleep, Block
  <2>2. CASE TickUser
    BY <2>2, <1>2, WokenMoves DEF TickUser
  <2>3. CASE PitReturn
    BY <2>3, <1>2, TreeFacts, PoliteFacts DEF PitReturn
  <2>4. QED
    BY <2>1, <2>2, <2>3
<1>4. \A x \in Pid : Alive(x)' <=> Alive(x)
  BY <1>2, <1>3 DEF Alive
<1>5. state'[Main] = "RUNNING"
  BY <1>2, <1>3, TreeFacts
<1>6. (Childless /\ MainAlone /\ MainNext /\ Mourned /\ KernelRuns)'
  BY <1>1, <1>3, <1>5 DEF Childless, MainAlone, MainNext, Mourned, KernelRuns
<1>7. QED
  BY <1>1, <1>4, <1>6, PoliteMove

LEMMA PoliteTick ==
  ASSUME Polite, PoliteInv, TickBoot \/ TickIdle
  PROVE  (Family /\ Childless /\ MainAlone /\ MainNext /\ Mourned /\ KernelRuns)'
<1>1. TreeInv /\ UNCHANGED <<current_task, parent>> /\ Woken \in [Pid -> States]
  BY PoliteFacts, TreeFacts, ExpiredType DEF TickBoot, TickIdle, tableVars, QueueInv
<1>2. \A x \in Pid : \/ state'[x] = Woken[x]
                     \/ cpu = "boot" /\ x = Main /\ state'[x] = "READY"
  BY <1>1, TreeFacts DEF TickBoot, TickIdle
<1>3. cpu = "boot" => state[Main] = "RUNNING" /\ current_task = Main
  BY <1>1, TreeFacts DEF QueueInv, OnCpu
<1>4. \A x \in Pid : Alive(x)' <=> Alive(x)
  BY <1>1, <1>2, <1>3, WokenMoves DEF Alive
<1>5. Family'
  BY <1>1, <1>4, PoliteMove
<1>6. CASE TickBoot
  <2>1. cpu = "boot" /\ cpu' = "sched" /\ state'[Main] = "READY" /\ current_task' = Main
    BY <1>1, <1>3, <1>6, TreeFacts DEF TickBoot
  <2>2. MainAlone'
    BY <1>1, <1>4, <2>1, PoliteFacts, TreeFacts DEF PolitePart, MainAlone
  <2>3. QED
    BY <1>5, <2>1, <2>2 DEF Childless, MainNext, Mourned, KernelRuns
<1>7. CASE TickIdle
  <2>1. cpu = "idle" /\ cpu' = "idle"
    BY <1>7 DEF TickIdle
  <2>2. state[Main] = "RUNNING"
    BY <1>1, <2>1, PoliteFacts, TreeFacts DEF PolitePart, MainNext, TreePart, MainUp
  <2>3. state'[Main] = "RUNNING"
    BY <1>1, <1>2, <2>1, <2>2, WokenMoves, TreeFacts
  <2>4. QED
    BY <1>5, <2>1, <2>3 DEF Childless, MainAlone, MainNext, Mourned, KernelRuns
<1>8. QED
  BY <1>6, <1>7

(* A task that exits has no living child, so no family loses its head.     *)
LEMMA PoliteBereaved ==
  ASSUME PoliteInv, cpu = "exit"
  PROVE  \A p \in User : Alive(p) => parent[p] # current_task
<1>1. /\ TreeInv /\ children[current_task] = {} /\ Exists(current_task)
      /\ current_task \in Pid
  BY PoliteFacts, TreeFacts DEF PolitePart, Childless, Exists
<1>2. \A p \in User : Alive(p) => p \in Pid /\ p # Main /\ Exists(p) /\ state[p] # "DEAD"
  BY <1>1, TreeFacts DEF Alive, Exists
<1>3. QED
  BY <1>1, <1>2, TreeFacts DEF TreePart, Kids

LEMMA PoliteExit ==
  ASSUME Polite, PoliteInv, ExitToParent
  PROVE  (Family /\ Childless /\ MainAlone /\ MainNext /\ Mourned /\ KernelRuns)'
<1> DEFINE self == current_task
           par  == parent[current_task]
<1>1. TreeInv /\ cpu = "exit" /\ state[Main] = "RUNNING"
  BY PoliteFacts DEF ExitToParent
<1>2. /\ self \in User /\ self \in Pid /\ self # Main /\ state[self] = "RUNNING"
      /\ par \in User /\ par \in Pid /\ par # self /\ par # Main
      /\ UNCHANGED <<current_task, parent>>
      /\ state'[self] = "DEAD"
      /\ state'[par] = IF state[par] = "BLOCKED" THEN "READY" ELSE state[par]
      /\ \A x \in Pid : x # self /\ x # par => state'[x] = state[x]
  BY <1>1, ExitEffect, TreeFacts
<1>3. state[par] \in {"READY", "BLOCKED"}
  <2>1. Alive(par)
    BY <1>2, PoliteFacts DEF PolitePart, Family, Alive
  <2>2. state[par] # "RUNNING"
    BY <1>1, <1>2, TreeFacts DEF TreePart, RunsAlone
  <2>3. QED
    BY <2>1, <2>2 DEF Alive
<1>4. cpu' = "sched"
  BY <1>3 DEF ExitToParent
<1>5. \A x \in Pid : Alive(x)' <=> Alive(x) /\ x # self
  BY <1>2, <1>3 DEF Alive
<1>6. parent'[current_task'] = par
  BY <1>2
<1> HIDE DEF self, par
<1>7. Family'
  <2> SUFFICES ASSUME NEW p \in User, Alive(p)'
               PROVE  Alive(parent[p])'
    BY DEF Family
  <2>1. p \in Pid /\ Alive(p) /\ parent[p] \in Pid
    BY <1>1, <1>5, TreeFacts
  <2>2. Alive(parent[p]) /\ parent[p] # self
    BY <1>1, <2>1, PoliteFacts, PoliteBereaved DEF PolitePart, Family, self
  <2>3. QED
    BY <1>2, <1>5, <2>1, <2>2
<1>8. state'[Main] = "RUNNING"
  BY <1>1, <1>2, TreeFacts
<1>9. Mourned'
  BY <1>2, <1>3, <1>6 DEF Mourned
<1>10. (Childless /\ MainAlone /\ MainNext /\ KernelRuns)'
  BY <1>4, <1>8 DEF Childless, MainAlone, MainNext, KernelRuns
<1>11. QED
  BY <1>7, <1>9, <1>10

(* The eldest task left would have a parent that is neither main_task, nor *)
(* the one that exits, nor older than itself.                              *)
LEMMA PoliteLast ==
  ASSUME PoliteInv, ExitToBoot
  PROVE  \A p \in User : Alive(p) => p = current_task
<1> SUFFICES ASSUME NEW q \in User, Alive(q), q # current_task
             PROVE  FALSE
  OBVIOUS
<1>1. /\ TreeInv /\ cpu = "exit" /\ current_task \in User /\ Alive(current_task)
      /\ parent[current_task] = Main
  BY PoliteFacts DEF ExitToBoot, Alive
<1> DEFINE S == { p \in User : Alive(p) /\ p # current_task }
           R == OpToRel(<, Nat)
<1>2. S \subseteq Nat /\ S # {}
  BY BoundsAssumption DEF User
<1>3. PICK m \in S : \A y \in S : ~(<<y, m>> \in R)
  <2>1. IsWellFoundedOn(R, Nat)
    BY NatLessThanWellFounded
  <2> HIDE DEF R, S
  <2>2. QED
    BY <1>2, <2>1, WFMin
<1>4. \A y \in S : ~(y < m)
  BY <1>2, <1>3 DEF OpToRel
<1>5. m \in User /\ m \in Pid /\ Alive(m) /\ m # current_task
  BY <1>1, TreeFacts
<1>6. Alive(parent[m]) /\ parent[m] # current_task /\ parent[m] < m /\ parent[m] \in Pid
  BY <1>1, <1>5, PoliteFacts, PoliteBereaved, TreeFacts
     DEF PolitePart, Family, TreePart, Tree, Alive
<1>7. parent[m] # Main
  BY <1>1, <1>5, TreeFacts DEF QueueInv, MainWaits
<1>8. parent[m] \in S
  BY <1>1, <1>6, <1>7, TreeFacts
<1>9. QED
  BY <1>4, <1>6, <1>8

LEMMA PoliteBoot ==
  ASSUME Polite, PoliteInv, ExitToBoot
  PROVE  (Family /\ Childless /\ MainAlone /\ MainNext /\ Mourned /\ KernelRuns)'
<1>1. /\ TreeInv /\ cpu' = "boot" /\ current_task \in User /\ current_task \in Pid
      /\ state[Main] = "RUNNING" /\ current_task # Main
  BY PoliteFacts, TreeFacts DEF ExitToBoot
<1>2. \A x \in Pid : state'[x] = IF x = current_task THEN "freed" ELSE state[x]
  BY <1>1, TreeFacts DEF ExitToBoot
<1>3. \A p \in User : ~Alive(p)'
  BY <1>1, <1>2, PoliteLast, TreeFacts DEF Alive
<1>4. state'[Main] = "RUNNING"
  BY <1>1, <1>2, TreeFacts
<1>5. QED
  BY <1>1, <1>3, <1>4
     DEF Family, Childless, MainAlone, MainNext, Mourned, KernelRuns

LEMMA PoliteSchedule ==
  ASSUME Polite, PoliteInv, SchedEmpty \/ Dispatch
  PROVE  (Family /\ Childless /\ MainAlone /\ MainNext /\ Mourned /\ KernelRuns)'
<1>1. TreeInv /\ parent' = parent /\ cpu \in {"sched", "sched_sys", "idle"}
  BY PoliteFacts DEF SchedEmpty, Dispatch
<1>2. \A x \in Pid : Reaped[x] = IF state[x] = "DEAD" THEN "freed" ELSE state[x]
  BY <1>1, TreeFacts DEF TreePart, Zombies, Reaped
<1>3. CASE SchedEmpty
  <2>1. \A x \in Pid : state'[x] = Reaped[x] /\ state[x] # "READY"
    BY <1>1, <1>3, TreeFacts, QueueFacts DEF SchedEmpty, On
  <2>2. \A x \in Pid : Alive(x)' <=> Alive(x)
    BY <1>2, <2>1 DEF Alive
  <2>3. ~(cpu = "sched" /\ state[current_task] = "DEAD")
    BY <1>1, <2>1, PoliteFacts, TreeFacts DEF PolitePart, Mourned
  <2>4. cpu' = "idle"
    BY <1>1, <1>3, <2>3, TreeFacts DEF SchedEmpty, TreePart, OffCpu
  <2>5. state'[Main] # "READY"
    BY <1>1, <1>2, <2>1, TreeFacts
  <2>6. Family'
    BY <1>1, <2>2, PoliteMove
  <2>7. QED
    BY <2>4, <2>5, <2>6 DEF Childless, MainAlone, MainNext, Mourned, KernelRuns
<1>4. CASE Dispatch
  <2>1. PICK i \in PickSet :
          /\ state' = [Reaped EXCEPT ![ready_queue[i]] = "RUNNING"]
          /\ current_task' = ready_queue[i]
          /\ cpu' = Resume(ready_queue[i])
    BY <1>4 DEF Dispatch
  <2> DEFINE nt == ready_queue[i]
  <2>2. nt \in Pid /\ state[nt] = "READY"
    <3>1. i \in 1..Len(ready_queue)
      BY DEF PickSet
    <3>2. QED
      BY <1>1, <3>1, QueueFacts, TreeFacts DEF On
  <2>3. \A x \in Pid : state'[x] = IF x = nt THEN "RUNNING" ELSE Reaped[x]
    BY <1>1, <2>1, <2>2, ReapedFacts, TreeFacts
  <2>4. \A x \in Pid : Alive(x)' <=> Alive(x)
    BY <1>2, <2>2, <2>3 DEF Alive
  <2>5. nt = Main => nt = current_task
    BY <2>2, PoliteFacts DEF PolitePart, MainNext
  <2>6. cpu' \in {"boot", "user", "sysret"} /\ (cpu' = "boot" => nt = Main)
    BY <2>1, <2>5 DEF Resume, Polite
  <2>7. state'[Main] # "READY"
    <3>1. nt # Main => state[Main] # "READY"
      BY <1>1, <2>2, PoliteFacts, TreeFacts DEF PolitePart, MainAlone, Alive
    <3>2. QED
      BY <1>1, <1>2, <2>3, <3>1, TreeFacts
  <2>8. cpu' = "boot" => \A p \in User : ~Alive(p)
    BY <2>2, <2>6, PoliteFacts DEF PolitePart, MainAlone
  <2>9. MainAlone'
    BY <1>1, <2>4, <2>7, <2>8, TreeFacts DEF MainAlone
  <2>10. Family'
    BY <1>1, <2>4, PoliteMove
  <2>11. QED
    BY <2>6, <2>7, <2>9, <2>10 DEF Childless, MainNext, Mourned, KernelRuns
<1>5. QED
  BY <1>3, <1>4

LEMMA PoliteNext == Polite /\ PoliteInv /\ [Next]_vars => PoliteInv'
<1> SUFFICES ASSUME Polite, PoliteInv, [Next]_vars
             PROVE  PoliteInv'
  OBVIOUS
<1>1. TreeInv' /\ NoSignal'
  BY TreeNext, PoliteSignals DEF PoliteInv
<1> SUFFICES (Family /\ Childless /\ MainAlone /\ MainNext /\ Mourned /\ KernelRuns)'
  BY <1>1 DEF PoliteInv, PolitePart
<1>2. ~Kill /\ ~PageFault
  BY DEF Polite, Kill, PageFault
<1>3. CASE UNCHANGED vars
  BY <1>3 DEF PoliteInv, PolitePart, Family, Childless, MainAlone, MainNext, Mourned,
     KernelRuns, Alive, vars, tableVars, queueVars
<1>4. QED
  BY <1>2, <1>3, PoliteQuiet, PoliteNew, PoliteBlock, PoliteTick, PoliteExit,
     PoliteBoot, PoliteSchedule DEF Next, Syscall, Tick, Kernel

(* Ring-3 programs that reap their children before they exit, do not fault *)
(* and are not signalled never stop the kernel: schedule() never reaches   *)
(* its hlt, main_task is never restored over another task's frame, and     *)
(* task_do_exit follows no parent pointer into freed memory.               *)
THEOREM KernelKeepsRunning == ASSUME Polite PROVE Spec => []KernelRuns
<1>1. Init => PoliteInv
  <2> SUFFICES ASSUME Init
               PROVE  PoliteInv
    OBVIOUS
  <2>1. TreeInv
    BY TreeInit
  <2>2. /\ cpu = "boot" /\ state[Main] = "RUNNING"
        /\ \A p \in User : state[p] = "none"
        /\ \A p \in Pid : pending[p] = {}
    BY <2>1, TreeFacts DEF Init
  <2>3. QED
    BY <2>1, <2>2 DEF PoliteInv, PolitePart, Family, Childless, MainAlone, MainNext,
       Mourned, NoSignal, KernelRuns, Alive
<1>2. PoliteInv /\ [Next]_vars => PoliteInv'
  BY PoliteNext
<1>3. PoliteInv => KernelRuns
  BY DEF PoliteInv, PolitePart
<1>4. QED
  BY <1>1, <1>2, <1>3, PTL DEF Spec

=============================================================================
