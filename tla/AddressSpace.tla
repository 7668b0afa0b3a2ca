---------------------------- MODULE AddressSpace ----------------------------
(* Physical pages (kernel/mm.cpp) and the page directories that own them     *)
(* (kernel/paging.cpp), over launch, fork, exec, sbrk and exit               *)
(* (shell/shell.cpp, kernel/loader.cpp, kernel/syscall.cpp, kernel/task.cpp).*)
(*                                                                           *)
(* These calls run with interrupts off, so none interleaves with another;    *)
(* but each allocates page by page and can fail at any of them.  A call that *)
(* builds mappings is therefore a series of steps, one per page, and job is  *)
(* the call under way.  Addresses are page numbers; PtSize consecutive ones  *)
(* share a page table.                                                       *)
EXTENDS Integers, FiniteSets, TLC

CONSTANTS Task,        \* task structures
          New,         \* stands for the space under construction
          LastPage,    \* pages mm manages are 1 .. LastPage, 0 is physical page 0
          BmPages,     \* pages of the bitmap, marked used but not counted
          Reserved,    \* pages mm_reserve takes: heap, identity area, screen
          PtSize,      \* entries of a page table
          Image,       \* addresses of code, .bss and stack
          HeapBase,    \* where user_break starts
          HeapTop,     \* bound on user_break, below the kernel's half
          MaxOwned,    \* MAX_OWNED
          MaxSbrk,     \* bound on the pages of one sbrk that does not wrap
          WordPages    \* pages a u32 can address

Page == 1 .. LastPage
Va == 0 .. (HeapTop - 1)
Pde == {va \div PtSize : va \in Va}

ASSUME SpaceAssumption ==
    /\ New \notin Task
    /\ LastPage \in Nat /\ BmPages \in 0 .. LastPage
    /\ Reserved \subseteq Page /\ Reserved \cap (1 .. BmPages) = {}
    /\ PtSize \in Nat \ {0} /\ MaxOwned \in Nat /\ MaxSbrk \in Nat
    /\ HeapBase \in Nat /\ HeapTop \in Nat /\ HeapBase <= HeapTop
    /\ WordPages \in Nat /\ MaxSbrk < WordPages
    /\ Image \subseteq 0 .. (HeapBase - 1) /\ Image # {}

VARIABLES used,        \* the bitmap: pages that are taken
          freeCount,   \* free_count
          space,       \* the PagingManager of a task, and the one under construction
          brk,         \* user_break, one for all tasks
          job,         \* the call under way
          how,         \* how a task's image came about
          boot,        \* the task the boot loop waits for, New when there is none
          view,        \* addresses a program was told it has
          lost,        \* pages no directory tracks
          silent,      \* map_page returned without mapping
          wrapped,     \* tasks whose sbrk wrapped around, and their children
          halted       \* a user page fault stopped the kernel

vars == <<used, freeCount, space, brk, job, how, boot, view, lost, silent, wrapped, halted>>

Ident == -1            \* a page of the identity area, which mm does not own
NoPage == 0

(* A PagingManager: its directory, page tables, entries and owned_phys_.     *)
EmptySpace(d) == [dir |-> d, tab |-> [i \in Pde |-> NoPage], pte |-> [va \in Va |-> NoPage], owned |-> {}]
NoSpace == EmptySpace(NoPage)
Owners == Task \cup {New}

Idle == [op |-> "none"]
Alive == {t \in Task : how[t] # "none"}
Mapped(sp) == {va \in Va : sp.pte[va] # NoPage}
Tables(sp) == {sp.tab[i] : i \in Pde} \ {NoPage}
Dirs(sp) == {sp.dir} \ {NoPage}
Pages(sp) == Dirs(sp) \cup Tables(sp) \cup sp.owned
Runs(t) == t \in Alive /\ Image \subseteq Mapped(space[t])
Lowest(S) == CHOOSE x \in S : \A y \in S : x <= y

---------------------------------------------------------------------------
(* mm.cpp                                                                    *)

(* mm_init marks the first BmPages pages although the bitmap lies below      *)
(* them, and does not count them; mm_reserve counts what it marks.           *)
InitUsed == (1 .. BmPages) \cup Reserved
InitFree == LastPage - Cardinality(Reserved)

(* mm_alloc_page: the lowest page that is not marked, 0 when there is none   *)
FreePages_last(u) == Page \ (u \ {LastPage})
FreePages(u) == Page \ u
Alloc(u) == IF FreePages(u) = {} THEN NoPage ELSE Lowest(FreePages(u))

Counted_one(S) == IF S = {} THEN 0 ELSE 1
Counted(S) == Cardinality(S)

(* mm_alloc_page and mm_free_page, for the pages S                           *)
Take(S) ==
    /\ used' = used \cup (S \ {NoPage})
    /\ freeCount' = freeCount - Counted(S \ {NoPage})

Give(S) ==
    /\ used' = used \ S
    /\ freeCount' = freeCount + Counted(S \cap used)

---------------------------------------------------------------------------
(* paging.cpp                                                                *)

(* track_owned: beyond MaxOwned a page is not recorded.                      *)
Track(sp, p) == IF Cardinality(sp.owned) < MaxOwned THEN [sp EXCEPT !.owned = @ \cup {p}] ELSE sp

Untracked(sp, p) == IF Cardinality(sp.owned) < MaxOwned THEN {} ELSE {p}

(* map_page: q is the page table it allocates if it needs one; without one   *)
(* it returns and leaves the address unmapped.                               *)
NeedsTable(sp, va) == sp.tab[va \div PtSize] = NoPage

Map(sp, va, p, q) ==
    CASE ~NeedsTable(sp, va) -> [sp EXCEPT !.pte[va] = p]
      [] NeedsTable(sp, va) /\ q # NoPage -> [sp EXCEPT !.tab[va \div PtSize] = q, !.pte[va] = p]
      [] OTHER -> sp

Skips(sp, va, q) == NeedsTable(sp, va) /\ q = NoPage

(* The page table map_page would allocate when the pages u are taken.        *)
TableFor(sp, va, u) == IF NeedsTable(sp, va) THEN Alloc(u) ELSE NoPage

(* ~PagingManager: the data pages it tracked, its page tables (those below   *)
(* 0xC0000000, and so all, with user_break below HeapTop), its directory     *)
Released_noTables(sp) == Dirs(sp) \cup sp.owned
Released_noOwned(sp) == Dirs(sp) \cup Tables(sp)
Released(sp) == Dirs(sp) \cup Tables(sp) \cup sp.owned

---------------------------------------------------------------------------
(* Calls.  space[New] is being filled, job.todo is what is left to map,      *)
(* job.start the pages in use before the call.                               *)

Start(op, t, src, todo) ==
    /\ LET d == Alloc(used) IN
       /\ Take({d})
       /\ space' = [space EXCEPT ![New] = EmptySpace(d)]
    /\ job' = [op |-> op, t |-> t, src |-> src, todo |-> todo, start |-> used]
    /\ UNCHANGED <<brk, how, boot, view, lost, silent, wrapped, halted>>

(* shell_launch_user and load_flat_binary, from the boot loop, which runs    *)
(* when the program launched before is gone                                  *)
Launch(t) ==
    /\ job = Idle /\ how[t] = "none"
    /\ boot = New
    /\ Start("launch", t, t, Image)

(* sys_fork: the child c gets a copy of every user page of t.                *)
Copied_high(sp) == {va \in Mapped(sp) : va >= HeapBase}
Copied(sp) == Mapped(sp)

Fork(t, c) ==
    /\ job = Idle /\ Runs(t) /\ c \notin Alive
    /\ Start("fork", c, t, Copied(space[t]))

(* exec_replace_address_space                                                *)
Exec(t) ==
    /\ job = Idle /\ Runs(t)
    /\ Start("exec", t, t, Image)

(* One page of launch: the identity mapping, which only takes a page table.  *)
MapIdentity ==
    /\ job.op = "launch" /\ job.todo # {}
    /\ LET va == Lowest(job.todo)
           q == TableFor(space[New], va, used) IN
       /\ Take({q})
       /\ space' = [space EXCEPT ![New] = Map(@, va, Ident, q)]
       /\ job' = [job EXCEPT !.todo = @ \ {va}]
       /\ silent' = (silent \/ Skips(space[New], va, q))
    /\ UNCHANGED <<brk, how, boot, view, lost, wrapped, halted>>

(* One page of fork or exec: allocate, map, track.                           *)
MapPrivate ==
    /\ job.op \in {"fork", "exec"} /\ job.todo # {}
    /\ FreePages(used) # {}
    /\ LET va == Lowest(job.todo)
           p == Alloc(used)
           q == TableFor(space[New], va, used \cup {p}) IN
       /\ Take({p, q})
       /\ space' = [space EXCEPT ![New] = Track(Map(@, va, p, q), p)]
       /\ job' = [job EXCEPT !.todo = @ \ {va}]
       /\ lost' = lost \cup Untracked(space[New], p)
       /\ silent' = (silent \/ Skips(space[New], va, q))
    /\ UNCHANGED <<brk, how, boot, view, wrapped, halted>>

(* No page: fork and exec delete the space they were building.               *)
Abandon ==
    /\ Give(Released(space[New]))
    /\ space' = [space EXCEPT ![New] = NoSpace]
    /\ job' = Idle
    /\ UNCHANGED <<brk, how, boot, view, lost, silent, wrapped, halted>>

OutOfPages ==
    /\ job.op \in {"fork", "exec"} /\ job.todo # {} /\ FreePages(used) = {}
    /\ Abandon

(* exec looks up the first, the last and the stack's address before it       *)
(* commits.                                                                  *)
Verified_no(sp) == TRUE
Verified(sp) == {Lowest(Image), CHOOSE x \in Image : \A y \in Image : y <= x} \subseteq Mapped(sp)

ExecUnmapped ==
    /\ job.op = "exec" /\ job.todo = {} /\ ~Verified(space[New])
    /\ Abandon

(* The old space is deleted and the new one installed.                       *)
Commit ==
    /\ job.op \in {"launch", "fork", "exec"} /\ job.todo = {}
    /\ job.op = "exec" => Verified(space[New])
    /\ Give(Released(space[job.t]))
    /\ space' = [space EXCEPT ![job.t] = space[New], ![New] = NoSpace]
    /\ how' = [how EXCEPT ![job.t] = job.op]
    /\ boot' = IF job.op = "launch" THEN job.t ELSE boot
    /\ view' = [view EXCEPT ![job.t] = IF job.op = "fork" THEN view[job.src] ELSE Image]
    /\ wrapped' = IF job.op = "fork" /\ job.src \in wrapped
                  THEN wrapped \cup {job.t} ELSE wrapped \ {job.t}
    /\ job' = Idle
    /\ UNCHANGED <<brk, lost, silent, halted>>

(* What (bytes + 0xFFF) / 0x1000 makes of n pages, the last one begun: the   *)
(* sum is a u32, and more than 0xFFFFF000 bytes, which is the whole address  *)
(* space, become no page.                                                    *)
Rounded(n) == n % WordPages

(* sys_sbrk: the pages are mapped into the caller's own space one by one;    *)
(* the break all tasks share moves with each.  A request that wrapped around *)
(* returns the old break at once, which is success.                          *)
Sbrk(t, n) ==
    /\ job = Idle /\ Runs(t) /\ brk + Rounded(n) <= HeapTop
    /\ \/ /\ Rounded(n) # 0
          /\ job' = [op |-> "sbrk", t |-> t, todo |-> Rounded(n), range |-> brk .. (brk + n - 1)]
          /\ UNCHANGED <<view, wrapped>>
       \/ /\ Rounded(n) = 0
          /\ view' = [view EXCEPT ![t] = @ \cup 0 .. (WordPages - 1)]
          /\ wrapped' = wrapped \cup {t}
          /\ UNCHANGED job
    /\ UNCHANGED <<used, freeCount, space, brk, how, boot, lost, silent, halted>>

SbrkPage ==
    /\ job.op = "sbrk" /\ FreePages(used) # {}
    /\ LET t == job.t
           p == Alloc(used)
           q == TableFor(space[t], brk, used \cup {p}) IN
       /\ Take({p, q})
       /\ space' = [space EXCEPT ![t] = Track(Map(@, brk, p, q), p)]
       /\ lost' = lost \cup Untracked(space[t], p)
       /\ silent' = (silent \/ Skips(space[t], brk, q))
       /\ IF job.todo = 1
          THEN view' = [view EXCEPT ![t] = @ \cup job.range] /\ job' = Idle
          ELSE job' = [job EXCEPT !.todo = @ - 1] /\ UNCHANGED view
    /\ brk' = brk + 1
    /\ UNCHANGED <<how, boot, wrapped, halted>>

SbrkFails ==
    /\ job.op = "sbrk" /\ FreePages(used) = {}
    /\ job' = Idle
    /\ UNCHANGED <<used, freeCount, space, brk, how, boot, view, lost, silent, wrapped, halted>>

(* task_do_exit, or task_cleanup_user for the program launched: the          *)
(* directory goes with the task.                                             *)
Exit(t) ==
    /\ job = Idle /\ Runs(t)
    /\ Give(Released(space[t]))
    /\ space' = [space EXCEPT ![t] = NoSpace]
    /\ how' = [how EXCEPT ![t] = "none"]
    /\ boot' = IF t = boot THEN New ELSE boot
    /\ view' = [view EXCEPT ![t] = {}]
    /\ wrapped' = wrapped \ {t}
    /\ UNCHANGED <<brk, job, lost, silent, halted>>

(* A program touches a page it was told it has and that is not mapped; the   *)
(* fault branch of c_isr_handler runs into the panic.                        *)
Fault(t) ==
    /\ job = Idle /\ t \in Alive
    /\ ~(view[t] \subseteq Mapped(space[t]))
    /\ halted' = TRUE
    /\ UNCHANGED <<used, freeCount, space, brk, job, how, boot, view, lost, silent, wrapped>>

---------------------------------------------------------------------------

Init ==
    /\ used = InitUsed
    /\ freeCount = InitFree
    /\ space = [x \in Owners |-> NoSpace]
    /\ brk = HeapBase
    /\ job = Idle
    /\ how = [t \in Task |-> "none"]
    /\ boot = New
    /\ view = [t \in Task |-> {}]
    /\ lost = {}
    /\ silent = FALSE
    /\ wrapped = {}
    /\ halted = FALSE

Next ==
    /\ ~halted
    /\ \/ \E t \in Task : Launch(t) \/ Exec(t) \/ Exit(t) \/ Fault(t)
       \/ \E t, c \in Task : Fork(t, c)
       \/ \E t \in Task, n \in 1 .. MaxSbrk \cup {WordPages} : Sbrk(t, n)
       \/ MapIdentity \/ MapPrivate \/ OutOfPages \/ ExecUnmapped \/ Commit
       \/ SbrkPage \/ SbrkFails

Spec == Init /\ [][Next]_vars

---------------------------------------------------------------------------
(* Properties.                                                               *)

(* Every page the bitmap marks has exactly one use: taken at boot, or the    *)
(* directory, one page table or one data page of exactly one space, or known *)
(* to be lost.  Nothing is freed twice or under a user and nothing leaks,    *)
(* over every order of fork, exec, sbrk, exit and failure half way.          *)
PagePartition ==
    /\ used = InitUsed \cup lost \cup UNION {Pages(space[x]) : x \in Owners}
    /\ InitUsed \cap lost = {}
    /\ \A x \in Owners :
         LET sp == space[x] IN
         /\ Pages(sp) \cap (InitUsed \cup lost) = {}
         /\ \A y \in Owners \ {x} : Pages(sp) \cap Pages(space[y]) = {}
         /\ sp.dir \notin Tables(sp) /\ sp.dir \notin sp.owned
         /\ Tables(sp) \cap sp.owned = {}
         /\ \A i, j \in Pde : (i # j /\ sp.tab[i] # NoPage) => sp.tab[i] # sp.tab[j]

(* Isolation: a page mapped for one program is a data page of its own space  *)
(* (or an untracked one), mapped at one address of one space; so no program  *)
(* reaches another's memory, a page table or a directory, and the identity   *)
(* area belongs to one program at a time.                                    *)
PrivatePages ==
    \A x, y \in Owners : \A va \in Mapped(space[x]), vb \in Mapped(space[y]) :
        LET p == space[x].pte[va] IN
        /\ p = Ident \/ p \in space[x].owned \cup lost
        /\ p = space[y].pte[vb] => x = y /\ (p # Ident => va = vb)

(* free_count, which SYS_MEMINFO reports, is the number of free pages and    *)
(* the bitmap's own, which mm_init marks without counting them (mm.cpp:72).  *)
FreeCountExact == freeCount = Cardinality(Page \ used) + BmPages

(* As long as map_page never returned without a page table (paging.cpp:82),  *)
(* every address a program was told it has is mapped: its image, what its    *)
(* parent had at the fork, what sbrk granted.  Only a program whose request  *)
(* to sbrk wrapped around to no page (syscall.cpp:267), or that was forked   *)
(* from one, was told of memory it has not got; the others are not harmed.   *)
ToldIsMapped == ~silent => \A t \in Task \ wrapped : view[t] \subseteq Mapped(space[t])

(* Even with no page left, a forked program has a directory of its own and   *)
(* an executed one its whole image: neither runs on physical page 0, which   *)
(* PagingManager() overwrites when it gets no page (paging.cpp:10).          *)
NeverOnPageZero ==
    \A t \in Alive : /\ how[t] # "launch" => space[t].dir # NoPage
                     /\ how[t] = "exec" => Image \subseteq Mapped(space[t])

(* A fork or exec that fails gives every page back and leaves all spaces as  *)
(* they were (syscall.cpp:532).                                              *)
FailRestores ==
    [][(job.op \in {"fork", "exec"} /\ job' = Idle /\ \A t \in Task : space'[t] = space[t])
         => used' = job.start \cup lost']_vars

Symmetry == Permutations(Task)

============================================================================
