# A TLA+ model of XEKernelOS

XEKernelOS is a small x86-32 kernel: a boot loader, a kernel with a preemptive
scheduler, FAT12/16 and ext2 file systems, PS/2 and ATA drivers, a user shell
and a desktop. This directory holds TLA+ modules of its parts, TLC
configurations that check them on small instances, and proofs that TLAPS checks
for every value of the constants. `PROJECT.json` maps every definition to the
lines it models. Paths below are relative to the repository's `src/`.

    tlc -config Task_lifecycle.cfg Task        # one run
    tlapm TaskProofs.tla                       # all proofs of a module

(`UfsProofs` takes a quarter of an hour, the others a few minutes each.)

## 1. The system

### Parts, their state, their operations

| Part | State | Operations | Modelled in |
|---|---|---|---|
| Task table, scheduler (`kernel/task.cpp`) | `task_struct`s, `ready_queue`, `all_tasks`, `zombie_reap`, `current_task`, `next_pid` | create, `schedule`, exit and reap, signals, priority boost, capabilities | `Task`, `TaskProofs` |
| Interrupt and fault entry (`kernel/isr.cpp`, `drivers/pit.cpp`) | `ticks` | timer, system call return, page fault | `Task`, `Keyboard` |
| Process system calls (`kernel/syscall.cpp`) | fields of the current task | fork, exec, waitpid, sleep, exit, kill, sigaction, drop_cap, sbrk | `Task`; memory side `AddressSpace`, descriptor side `FdTable` |
| Boot loop, launch (`kernel/kernel.cpp`, `loader.cpp`, `user.cpp`, `shell/shell.cpp`) | `g_entry_esp`, crash counter | `load_binary`, `shell_launch_user`, return from a program, mounts | `Task` (launch and return), `AddressSpace` (mappings), `Vfs` (mounts) |
| Page allocator, address spaces (`kernel/mm.cpp`, `paging.cpp`) | bitmap, `free_count`, page tables, `owned_phys_`, `user_break` | alloc, free, reserve, map, clone, destroy | `AddressSpace`, `AddressSpaceProofs` |
| Kernel heap (`lib/heap.cpp`) | list of block headers | `kmalloc`, `kfree` | `Heap`, `StoreProofs` |
| File descriptors, pipes (`kernel/syscall.cpp`) | fd tables, `output_fd`, pipes | open, read, write, lseek, dup, dup2, pipe, close, set_outfd, inherit, clean up | `FdTable`, `FdTableProofs` |
| Virtual file system, RAM disk (`fs/vfs.cpp`, `ramdisk.cpp`) | mount table, `files_` | mount, resolve, create, remove | `Vfs`, `RamDisk`, `MCVfs`, `StoreProofs` |
| FAT12/16 (`fs/fat12.cpp`) | FAT, directories, clusters, `cur_dir_cluster_` | write, remove, mkdir, rmdir, rename, cd, open | `Fat`, `FatProofs` |
| User-space FAT (`user/ufs.cpp`) | a copy of the above per program | create, rm, mkdir, rmdir, mv, cd, sector by sector | `Ufs`, `UfsProofs` |
| Block cache, disk (`drivers/bcache.cpp`, `ata.cpp`) | cache slots, hand, platter | `bc_read`, `bc_write`, `bc_invalidate`, raw sector calls | `BlockCache`, `SectorStore`, `StoreProofs` |
| Keyboard, mouse, events (`drivers/keyboard.cpp`, `mouse.cpp`, `input.cpp`) | scan code ring, `ctrl_`, packet being assembled, event ring | drain, `read_scan`, `ctrl_c`, `feed_byte`, push, pop | `Keyboard`, `KeyQueue`, `KeyboardProofs` |
| Desktop (`user/desktop.cpp`) | windows, their order, menus, selections, drags | the event loop | `Desktop`, `DesktopProofs` |
| ext2, user memory checks, user shell, graphics, fonts, serial, boot loader, tools | | | not modelled (section 8) |

### How they interact

There is one processor. Interrupt gates clear IF, so a system call or an
interrupt handler runs to its end without another one inside it, with two
exceptions that make the system hard: the idle loop of `schedule()` (`sti; hlt;
cli`), which runs inside the kernel context of a blocked task, and the kernel
shell, which polls the keyboard with IF set. `schedule()` switches tasks by
overwriting the saved register frame in place, so C code after a call of
`schedule()` runs on behalf of another task, and a system call that blocks never
"returns" in C: whoever wakes the task has to leave the result in its frame.
The timer interrupt, every system call that blocks, exit, and the signal check
on each return path all change `ready_queue`; the timer interrupt also drains
the PS/2 controller that `getchar` polls. The disk is reached through the cache
(file systems), around it with an invalidation (`SYS_DISK_WRITE`, used by the
user-space FAT driver) and around it without one (the shell's `DISK WRITE`).

Two globals choose how programs run: `g_ring0_mode` (true as shipped: programs run
in ring 0 and fork is refused, so one program runs at a time) and
`g_ring3_irq_on` (false as shipped). Nothing assigns them, so a build has one
value of each, and they are constants of `Task`. The runs have the ring-3 build,
for which fork, preemption and signals are written; the theorems about `Task`
hold for both.

### What is hard, and what makes each part correct

`PROJECT.json` lists the hazards with their lines. In short:

* scheduler: every wake-up (timer, child's exit) must queue a task once and only
  if it is not queued; nobody may be lost, starved or freed while a list still
  holds it; a wait must have a waker; the kernel must not stop;
* memory: every call allocates page by page and can fail at any of them; a page
  must have one owner or be free, and a failed call must give back what it took;
* descriptors: fork, dup and exit share buffers by reference count; a failed
  allocation or copy half way must not leave a slot on freed memory;
* file systems: no cluster in two files, none lost, every file reads back,
  although a preempted user-space driver holds stale copies of sectors;
* cache: one slot per sector, contents equal to the disk, whoever writes and
  whatever fails;
* input: two readers of one controller and one ring; bytes must be neither lost
  nor reordered, mouse packets must stay in step;
* desktop: windows named by number and files by row, while windows close and
  rows move; button events come in any order and may be lost.

## 2. The modules

No interrupt comes between two steps of a system call, so most modules take one
step per call. Calls are split where something else can come between, or where
they can fail half way: `Ufs`, `Keyboard` and `Task` for the first reason,
`AddressSpace` and `BlockCache` for the second.

### Task

`cpu` is what the processor executes: `boot` (kernel_main or the kernel shell),
`user` (the current task), `idle` (the loop in `schedule()`), or a kernel phase.
A handler is one action up to the point where the code branches on `schedule()`
or on a pending signal; the phase it leaves in `cpu` enables exactly one kind of
continuation, so a phase is never interrupted:

    Fork, Exec, Kill, ... -> sysret     -> SysReturn   -> user | exit
    Waitpid, Sleep        -> sched_sys  -> Dispatch | SchedEmpty
    TickUser              -> pit        -> PitReturn   -> user | exit | sched
    TickBoot              -> sched
    Exit, fatal signal    -> exit       -> ExitToParent -> sched | ExitToBoot -> boot
    SchedEmpty            -> idle | halt,   idle -> TickIdle*, Dispatch

`ready_queue` is a sequence (order decides who runs); `all_tasks`, `children` and
`zombie_reap` are sets, because their order is pid order or never observed. A
pid is never reused by the code, so `state[p]` also tells `none` (not yet
created) from `freed`. `call` is the system call a blocked task is inside of: a
history variable, read by properties only. `halt` is the `hlt` loop of
`schedule()` with a dead current task, `panic` is `kernel_panic`, and `corrupt` is
control lost: a ring-0 frame restored over another task's stack, the page
directory under the running stack replaced, or a freed `task_struct` used after
its memory was given to somebody else.

`Workload` selects what programs do, so that a run can ask what holds for
programs that behave in a certain way; "abandon" is exiting with children left.

Abstractions: the contents of frames, address spaces and descriptors are left
out; all tasks have priority 128 (nothing sets another); a user handler is
entered or not, without its frame on the user stack; launching and forking
succeed (running out of memory is AddressSpace's subject). The defensive
walk over DEAD entries at the head of the queue (task.cpp 367-381) is left out:
`ReadyQueueExact` proves no DEAD task is queued. The read of the freed
`current_task` after the reaping loop only feeds a log line.

### AddressSpace

`used` and `freeCount` are mm's bitmap and counter. `space[t]` is the
PagingManager of a task (directory, page tables, entries, `owned_phys_`), and
`space[New]` the one a call is building. Launch, fork, exec and sbrk are series of
steps, one per page, driven by `job`; any of them finds memory full. Addresses are page numbers;
`PtSize` of them share a page table, so a mapping costs one page or two. The rest
is history: `view` is what a program was told it has, `lost` the pages no
directory tracks (`track_owned` stops at `MaxOwned`), `silent` that `map_page`
returned without mapping, `wrapped` the tasks whose sbrk wrapped around to no
page, `how` and `boot` where a task came from. `Rounded` is sbrk's conversion of
bytes to pages in a u32: the requests are whole numbers of pages, and the one of
`WordPages`, which stands for the last 4095 sizes, becomes 0 pages. A larger heap
than `HeapTop` would reach the kernel's half, whose tables `~PagingManager` does
not free; the model ends below. Left out: the
4 MB mappings common to all directories, access bits, and CR3.

### FdTable

A slot is type, buffer, size and position; a pipe is `pipe_t` with its ring. One
step is one call. `kmalloc` hands out any free object or fails. `stale` are slots
whose buffer was freed and not cleared, `wild` says the kernel wrote outside the
object it meant: either ends the behaviour, because what follows depends on
memory the model has not. `queue`, `shared`, `over` and `raw` of a pipe are history.

### Heap, RamDisk, Vfs

`Vfs` extends `RamDisk` extends `Heap`: paths resolve to a file system, the RAM
disk keeps files in heap blocks, and other kernel code (`held`) allocates and frees
between them. The heap is the list of headers, in units of a header, with
splitting and merging as in the code. `written` is history: what was last stored
under a name. `MCVfs` has the paths.

### Fat and Ufs

`Fat` has the volume (`fat`, `blk`) and the kernel's driver, one action per call. A
name is stored cut (`Cut`, any idempotent map on names) and looked for in full, so
that a long name written twice has two entries. `DotCall` are the calls with "."
or ".." as the name in a subdirectory: nothing filters the two, their entries match, and
remove, rmdir and write free the clusters of the current directory or its parent.
The FAT has an entry for each cluster of the data area and no more (the kernel scans
the whole FAT for a free one, the user-space driver the data area). A
cluster and a directory are one sector, and the FAT is one sector (fewer than 341
clusters; section 6 has what happens beyond). A file's contents are one value per
file, so that a cluster of another file is seen. `damage` names the first step
that damaged the volume, and the model stops there.

`Ufs` extends `Fat` with programs that carry their own driver. It cuts a name
before it looks for it (`UCut`, another map than the kernel's), so "." and ".." match
no entry there. One step is one
`SYS_DISK_READ` or `SYS_DISK_WRITE`; between two of them another driver, or the
kernel's, may run, and the program may be killed. Overlapping operations are
followed until one of them writes what it worked out from a sector that has
changed since it read it (`OutOfDate`: a FAT or directory sector written back, a
cluster or slot chosen that has been taken, a file removed that is another one by
now): that is a race, and the model stops. So the properties say that these windows
are all the races there are, and which killed operation explains what is left.
Leaving any of the windows out of `OutOfDate` makes TLC find a damaged volume
(some of them only with four operations).

### BlockCache, refining SectorStore

`disk`, the slots' `lba` and `data`, and bc_evict's `hand`. A `bc_read` or `bc_write`
is a loop over sectors: `Call` starts a `job`, and each step is one sector. The
kernel is not preempted inside a call, so nothing else runs until the job ends.
The `dirty` flag is never set by any code, hence eviction always takes the slot
after the hand (round robin; the header calls it LRU) and the write-back
branches and `bc_flush` are dead: they are left out. ata_read fails before it
transfers a word, so a slot is never half filled. Any transfer may fail.
`bc_write` does not look at the result and the shell's DISK WRITE does not tell
the cache: `suspect` is the history of the cached sectors this happened to.

`SectorStore` is the promise: a plain array of sectors where a read returns the
last value written, sector by sector, and a sector whose write was lost may
answer either way until it settles. `Transparent` says BlockCache implements it.

### Keyboard, refining KeyQueue

`fifo` and `phase` are the controller and the mouse (external: modelled from how
the drivers use them). The reader (`readline > getchar > read_scan > drain`) takes
one step per access to shared state: status port, data port, `feed_byte`, load
of `kb_head_` with its test, the store, the test of the ring, the take. The
granularity is that of the `-O1` build, which keeps `kb_head_` and `kb_tail_` in a
register between load and store. The timer interrupt (`Tick`, then `PitByte`*,
`PitDrained`, `PitCtrlC`) runs to its end once begun, and `Masked` says when it
cannot begin: inside `int 0x80`. Reading port 0x60 of an empty controller returns
any byte. A key byte mistaken for a mouse byte, or the other way round, has any
value. IRQ1 stays masked (pic.cpp:10 writes the mask 0xFB and only IRQ0 is
unmasked, though keyboard.cpp:104 says otherwise), so `irq_handler` never runs and
is not modelled. Mouse packets have three bytes (no wheel).

`KeyQueue` is the promise: codes come out in the order typed, each once, and only
the newest is dropped when more than the ring's capacity are waiting. The
refinement maps the abstract queue to ring, byte in the reader's hand, and
controller, in that order.

### Desktop

One action is one event and everything the loop does with it. Where the pointer
is, is abstracted to what it hits: any visible window may be the first one under
it, at any of its parts. A listing is a set of slots in use. The kill button makes
SIGKILL pending and keeps its selection; the task leaves the listing later (`Dies`),
or never. `moved`, `item`, `killed`, `owner`, `chord` and `astray` are history: what
changed a listing under a selection (a task killed here that ended, a directory
entered by a click or in a terminal, or something else), what was selected, what
the kill button hit, whose menu is open, whether a press was handled before the last
release, and what was done to something the user had not chosen.

## 3. The runs

| Run | Module | Result | Question |
|---|---|---|---|
| lifecycle | Task | holds | Three tasks fork, sleep, wait, exit with children left, kill, fault, ignore signals, drop the capability and are hit by Ctrl+C with its boost. The ready queue is exact, no task is lost, the idle loop can end, the lists reach no freed task, and a halt has only the cause described below. |
| shell | Task | holds | The pattern of the user shell (fork, exec, waitpid, sleep, exit; children reaped first) with fair ticks across a wrap of the tick counter: nobody starves, sleepers wake, the kernel neither halts nor corrupts a stack. |
| waitpid_stale | Task | violated | see section 6 |
| desktop_kill | Desktop | violated | see section 6 |
| memory | AddressSpace | holds | Launch, fork, exec, sbrk, exit and faults, each out of pages half way. Pages have one owner and are private, `free_count` is exact but for the bitmap, a program has what it was told it has unless `map_page` failed silently or its own sbrk wrapped, a failed call gives back its pages. |
| fds | FdTable | holds | A parent and a child share files and pipes: counts and ownership exact, wild writes only for the two reasons named, pipes first in first out, a broken pipe only when an end is gone or was duplicated. |
| storage | MCVfs | holds | Paths over the RAM disk over the heap: the heap stays tiled, every block has one owner, files read back, a path reaches the file system of its component. |
| fat_kernel | MCFat | holds | The kernel's driver alone, with long names and calls on "." and "..": files read back, names are unique unless one was cut or renamed onto another, the current directory dies only by a call on "." or "..", clusters are lost only for the reasons named. |
| ufs_drivers | MCUfs | holds | Two preemptible drivers and the kernel's on one volume, overlapping and killed anywhere: no shared cluster, none lost but what killed programs had in their hands, every file that can be seen whole but those under removal, no wrong parent, up to the first write that is out of date. |
| cache | BlockCache | holds | File systems, user-space drivers and the shell over the cache, any transfer failing: one slot per sector, coherent and transparent but for suspect sectors. |
| input | Keyboard | holds | SYS_READ and the timer share controller and ring: keys in order, packets in step. |
| desktop | Desktop | holds | Presses, releases, chords, lost button events, Enter, and other programs' changes: tables agree, drags end, a button or menu reaches what the user chose, but for the two misses described in section 6 and changes by others. |

Each property of a passing run has a mutant in `PROJECT.json`: a definition
`Op_bug`, kept beside the definition `Op` it alters, with which TLC finds the
property violated. The type invariants are not in the runs: they are proved, on
their own or as a part of the inductive invariants (section 4).

### Bounds and why they are enough

* Task: `MaxPid` = 3: a parent and two children, or a grandparent, are the
  largest families any single handler relates (self, parent, next task). Orphans
  need 3. `Quantum` = 1 or 2 (4 in the build): expiry at once, and a tick that
  does not expire. `DecayPeriod` = 1 (10), boosts with a cap that is hit. A
  signal that is ignored; a handler of the program's own takes the same steps,
  but that it puts off the signals pending after it. `TickMod` = 8 or 16 in the
  place of 2^32: the only arithmetic is addition and the sign of a difference;
  `SleepTicks` stays below half of it, as ms / 10 does below 2^31. `TickStop`
  bounds a run to a few ticks; `shell` has no stop and wraps.
* memory: 3 tasks on 13 pages, one of the bitmap and one reserved; page tables of
  2 entries, an image over two of them, a heap of 3 pages, `MAX_OWNED` = 3 (hit by
  sbrk); a u32 addresses 10 pages, and one sbrk asks for 1, 2 or all 10. Two
  programs fit, the third call fails at each of its pages in turn.
* fds: 2 tasks, 3 descriptors, 2 heap objects, a pipe of 2 bytes, files above and
  below the clamp, words of 2 bits, 7 calls: a pipe (2 slots), its duplication by
  fork or dup2, both ends closed by both, and two transfers in between.
* storage: a heap of 9 units holds two buffers and a third party's block with
  one too few; 2 slots; names of one character, one longer; 4 mounts.
* fat_kernel, ufs_drivers: 3 clusters, 2 slots per directory, 2 short names and a
  long one (cut to the first of them by the kernel, to the second by the drivers),
  files of 1 and 2 clusters: full volumes and directories, directories in directories,
  overwriting longer and shorter. Ufs: 2 drivers, 3 operations in all (one to
  build, two to overlap).
* cache: 3 sectors over 2 slots (hits, misses, eviction of either slot), calls of
  1 and 2 sectors, 2 values.
* input: a ring of 3 (empty, one, full), a controller of 2 bytes, an event ring
  of 1 (it overflows). A byte in the reader's hand, one before and one behind it
  are what reordering needs.
* desktop: 2 windows (active and covered), listings of 2 rows, the menu's real
  length, 6 events: open two windows, press in each, release, act.

Between 38 thousand (fat_kernel) and 6.4 million states (lifecycle). Symmetry is
used where tasks, names, values or objects are only compared. `input` has a VIEW:
it merges states that differ in which events wait in the /dev/input ring (but not
in whether any does) or in whether the last timer interrupt sent SIGINT. No guard
and no property of the run looks at either.

Deadlock is checked in `shell`, `cache` and `input`. It is off where `halt`,
`panic`, `damage`, `wild` or a bound on ticks, calls, operations or events ends a
behaviour.

### Fairness

`FairSpec` of Task assumes weak fairness of `Kernel` (kernel code runs on: it is
straight-line code between its phases) and strong fairness of `Tick` (the PIT
fires at 100 Hz and the PIC latches an IRQ that arrives while IF is clear, so a
context in which IF is set again and again is interrupted). Programs owe
nothing: a task may compute for ever. Only the three liveness properties use it.

## 4. What is proved

| Module | Theorem | Statement |
|---|---|---|
| TaskProofs | `TypeCorrect` | `Spec => []TypeOK` for Task |
| | `ReadyQueueExact` | `Spec => []QueueExact` |
| | `ListsNeverStale` | `Spec => []ListsExact` |
| | `HaltOnlyOrphans` | `Spec => []HaltCause` |
| | `NobodyLost` | `Spec => []NoLostTask`, if `NoWrap` |
| | `IdleLoopEnds` | `Spec => []IdleCanEnd`, if `NoWrap` |
| | `KernelKeepsRunning` | `Spec => []KernelRuns`, if `Polite` |
| StoreProofs | `CacheTypes` | `Spec => []TypeOK` for BlockCache |
| | `CacheOneSlot` | `Spec => []OneSlotPerSector` |
| | `CacheCoherent` | `Spec => []Coherent` |
| | `CacheTransparent` | `Spec => Transparent`, the refinement of SectorStore |
| | `HeapAlwaysTiled` | `VfsSpec => []HeapTiled` |
| | `BlocksAlwaysOwned` | `VfsSpec => []BlocksOwned` |
| | `RamDiskReadsBack` | `VfsSpec => []ReadsBack` |
| | `ResolutionIsDeepest` | `VfsSpec => []ResolvesByComponent` |
| AddressSpaceProofs | `PagesPartitioned` | `Spec => []PagePartition` |
| | `FreeCountAlwaysExact` | `Spec => []FreeCountExact` |
| | `ProgramsIsolated` | `Spec => []PrivatePages` |
| | `FailureRestores` | `Spec => FailRestores`, an action property |
| | `ToldAlwaysMapped` | `Spec => []ToldIsMapped` |
| | `NobodyOnPageZero` | `Spec => []NeverOnPageZero` |
| FdTableProofs | `RefsAlwaysExact` | `Spec => []RefsExact` |
| | `HeapAlwaysExact` | `Spec => []HeapExact` |
| | `WildHasCause` | `Spec => [](SeekInv /\ WildCause)` |
| | `PipesAreFifo` | `Spec => []PipeFifo` |
| | `EndsAlwaysTold` | `Spec => []PipeEnds` |
| KeyboardProofs | `MouseStaysInStep` | `Spec => []PacketsAligned`, if `~KernelShell` |
| | `KeysComeInOrder` | `Spec => KeysInOrder`, the refinement of KeyQueue, if `~KernelShell` |
| FatProofs | `LeaksHaveCause` | `Spec => []LeakCause` |
| | `FilesAlwaysReadBack` | `Spec => []FilesReadBack` |
| | `NamesStayUnique` | `Spec => []NamesUnique` |
| | `TreeAlwaysLinked` | `Spec => []TreeLinked` |
| UfsProofs | `ClustersNeverShared` | `USpec => []UNoSharedCluster` |
| | `DriversLoseNothing` | `USpec => []ULeakCause` |
| | `ReadersSeeWholeFiles` | `USpec => []UFilesReadBack` |
| | `DirectoriesStayKnown` | `USpec => []ParentExact` |
| DesktopProofs | `TablesAlwaysExact` | `Spec => []TablesExact` |
| | `NeverAstray` | `Spec => []NothingAstray` |
| | `GrabsAlwaysReleased` | `Spec => []GrabsReleased` |

They hold for any number of tasks, drivers, sectors, slots, pages, descriptors,
clusters, windows and ticks, any size of heap, ring, pipe, directory and file, any
workload and both modes, whatever fails, from the `ASSUME`s in the modules (ranges of the constants; TLC evaluates
them in every run) and from three hypotheses where the table says so:

* `NoWrap`: the machine is up for less than one period of the tick counter
  (497 days), no deadline lies beyond it, and nobody sleeps for 0 ticks. Without
  it NobodyLost is false: a deadline may wrap to 0, which means none (section 6).
* `Polite`: ring-3 mode, and programs that reap their children, without kill,
  Ctrl+C and faults. Each excluded item reaches `halt`, `panic` or `corrupt`
  (section 6). The run `shell` has this workload.
* `~KernelShell`: the reader is SYS_READ, with interrupts masked. In the kernel
  shell both properties fail (section 6).

**ReadyQueueExact.** QueueExact is not inductive. Whether a task that a handler
queues is already queued depends on its state, and the handlers do not test it:
`Launch` and `Fork` rely on the new pid being fresh, `PitReturn` and `TickBoot` on
the interrupted task being RUNNING, `ExitToParent` on the parent it wakes being
another task than the one that exits, `Dispatch` on a reaped task being DEAD and
so off the queue. `QueueInv` adds what each relies on: `Fresh` (pids from
`next_pid` on are unused), `OnCpu` (in which phases the current task is RUNNING),
`MainWaits` (main_task is RUNNING or READY, never BLOCKED) and `ZombiesDead`. There
is one lemma per action and three on sequences (append, concatenation and
removal keep elements distinct). TLC checked QueueInv on the
constants of lifecycle before it was proved.

**CacheTransparent.** The invariant `CacheInv` is types, one slot per sector and
coherence but for suspect sectors; with it a hit answers what the disk holds, a
miss and a write are one abstract step, a failed write is `BadWrite`, eviction and
invalidation settle a sector, and everything else stutters.

**PagesPartitioned and its companions.** None of the four is inductive. What a
step frees is what the space records, so freeing is safe only if recorded pages
are nobody else's and distinct from each other (`Part`, `Fine`); and a page may be
handed out again only if no entry still maps it, so entries must lie within owned or
lost pages (`MappedOwned`), each once (`MappedOnce`). The identity-mapped program of
the boot loop maps pages mm does not own: `IdentAt` says there is one such space.
`JobType` and `JobPages` carry what a call under way has taken since it began, which is
what FailRestores needs at its end: pages in use are those at the start, those of the
space under construction, and lost ones. Together with types and FreeCountExact they are
`MemInv`. Five lemmas say how the partition changes when one space grows, is freed, or
takes over from another; then there is one lemma per action.

`ToldIsMapped` and `NeverOnPageZero` follow from `TellInv`, on top of MemInv: what a call
under way still has to map is all that is missing from what it will have promised
(`ToldPlan`), and a fork or exec without a directory finds no free page for its
first mapping either, so it fails (`DirPlan`).

**ListsNeverStale, HaltOnlyOrphans.** `TreeInv` adds to QueueInv, for each list, which
states its members are in (`Listed`, `Zombies`, `Kids`), that parents are older than
their children (`Tree`), and in what state the task is that schedule() runs for
(`OffCpu`, `RunsAlone`). The step that matters is ExitToParent: `Bereft` says that
right after it the parent is queued, or had gone before, so an empty queue has the
one cause `HaltCause` names.

**NobodyLost, IdleLoopEnds.** `WakeInv`: a blocked task has a deadline or a living
child. If the child is itself blocked this only moves the question; but parents are
older than their children, so with nobody ready the youngest blocked task has no
living child and must have a deadline. **KernelKeepsRunning** needs `PoliteInv`: no task dies while it has
children, so no parent goes before its child.

**RefsAlwaysExact, HeapAlwaysExact.** `TableInv` is stated about a table, a count per
object and a heap rather than about the variables, so that a call which gives up
slots and fills others (dup2, exit, fork) is two applications of two lemmas,
`DropExact` and `AddExact`, each for any set of slots; counting is by the
cardinality lemmas of FiniteSetTheorems. `Departed` says a dead task has no slot.
**WildHasCause** carries `SeekInv`: a position never passes its size. **PipesAreFifo** carries
`RingInv`: byte k of the history queue is at place (rpos + k) mod PIPE_BUF, with
count bytes between the positions; the modular arithmetic is in lemmas of its own.
**EndsAlwaysTold** carries `EndsInv`, which adds that each end of a pipe that was
never shared is in one slot, so that closing it is what takes the end away.

**HeapAlwaysTiled.** HeapTiled alone is not inductive in the middle of kfree, which
merges with both neighbours: `Tiles` and `Merged(h, X, Y)` (no two free neighbours but
for pairs at X or Y) are about any function of headers; `SwallowTiles` is applied
once per neighbour. **BlocksAlwaysOwned** combines it with the owners
of used blocks. **RamDiskReadsBack** carries `NamesInv`: a name that was not cut is in one
slot at most, with the contents stored last. **ResolutionIsDeepest** carries `MountInv`
(the root is mounted first); that vfs_resolve's search for the longest prefix is
the deepest component match is a lemma about sequences of characters.

**MouseStaysInStep.** The invariant `InputInv` says the reader works alone (`Alone`: the timer
interrupt runs only when the reader is off), what it read is still true (`Front`:
the status is that of the byte now in front; `Loaded`: its registers equal `kb_head_`
or `kb_tail_`), and what it holds (`Hand`). PacketsAligned is not inductive: feed_byte drops a first
byte without bit 3, so `Marked` says that the first byte of each packet under way has it. **KeysComeInOrder** shows every step to be one of six kinds
(`EveryStep`: nothing, a byte arrives, a mouse byte taken, a key stored, dropped or taken), and
each kind to be a step of KeyQueue or a stutter. The abstract queue is ring, hand
and the keys among the controller's bytes; the last are selected by rank
(`Nth`, with lemmas on rank in finite sets), as SelectSeq would need induction.

**LeaksHaveCause, FilesAlwaysReadBack, NamesStayUnique, TreeAlwaysLinked.** An
overwriting write is a removal and an allocation at one go, and a damaging call
leaves a volume that keeps some of what a sound one has. So four conditions are
stated about any table and blocks, and IInv says which of them hold after which
damage: `Sound` (each entry leads to a chain of its length that holds its contents,
or to a directory that knows its parent; no two entries share a cluster; nothing is
behind an end mark), `Named`, `Covered` (a cluster that is taken is somebody's) and `Tree`.
`EraseKeeps`, `AddKeeps`, `RenameKeeps`, `TakeKeeps` and `NoRoomKeeps` say what each part of a call
does to them. The end mark matters twice: rmdir looks no further, so an entry
behind it would be lost with its directory, and a new entry goes to the first slot
not in use, so that there is none. A chain is a sequence the table links, and
what the loop over it visits is found without induction: the first turn in which
two loops differ has none before it (`TurnsAre`). `LinkedChain`, that allocation makes one
chain of the clusters it finds free, goes by their rank among the free ones.

**ClustersNeverShared, DriversLoseNothing, ReadersSeeWholeFiles, DirectoriesStayKnown.**
While operations overlap, the disk itself satisfies none of the four conditions
above: chains are half built or half freed, a directory is written before it has an
entry, and an entry being removed leads to clusters that are free. So UIInv says
that beside table f and blocks b there is a volume g, w that would be left if every
creation under way were undone and every removal done: it is `Settled` (Sound,
Covered, Tree), and `Relates` says where disk and settled volume may differ: in
clusters free in g, and in entries of `DyingOf`. Each driver d has clusters C[d]
in its hands, taken in f and free in g; they are nobody else's (`Apart`), and
between them they are all there is, unless a kill left some behind (`Paid`, which
is ULeakCause). `Stage` says for each place in the driver's program what C[d]
looks like (the chain strung so far, a chain with one cluster not linked yet, the
rest of a chain being freed) and `AimedAt` that the slot it chose for
a new entry is not behind the end mark. The rest of `Inner` concerns who dwells where (`Dwelling`,
which is ParentExact) and that no two drivers remove the same entry (`Halves`).

A step either moves the disk towards the settled volume, or moves both: saving an
entry makes the new file part of g, and freeing the first cluster of a file takes
its entry out of w. There is one lemma per action and place, each
showing how g, w and C change. The driver's checks are on the sector it read, so the
steps need that the sector has not changed since, which is what OutOfDate tests: a
write that is out of date is a race, and the properties promise nothing after one. The kernel's calls between two steps are the operations
of Fat, on a disk that is not settled: what `EraseKeeps` and its companions show
of a sound volume is shown there of g, w, with the clusters in the drivers' hands
left alone. When a step damages the disk (a name twice, no room, a race) the model stops,
and UIInv keeps just the four properties (`Promises`), which each such step is shown to
establish. That a kill over a half removed file does is seen by leaving the killed
driver's operation under way (`KillRemoving`): its entry stays one of those left out, and
everything else is as it was. ufs_cd's parent is exact because an entry is read from a directory that
is live in w, so its block names that directory in "..". Besides the constants' ranges this assumes that the
kernel is not one of the programs (`DriverAssumption`), that a stored name is its own
cut (`CutAssumption`) and that the kernel does not cut what a driver stored
(`UCutAssumption`).

**TablesAlwaysExact, NeverAstray, GrabsAlwaysReleased.** One press can raise a window, open or
close one and change a listing, so `Good` is stated about any windows, order and
listings, and each part of a turn is shown to keep it. `Chosen` says that the row
selected shows the item it was selected for, unless the listing moved; `MenuInv`
that an editor's menu belongs to the active window. `GrabInv` says what one press can hold: at most one
thing of one window (`Held`), nothing if the button is up, unless presses
overlapped. It is what makes a release that lets go of one window enough.

Changes the proofs asked of the model: removal of the first place instead of a filter
(`Without` of Desktop), selection by rank in Keyboard, the loop over a chain without
SelectSeq (`Turns` and `Walk` of Fat), and the assumptions that a
program image is not empty, heap objects are finitely many and none is the null
pointer, slots are numbers, and paths are not empty.

Out of the provers' reach and left to TLC: the three liveness properties of Task
(fairness, ENABLED). Every other property the passing runs check is proved.

## 5. What the passing checks tell a maintainer

* The invariant that the comment in `task_create_user` asks for (RUNNING tasks
  are never linked on `ready_queue`) holds everywhere, although most call sites
  of `list_add_tail` do not test it.
* `schedule()`'s hlt-for-ever branch has exactly one cause: the exiting task's
  parent had exited before it (`HaltCause`). Programs that reap their children
  never reach it (`KernelRuns`).
* `waitpid`'s test for children is what keeps the idle loop from being final;
  without it everybody can wait for everybody (the mutant of `IdleCanEnd`).
* Deadlines compare correctly across the wrap of the tick counter, but for the
  value 0 (section 6).
* fork and exec undo themselves completely when memory runs out, at whichever
  page (`FailRestores`); only `map_page`'s silent return makes a program believe
  in memory it has not (`ToldIsMapped`).
* Pipe counts stay exact over fork, dup2, close and exit as long as no slot is
  left stale by a failed dup2 or copy (`RefsExact`).
* With one driver at a time the FAT volume is damaged only by the operations
  section 6 lists; with two user-space drivers nothing protects it, and the
  windows are those `OutOfDate` lists. A file that is being removed can still be seen
  while its clusters are free or somebody else's already (ufs.cpp:863-865), and stays so if the
  program is killed there; it is the only one (`UFilesReadBack`).
* Writing around the cache is safe exactly because of `bc_invalidate`.
* `drain` in the timer interrupt is safe against SYS_READ only because int 0x80
  clears IF; letting interrupts in during SYS_READ would break both KeysInOrder
  and PacketsAligned (their mutants).

## 6. Where code and comments disagree

Runs show these:

* **desktop_kill**: the kill button of the task manager keeps its selection
  (user/desktop.cpp:1384-1391). When the task it killed has ended, the next row has
  moved up, and a second press kills a task nobody selected. Delete does reset its
  selection (line 1217).
  A second click on a selected directory enters it and keeps the selection as well
  (1243), so Delete then removes what is on that row inside it: `DeletesSelected` is
  violated under the same configuration.
* **waitpid_stale**: a child's exit wakes any BLOCKED parent (kernel/task.cpp:530),
  also one in `sys_sleep`, and leaves its `wake_tick` set. When the parent later
  calls waitpid, the timer finds the old deadline expired and ends the wait with
  no child gone. (The sleep was cut short as well.)

Processes:

* A task that outlives its parent wakes nobody when it exits; with the queue
  empty `schedule()` halts the machine, where its comment says this does not
  happen (`HaltCause` names it).
* Signals are checked for the task that was interrupted, before `schedule()`. A
  task resumed from the timer path returns to its code unchecked; if it sleeps
  again before a tick of its own, the check at that call looks at the next task.
  It can outlive SIGKILL for ever.
* The boost of a Ctrl+C decays only for tasks left on the queue after the pick
  (task.cpp:446), so a boosted task that ignores SIGINT and computes keeps the
  processor for ever, which task.h:22-24 excludes: under FairSpec with
  Workload {"fork", "sigaction", "ctrlc"}, ReadyRuns is violated.
* A user page fault sends SIGSEGV and then falls into the panic of isr.cpp:147
  (comment at line 109: "let signal handler deal"). Action `PageFault`.
* `sys_sleep` may store a deadline of 0 when ticks wraps (after 497 days), which
  the timer takes for none: the task sleeps for ever (task.h:66 says > 0).
* In ring0 mode a successful exec replaces the page directory its own stack is
  mapped in (`Exec` leads to `corrupt`). `load_binary` goes on after
  `task_create_user` failed (loader.cpp:74). A second signal before sigreturn
  overwrites the one saved frame (task.cpp:650). schedule() reads the pid of the
  `current_task` its reaping loop may have freed (task.cpp:430).

Memory:

* `map_page` returns without a word when it gets no page table (paging.cpp:82).
* A PagingManager that gets no page sits on physical page 0 (paging.cpp:10), and
  launching does not test for it; fork and exec do (`NeverOnPageZero`).
* `sbrk` that fails half way keeps the pages it mapped, and `user_break` is one for
  all tasks (syscall.cpp:263). Pages beyond MAX_OWNED are never freed.
* `free_count` is too high by the pages of the bitmap (mm.cpp:72).
* `sbrk` of more than 0xFFFFF000 bytes wraps to 0 pages and returns the old break, as if
  it had been granted (syscall.cpp:267; `ToldIsMapped` exempts such a program).
* `kmalloc` near 2^32 wraps (heap.cpp:30); out of the model, which counts headers.

Descriptors:

* A file longer than 64 KB gets a 64 KB buffer and its full size
  (syscall.cpp:188): reads and writes go past the end.
* `output_fd` is kept when its descriptor is closed (955). A dup2 that runs out of memory
  after closing the target leaves it on freed memory (842). dup2 over a pipe's end
  does not mark it broken, close of any duplicate does. A read whose copy to the
  caller fails has taken the bytes from the pipe. A write of 4096 bytes to the
  framebuffer device stores a 0 one byte past its buffer (98; not modelled).

File systems:

* Entry 341 of a FAT12 straddles two sectors and is read and written in one
  (fat12.cpp:25, 47; ufs.cpp:135); the model has fewer clusters.
* rename onto an existing name makes two entries of one name; mkdir in a full
  directory loses a cluster; overwriting a file without room for the new contents
  leaves its entry on freed clusters; remove takes a directory with its files still
  in it.
* Names beyond 8.3 are cut when stored and not when looked for (fat12.cpp:306, 601,
  707; 186), and no LFN entry is written although the comment at 306 says so: such a
  file is not found again, a second write of it adds an entry, and two
  directories can get one name (`write_cut`, `mkdir_cut` and `rename_onto` of `damage`).
* "." and ".." are names like any other to remove, rmdir, write and rename:
  `rmdir(".")` in an empty directory frees the directory the kernel is in and
  returns 0 (fat12.cpp:668-699; `own_dir`, `parent_dir` and `dot_name` of `damage`).
* find_free_cluster looks as far as the FAT goes, which may be beyond the data area
  (fat12.cpp:249; ufs.cpp:682 does not).
* The RAM disk cuts long names when it stores them and not when it looks them up:
  each write of one takes another slot, and reads under it find none
  (ramdisk.cpp:107). `/tmpx` resolves into `/tmp` (vfs.cpp:57).
* ext2 stops at a hole in a file (ext2.cpp:273).
* `bc_write` ignores the result of `ata_write` and keeps the entry; the shell's
  DISK WRITE does not call bc_invalidate. Both make a sector suspect.

Input and desktop:

* In the kernel shell (`KernelShell = TRUE`) the timer interrupts the polling reader
  between status and data: packets fall out of step and keys swap. mouse.cpp says
  there is one reader.
* `read_scan` takes Ctrl's release out of the ring without clearing `ctrl_`; a plain
  C then sends SIGINT.
* `kb_put` pushes the /dev/input event only when the scan code ring has room, and
  under the desktop nobody empties that ring: after 255 codes key events stop
  (keyboard.cpp:71-72 says the two do not interfere).
* pic_remap masks IRQ1 (pic.cpp:10), keyboard.cpp:104 says it was unmasked.
* Delete and kill go by row (desktop.cpp): after a change by another window, a menu or
  another program they hit whatever moved there (`NothingAstray` exempts this case; the
  two above, which need nobody else, it allows by name). A right click while
  an editor menu is open adds items to it. MA_OPEN takes the lowest
  explorer (1304). "Saved" is shown when the write failed too (1365). The ] key ends
  the program (1537). Resizing can make a width negative (1737). Saving a file longer
  than 2047 bytes truncates it (1163). A release lets go of one window only.

## 7. Plan

1. **Signals**: handler entry, nesting and sigreturn over the single saved frame.
2. **Boot loop**: the crash counter and the fallback to the kernel shell.
3. **ext2**: the block mapping of a read, checked against a reference definition.
4. An abstract process table (`fork`, `wait`, `exit` as atomic steps) that Task
   refines for programs that reap their children.

## 8. Not modelled

Graphics, fonts and the desktop's drawing (pixels); the serial log; the user
shell's dialogue (its calls are the workload of Task); ext2, which is read only
and keeps no state of its own; the checks on user pointers, which are pure (a
refused pointer is a stuttering step); the parsing of images; the real-mode boot
loader and PIC/IDT/GDT set-up (run once, before any of the state exists); the
host tools; the port protocol below one ATA sector transfer; reading long names
(neither driver writes any), names that a directory entry does not give back as they
were stored (two dots at the end, a blank inside), and the mirror FAT; RAM disk texts
beyond RAMDISK_MAX_SIZE, which are refused (ramdisk.cpp:101); the text in editors, terminals and the calculator;
and the dead code `task_create`, `task_exit`, `task_yield`, `bc_flush`, `irq_handler`.
