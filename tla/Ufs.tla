-------------------------------- MODULE Ufs --------------------------------
(***************************************************************************)
(* The FAT driver that user programs carry with them, user/ufs.cpp, on the *)
(* volume of module Fat.  Every program has its own copy of the driver,    *)
(* with its own current directory, and works on the disk with one system   *)
(* call per sector: one step here is one SYS_DISK_READ or SYS_DISK_WRITE   *)
(* and what the driver does up to the next one.  Between two steps the     *)
(* timer may run another program's driver or a file system call of the     *)
(* kernel, and Ctrl+C may end the program.                                 *)
(*                                                                         *)
(* The FAT is one sector, and so is a directory.  Overlapping operations   *)
(* are followed until one of them writes what it worked out from a sector  *)
(* that has changed since (OutOfDate): that is a race, and the model stops *)
(* (`damage`), as it does when a program was killed over a half removed    *)
(* file or somebody works in a directory that is gone.                     *)
(*                                                                         *)
(* The driver cuts every name it is given, those it looks for, too: a long *)
(* name is found again.  It cuts elsewhere than the kernel does ("LONGFILE *)
(* NAM" for longfilename.txt, and the kernel "LONGFILE"), and "." and ".." *)
(* become names that no directory has for itself.                          *)
(***************************************************************************)
EXTENDS Fat

CONSTANTS
    UCut,      \* the 8.3 name the driver makes of a name
    Driver,    \* the programs that carry a driver
    MaxOps     \* bound: operations started, the kernel's included

VARIABLES
    drv,       \* what each driver is doing: its locals between two calls
    ucwd,      \* cur_dir_cluster of each driver
    uparent,   \* parent_cluster of each driver
    gone,      \* who works in a directory that was removed (Kernel, too)
    killed,    \* the clusters programs had in their hands when they were killed
    ops        \* operations started so far

uvars == <<fat, blk, cwd, damage, drv, ucwd, uparent, gone, killed, ops>>
Kernel == "kernel"

(* The kernel is not one of the programs.                                  *)
ASSUME DriverAssumption == Kernel \notin Driver

(* What the driver stores is an 8.3 name for the kernel, too.              *)
ASSUME UCutAssumption == UCut \in [Name -> Name] /\ \A nm \in Name : Cut[UCut[nm]] = UCut[nm]

Idle == [pc |-> "idle"]

(* The locals of an operation: op and its name and size, slot, first_cl,   *)
(* prev_cl, cl; tgt, value and then are write_fat_entry's arguments and    *)
(* where it returns to; buf is a FAT sector, sec a directory sector.       *)
Start(op, nm, k, v, pc) ==
    [op |-> op, pc |-> pc, nm |-> nm, k |-> k, v |-> v, slot |-> 0, first |-> 0, prev |-> 0,
     cl |-> 2, n |-> 0, tgt |-> 0, value |-> 0, then |-> pc, buf |-> <<>>, sec |-> <<>>]

UInit ==
    /\ Init
    /\ drv = [d \in Driver |-> Idle]
    /\ ucwd = [d \in Driver |-> Root]
    /\ uparent = [d \in Driver |-> Root]
    /\ gone = {} /\ killed = {} /\ ops = 0

-----------------------------------------------------------------------------
(* Who is in the middle of an operation                                    *)
Busy(d) == drv[d].pc # "idle"

(* Who works in a directory that is no longer there on a disk with table f *)
(* and blocks b                                                            *)
Removed(c, f, b) == c # Root /\ (f[c] = Free \/ b[c].is # "dir")
Lost(f, b) == gone \cup { d \in Driver : Removed(ucwd[d], f, b) }
                   \cup { a \in {Kernel} : Removed(cwd, f, b) }

Goto(d, r) == drv' = [drv EXCEPT ![d] = r]
Calm == UNCHANGED <<cwd, ucwd, uparent, killed, ops>>

(* A read leaves the disk alone.                                           *)
Reads(d, r) == Goto(d, r) /\ Calm /\ UNCHANGED <<fat, blk, damage, gone>>

(* The entry rm or rmdir is removing, and whether its clusters are going   *)
Place(d) == <<ucwd[d], drv[d].slot>>
Removing(d) == Busy(d) /\ drv[d].op \in {"rm", "rmdir"} /\ drv[d].slot # 0
HalfRemoved(d) ==
    /\ Removing(d)
    /\ LET r == drv[d]
           cl == r.sec[r.slot].cl
       IN /\ cl \in Cluster
          /\ CASE r.pc = "erase" -> TRUE
               [] r.pc = "free" -> r.cl # cl
               [] r.pc \in {"fat_read", "fat_write"} -> r.tgt # cl
               [] OTHER -> FALSE

(* The entries whose clusters are being freed                              *)
Dying == { Place(d) : d \in { x \in Driver : HalfRemoved(x) } }

ProbeFree_eoc(c) == fat[c] \in {Free, Eoc}

(* alloc_cluster asks for the raw entry, so that an end mark is not taken  *)
(* for a free cluster.                                                     *)
ProbeFree(c) == fat[c] = Free

(* The driver is about to write something that no longer fits the disk:    *)
(* the FAT sector or the directory sector is not the one it read, the      *)
(* cluster or the slot it chose is taken, the file it removes is no longer *)
(* the one it found, or somebody else removes it as well.                  *)
OutOfDate(d) ==
    LET r == drv[d]
        ent == blk[ucwd[d]].ent
    IN
    \/ /\ r.pc = "fat_write"
       /\ \/ r.buf # fat
          \/ r.then = "taken" /\ ~ProbeFree(r.tgt)
          \/ r.then = "free" /\ fat[r.tgt] # r.cl
          \/ r.then = "erase" /\ fat[r.tgt] \in Cluster
          \/ Removing(d) /\ \/ d \in gone \/ ent[r.slot] # r.sec[r.slot]
                            \/ r.op = "rmdir" /\ HasEntries(r.cl)
                            \/ \E e \in Driver \ {d} : Removing(e) /\ Place(e) = Place(d)
    \/ /\ r.pc \in {"save", "erase", "rename"}
       /\ \/ d \in gone \/ r.sec # ent
          \/ r.pc = "save" /\ Live(ent[r.slot])

(* A write to the disk                                                     *)
Writes(d, r, f, b) ==
    /\ Goto(d, r) /\ Calm
    /\ fat' = f /\ blk' = b
    /\ gone' = Lost(f, b)
    /\ damage' = IF OutOfDate(d) THEN "race" ELSE damage

(* write_fat_entry(cl, value), to go on at pc                              *)
SetFat(r, cl, value, pc) == [r EXCEPT !.pc = "fat_read", !.tgt = cl, !.value = value, !.then = pc]

InChain(cl) == cl \in Cluster

FatRead(d) ==
    /\ drv[d].pc = "fat_read"
    /\ Reads(d, [drv[d] EXCEPT !.pc = "fat_write", !.buf = fat])

(* A cluster more of a file: count it, remember it as the last one         *)
Counted(r) == [r EXCEPT !.n = @ + 1, !.prev = r.cl, !.first = IF @ = 0 THEN r.cl ELSE @]

(* All clusters are there when the last is linked: write the contents.     *)
Onward(r) == IF r.n < r.k THEN [r EXCEPT !.cl = 2, !.pc = "probe"]
             ELSE [r EXCEPT !.cl = r.first, !.n = 0, !.pc = "data"]

Taken_unlinked(r) == Onward(Counted(r))

(* ufs_create has got cluster cl: link it behind the one before.           *)
Taken(r) == IF r.prev = 0 THEN Onward(Counted(r))
            ELSE SetFat(Onward(Counted(r)), r.prev, r.cl, Onward(Counted(r)).pc)

(* Where the driver is when write_fat_entry returns                        *)
Resume(r) ==
    LET back == [r EXCEPT !.pc = r.then, !.buf = <<>>, !.tgt = 0, !.value = 0]
    IN CASE r.then = "idle" -> Idle
         [] r.then = "taken" /\ r.op = "mkdir" -> [back EXCEPT !.pc = "block"]
         [] r.then = "taken" /\ r.op = "create" -> Taken(back)
         [] OTHER -> back

(* The sector goes back as it was read, but for one entry.                 *)
FatWrite(d) ==
    LET r == drv[d]
        f == [r.buf EXCEPT ![r.tgt] = r.value]
    IN
    /\ r.pc = "fat_write"
    /\ Writes(d, Resume(r), f, [x \in Dirs |-> IF x # Root /\ f[x] = Free THEN Unread ELSE blk[x]])

-----------------------------------------------------------------------------
(* Starting an operation; nothing is read yet.                             *)
Begin(d, r) ==
    /\ Intact /\ ~Busy(d) /\ d \notin gone /\ ops < MaxOps
    /\ ops' = ops + 1
    /\ Goto(d, r)
    /\ UNCHANGED <<fat, blk, cwd, damage, ucwd, uparent, gone, killed>>

Create(d, nm, k, v) == k > 0 /\ Begin(d, Start("create", UCut[nm], k, v, "slot"))
UMkdir(d, nm) == Begin(d, Start("mkdir", UCut[nm], 1, "none", "probe"))
Rm(d, nm) == Begin(d, Start("rm", UCut[nm], 0, "none", "find"))
URmdir(d, nm) == Begin(d, Start("rmdir", UCut[nm], 0, "none", "find"))
Mv(d, old, new) == Begin(d, Start("mv", UCut[old], 0, UCut[new], "find"))

FindSlot_kept(d) ==
    LET r == drv[d]
        free == FreeSlots(blk[ucwd[d]].ent)
    IN
    /\ r.pc = "slot"
    /\ Reads(d, IF free = {} THEN Idle
                ELSE [r EXCEPT !.pc = IF r.op = "create" THEN "probe" ELSE "entry", !.slot = Least(free)])

(* dir_find_free_slot                                                      *)
FindSlot(d) ==
    LET r == drv[d]
        free == FreeSlots(blk[ucwd[d]].ent)
    IN
    /\ r.pc = "slot"
    /\ Reads(d, CASE free # {} /\ r.op = "create" -> [r EXCEPT !.pc = "probe", !.slot = Least(free)]
                  [] free # {} /\ r.op = "mkdir" -> [r EXCEPT !.pc = "entry", !.slot = Least(free)]
                  [] free = {} /\ r.op = "create" -> Idle
                  [] free = {} /\ r.op = "mkdir" -> SetFat(r, r.cl, Free, "idle"))

(* alloc_cluster's loop: one read per cluster                              *)
Probe(d) ==
    LET r == drv[d] IN
    /\ r.pc = "probe"
    /\ Reads(d, IF ProbeFree(r.cl) THEN SetFat(r, r.cl, Eoc, "taken")
                ELSE IF r.cl < LastCluster THEN [r EXCEPT !.cl = @ + 1]
                ELSE IF r.first # 0 THEN [r EXCEPT !.pc = "free", !.cl = r.first, !.op = "undo"]
                ELSE Idle)

(* The contents, cluster by cluster; then read_fat.                        *)
WriteData(d) ==
    LET r == drv[d] IN
    /\ r.pc = "data"
    /\ Writes(d, [r EXCEPT !.pc = "next", !.n = @ + 1], fat, [blk EXCEPT ![r.cl] = DataBlock(r.v)])

NextData(d) ==
    LET r == drv[d] IN
    /\ r.pc = "next"
    /\ Reads(d, IF InChain(fat[r.cl]) /\ r.n < r.k THEN [r EXCEPT !.pc = "data", !.cl = fat[r.cl]]
                ELSE [r EXCEPT !.pc = "entry"])

(* mkdir's block with "." and ".."                                         *)
WriteBlock(d) ==
    LET r == drv[d] IN
    /\ r.pc = "block"
    /\ Writes(d, [r EXCEPT !.pc = "slot"], fat, [blk EXCEPT ![r.cl] = DirBlock(ucwd[d])])

(* read_curdir_sector, then write_curdir_sector with the new entry.  The   *)
(* name may be there already: nobody has looked.                           *)
ReadEntry(d) ==
    LET r == drv[d] IN
    /\ r.pc = "entry"
    /\ Reads(d, [r EXCEPT !.pc = "save", !.sec = blk[ucwd[d]].ent])

NewEntry(r) == IF r.op = "mkdir" THEN DirEntry(r.nm, r.cl) ELSE FileEntry(r.nm, r.first, r.k, r.v)

SaveEntry(d) ==
    LET r == drv[d] IN
    /\ r.pc = "save"
    /\ Goto(d, Idle) /\ Calm
    /\ fat' = fat /\ gone' = gone
    /\ blk' = [blk EXCEPT ![ucwd[d]].ent = [r.sec EXCEPT ![r.slot] = NewEntry(r)]]
    /\ damage' = IF OutOfDate(d) THEN "race"
                 ELSE IF Matches(r.sec, r.nm, AnyKind) # {} THEN "create_twice" ELSE damage

(* rm, rmdir and mv look for the name; the sector is kept for the end.     *)
Wanted(op) == CASE op = "rm" -> {"file"} [] op = "rmdir" -> {"dir"} [] op = "mv" -> AnyKind

Find(d) ==
    LET r == drv[d]
        ent == blk[ucwd[d]].ent
        hit == Matches(ent, r.nm, Wanted(r.op))
        i == Least(hit)
    IN
    /\ r.pc = "find"
    /\ Reads(d, IF hit = {} THEN Idle
                ELSE [r EXCEPT !.slot = i, !.sec = ent, !.cl = ent[i].cl,
                               !.pc = CASE r.op = "mv" -> "rename"
                                        [] r.op = "rmdir" -> "check"
                                        [] r.op = "rm" -> IF InChain(ent[i].cl) THEN "free" ELSE "erase"])

(* rmdir's look into the directory: all slots, whatever the end mark says  *)
Check(d) ==
    LET r == drv[d] IN
    /\ r.pc = "check"
    /\ Reads(d, IF HasEntries(r.cl) THEN Idle ELSE [r EXCEPT !.pc = "free"])

(* free_cluster_chain: read_fat, then write_fat_entry(cl, 0)               *)
FreeNext(d) ==
    LET r == drv[d]
        nx == fat[r.cl]
        end == IF r.op = "undo" THEN "idle" ELSE "erase"
    IN
    /\ r.pc = "free"
    /\ Reads(d, SetFat([r EXCEPT !.cl = IF InChain(nx) THEN nx ELSE @], r.cl, Free,
                       IF InChain(nx) THEN "free" ELSE end))

(* The entry is marked deleted in the sector read at the beginning.        *)
Erase(d) ==
    LET r == drv[d] IN
    /\ r.pc = "erase"
    /\ Writes(d, Idle, fat, [blk EXCEPT ![ucwd[d]].ent = [r.sec EXCEPT ![r.slot] = Deleted]])

SaveName(d) ==
    LET r == drv[d] IN
    /\ r.pc = "rename"
    /\ Goto(d, Idle) /\ Calm
    /\ fat' = fat /\ gone' = gone
    /\ blk' = [blk EXCEPT ![ucwd[d]].ent = [r.sec EXCEPT ![r.slot].name = r.v]]
    /\ damage' = IF OutOfDate(d) THEN "race"
                 ELSE IF r.v # r.nm /\ Matches(r.sec, r.v, AnyKind) # {} THEN "rename_onto" ELSE damage

-----------------------------------------------------------------------------
(* ufs_cd                                                                  *)
UCd(d, nm) ==
    /\ Intact /\ ~Busy(d) /\ d \notin gone
    /\ LET hit == Matches(blk[ucwd[d]].ent, UCut[nm], {"dir"}) IN
       /\ hit # {}
       /\ uparent' = [uparent EXCEPT ![d] = ucwd[d]]
       /\ LET new == blk[ucwd[d]].ent[Least(hit)].cl IN
          /\ ucwd' = [ucwd EXCEPT ![d] = new]
          /\ gone' = gone \cup { x \in {d} : Removed(new, fat, blk) }
       /\ damage' = IF <<ucwd[d], Least(hit)>> \in Dying THEN "race" ELSE damage
    /\ UNCHANGED <<fat, blk, cwd, drv, killed, ops>>

Grandparent_same(d) == uparent[d]

(* ".." goes to the parent that was remembered, and asks that directory    *)
(* for its own.                                                            *)
Grandparent(d) == IF uparent[d] = Root THEN Root ELSE blk[uparent[d]].up

UCdUp(d) ==
    /\ Intact /\ ~Busy(d) /\ d \notin gone /\ ucwd[d] # Root
    /\ ucwd' = [ucwd EXCEPT ![d] = uparent[d]]
    /\ uparent' = [uparent EXCEPT ![d] = Grandparent(d)]
    /\ UNCHANGED <<fat, blk, cwd, damage, drv, gone, killed, ops>>

UCdRoot(d) ==
    /\ Intact /\ ~Busy(d) /\ ucwd[d] # Root
    /\ ucwd' = [ucwd EXCEPT ![d] = Root]
    /\ uparent' = [uparent EXCEPT ![d] = Root]
    /\ gone' = gone \ {d}
    /\ UNCHANGED <<fat, blk, cwd, damage, drv, killed, ops>>

(* Somebody goes on in a directory that was removed under him.             *)
StaleUse ==
    /\ Intact /\ ops < MaxOps
    /\ gone \ { d \in Driver : Busy(d) } # {}
    /\ damage' = "stale_cwd"
    /\ UNCHANGED <<fat, blk, cwd, drv, ucwd, uparent, gone, killed, ops>>

(* A file system call of the kernel, on behalf of any program, between two *)
(* steps of the drivers                                                    *)
KernelCall ==
    /\ ops < MaxOps /\ Kernel \notin gone
    /\ \A p \in Dying : p[1] # cwd
    /\ Operation
    /\ ops' = IF volume' = volume THEN ops ELSE ops + 1
    /\ gone' = Lost(fat', blk')
    /\ UNCHANGED <<drv, ucwd, uparent, killed>>

(* A call of the kernel with the name "." or ".."                          *)
KernelDots ==
    /\ ops < MaxOps /\ Kernel \notin gone
    /\ \A p \in Dying : p[1] # cwd
    /\ DotCall
    /\ ops' = ops + 1
    /\ gone' = Lost(fat', blk')
    /\ UNCHANGED <<drv, ucwd, uparent, killed>>

(* The same in a directory with a half removed entry: what comes of it is  *)
(* not followed.                                                           *)
KernelRaces ==
    /\ Intact /\ ops < MaxOps
    /\ \E p \in Dying : p[1] = cwd
    /\ damage' = "race"
    /\ UNCHANGED <<fat, blk, cwd, drv, ucwd, uparent, gone, killed, ops>>

(* The clusters an operation half way has in its hands                     *)
Held(d) ==
    IF ~Busy(d) THEN {}
    ELSE Chain(fat, drv[d].first) \cup Chain(fat, drv[d].cl) \cup ({drv[d].tgt, drv[d].value} \cap Cluster)

(* Clusters that are taken and that no entry leads to, but for entries     *)
(* that are being removed                                                  *)
Unowned == { c \in Cluster : fat[c] # Free } \ UNION { Chain(fat, At(p).cl) : p \in Places \ Dying }

(* Ctrl+C: the program ends between two calls, and its driver with it.     *)
Kill(d) ==
    /\ Intact /\ Busy(d) /\ ~HalfRemoved(d)
    /\ drv' = [drv EXCEPT ![d] = Idle]
    /\ ucwd' = [ucwd EXCEPT ![d] = Root]
    /\ uparent' = [uparent EXCEPT ![d] = Root]
    /\ gone' = gone \ {d}
    /\ killed' = killed \cup (Held(d) \cap Unowned)
    /\ UNCHANGED <<fat, blk, cwd, damage, ops>>

(* The same over a file that is half removed.  Its entry leads to free     *)
(* clusters now; drv remembers which entry it is.                          *)
KillRemoving(d) ==
    /\ Intact /\ HalfRemoved(d)
    /\ damage' = "killed_removing"
    /\ UNCHANGED <<fat, blk, cwd, drv, ucwd, uparent, gone, killed, ops>>

DriverStep(d) ==
    Intact /\ (\/ FatRead(d) \/ FatWrite(d) \/ FindSlot(d) \/ Probe(d)
               \/ WriteData(d) \/ NextData(d) \/ WriteBlock(d) \/ ReadEntry(d) \/ SaveEntry(d)
               \/ Find(d) \/ Check(d) \/ FreeNext(d) \/ Erase(d) \/ SaveName(d))

UNext ==
    \/ \E d \in Driver :
          \/ DriverStep(d) \/ UCdUp(d) \/ UCdRoot(d) \/ Kill(d) \/ KillRemoving(d)
          \/ \E nm \in Name : UMkdir(d, nm) \/ Rm(d, nm) \/ URmdir(d, nm) \/ UCd(d, nm)
          \/ \E nm \in Name, k \in Sizes, v \in Val : Create(d, nm, k, v)
          \/ \E old, new \in Name : Mv(d, old, new)
    \/ StaleUse \/ KernelCall \/ KernelDots \/ KernelRaces

USpec == UInit /\ [][UNext]_uvars

-----------------------------------------------------------------------------
(* ufs_read_file: it stops at the end of the chain or of the file.         *)
ReadFile(e) ==
    LET w == Walk(fat, e.cl) IN
    [n \in 1..(IF Len(w) < e.size THEN Len(w) ELSE e.size) |-> blk[w[n]]]

(* Nothing is said after a race, after somebody went on in a directory     *)
(* that is gone, or after the kernel was called with "." or "..".          *)
Raced == damage \in {"race", "stale_cwd"} \cup DotCauses

(* Two files never share a cluster, however the operations of drivers and  *)
(* kernel overlap and wherever programs are killed, unless one wrote on    *)
(* the ground of a sector that was out of date.  The entry of a file that  *)
(* is being removed is left out, here and below: ufs_rm frees the clusters *)
(* first, and until the entry goes others may have got them.               *)
UNoSharedCluster ==
    Raced \/
    LET chain == [p \in Places \ Dying |-> Chain(fat, At(p).cl)]
    IN \A p, q \in DOMAIN chain : p # q => chain[p] \cap chain[q] = {}

(* A killed program costs at most the clusters it had in its hands; a      *)
(* rename, and operations that ended, with an error or not, cost none.     *)
ULeakCause ==
    Unowned \subseteq killed \cup UNION { Held(d) : d \in Driver }
    \/ Raced \/ damage \in TakesDir \cup {"mkdir_full"}

(* A file that can be seen is whole and reads back as it was written, at   *)
(* every moment of the operations of others and after kills: a file that   *)
(* is being made cannot be seen until it is whole.  What can be seen and   *)
(* is not whole is a file that is being removed, or whose remover was      *)
(* killed, and the one the kernel overwrote and found no room for.         *)
UFilesReadBack ==
    Raced \/
    \A p \in Places \ Dying : At(p).kind = "file" =>
       \/ Emptied(p)
       \/ ReadFile(At(p)) = [n \in 1..At(p).size |-> DataBlock(At(p).val)]

(* A driver's current directory is a live one and its remembered parent is *)
(* that directory's "..", unless the directory was removed under it.       *)
ParentExact ==
    Raced \/ damage \in TakesDir \/
    \A d \in Driver \ gone : ucwd[d] # Root => /\ ucwd[d] \in LiveDirs
                                               /\ uparent[d] = blk[ucwd[d]].up
=============================================================================
