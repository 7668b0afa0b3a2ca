-------------------------------- MODULE Fat --------------------------------
(***************************************************************************)
(* A FAT volume and the kernel's driver for it, fs/fat12.cpp.  One action  *)
(* is one call: a system call is not preempted, so the kernel's driver     *)
(* never sees its own half-done work.  The drivers of user programs, which *)
(* are preempted, are added by module Ufs.                                 *)
(*                                                                         *)
(* One cluster is one sector (sectors per cluster is 1 in the image), and  *)
(* the mirror copies of the FAT, which nobody reads, are left out.  A      *)
(* directory has Slots besides "." and "..", and `up` is "..".             *)
(*                                                                         *)
(* A name is stored cut to 8.3 and looked for in full.  Case apart, the    *)
(* stored name is Cut of the given one, and is its own cut (names that end *)
(* in two dots or have a blank inside, which are not, are left out).  No   *)
(* entry for the rest of a long name is ever written.  In a subdirectory   *)
(* "." and ".." name the directory's own two entries: see Dots.  As a new  *)
(* name, or in the root, "." is one more name that is cut, to a blank one. *)
(*                                                                         *)
(* `damage` is the name of the first step that damaged the volume.  The    *)
(* model stops there: what a driver makes of the bytes of a damaged volume *)
(* is not followed.                                                        *)
(***************************************************************************)
EXTENDS Integers, Sequences, FiniteSets, TLC

CONSTANTS
    LastCluster,   \* the clusters are 2..LastCluster
    SlotCount,     \* entries a directory has room for
    Name,          \* the names programs use
    Cut,           \* the 8.3 name that is stored for each of them
    Val,           \* the contents programs write
    Sizes          \* the sizes of the files they write, in clusters

(* The FAT is one sector of 12-bit entries: 0..340 lie inside it, entry 341 *)
(* would cross into the next sector, which next_cluster does not read.      *)
ASSUME FatAssumption ==
    /\ LastCluster \in Nat /\ LastCluster >= 2 /\ LastCluster < 341
    /\ SlotCount \in Nat \ {0} /\ Sizes \subseteq Nat

ASSUME CutAssumption == Cut \in [Name -> Name] /\ \A nm \in Name : Cut[Cut[nm]] = Cut[nm]

Cluster == 2..LastCluster
Slots   == 1..SlotCount
Root    == 0               \* cur_dir_cluster_ = 0
Dirs    == {Root} \cup Cluster
Free    == 0
Eoc     == 4095            \* 0xFFF

(* A directory entry: its first byte says end (0) or deleted (0xE5), its   *)
(* attribute file or directory.  val is not on the disk: it remembers what *)
(* was written under the entry.                                            *)
End     == [kind |-> "end", cl |-> 0, size |-> 0]
Deleted == [kind |-> "deleted", cl |-> 0, size |-> 0]
FileEntry(nm, cl, n, v) == [kind |-> "file", cl |-> cl, size |-> n, name |-> nm,
                            val |-> IF n = 0 THEN "none" ELSE v]
DirEntry(nm, cl) == [kind |-> "dir", cl |-> cl, size |-> 0, name |-> nm]

(* What a cluster can hold.  Read as a directory, data has no entries.     *)
(* What is left in a cluster when it is freed stands for nothing: every    *)
(* cluster is written before an entry leads to it again.                   *)
Empty == [i \in Slots |-> End]
DirBlock(parent) == [is |-> "dir", ent |-> Empty, up |-> parent]
Unread == [is |-> "none", ent |-> Empty, up |-> Root]
DataBlock(v) == [is |-> "data", ent |-> Empty, up |-> Root, val |-> v]

VARIABLES
    fat,      \* the file allocation table
    blk,      \* what is in each cluster, and in the root directory
    cwd,      \* cur_dir_cluster_: one for the whole kernel
    damage    \* the first step that damaged the volume

volume == <<fat, blk>>
vars == <<fat, blk, cwd, damage>>

Init ==
    /\ fat = [c \in Cluster |-> Free]
    /\ blk = [d \in Dirs |-> IF d = Root THEN DirBlock(Root) ELSE Unread]
    /\ cwd = Root
    /\ damage = "none"

-----------------------------------------------------------------------------
(* next_cluster, read_fat_entry                                            *)
NextCluster(f, c) == IF c \in Cluster THEN f[c] ELSE Free

(* cl in the n-th turn of a loop `while (cl >= 2 && cl < 0xFF0)`           *)
Turns(f, c) ==
    LET cl[n \in 1..LastCluster] == IF n = 1 THEN c ELSE NextCluster(f, cl[n - 1])
    IN cl

(* The clusters such a loop visits, in order                               *)
Walk(f, c) ==
    LET cl == Turns(f, c)
    IN [n \in 1..Cardinality({ i \in 1..LastCluster : cl[i] \in Cluster }) |-> cl[n]]
Chain(f, c) == LET w == Walk(f, c) IN { w[n] : n \in DOMAIN w }

(* A definition named Op_bug is a mutant of Op, used by no specification.  *)
Freed_head(f, c) == [x \in Cluster |-> IF x = c THEN Free ELSE f[x]]

(* The loop that frees a chain                                             *)
Freed(f, c) == [x \in Cluster |-> IF x \in Chain(f, c) THEN Free ELSE f[x]]


(* find_free_cluster looks for an entry that is 0, from cluster 2 on.  It  *)
(* goes to the end of the FAT, which is taken to have an entry for each    *)
(* cluster of the data area and no more (ufs.cpp looks at the data area).  *)
FreeClusters(f) == { c \in Cluster : f[c] = Free }
Least(S) == CHOOSE x \in S : \A y \in S : x <= y

(* The k lowest free clusters, in the order alloc_cluster returns them     *)
Picked(f, k) == { c \in FreeClusters(f) : Cardinality({ x \in FreeClusters(f) : x < c }) < k }

Rest(f, k, c) == { x \in Picked(f, k) : x > c }

Linked_apart(f, k) ==
    [c \in Cluster |-> IF c \in Picked(f, k) THEN Eoc ELSE f[c]]

(* alloc_cluster k times, each one linked to the one before                *)
Linked(f, k) ==
    [c \in Cluster |-> IF c \notin Picked(f, k) THEN f[c]
                       ELSE IF Rest(f, k, c) # {} THEN Least(Rest(f, k, c)) ELSE Eoc]

(* The scan of a directory stops at the end mark.                          *)
Live(e) == e.kind \in {"file", "dir"}
Scanned(ent) == { i \in Slots : \A j \in 1..i : ent[j].kind # "end" }
Matches(ent, nm, kinds) == { i \in Scanned(ent) : ent[i].kind \in kinds /\ ent[i].name = nm }
AnyKind == {"file", "dir"}

(* Slots a new entry can go to                                             *)
FreeSlots(ent) == { i \in Slots : ~Live(ent[i]) }

Ent == blk[cwd].ent

(* write_curdir with entry e in slot i of directory d, under the table f   *)
WithEntry(f, d, i, e) ==
    [x \in Dirs |-> IF x = d THEN [blk[d] EXCEPT !.ent[i] = e]
                    ELSE IF x # Root /\ f[x] = Free THEN Unread ELSE blk[x]]
(* Who has the name that is stored for nm                                  *)
Taken83(nm) == Matches(Ent, Cut[nm], AnyKind)

Intact == damage = "none"
HasEntries(c) == \E i \in Slots : Live(blk[c].ent[i])

-----------------------------------------------------------------------------
(* Operations *)

(* FatFilesystem::cd                                                       *)
Cd(nm) ==
    /\ Intact
    /\ LET hit == Matches(Ent, nm, {"dir"}) IN
          /\ hit # {}
          /\ cwd' = Ent[Least(hit)].cl
    /\ UNCHANGED <<volume, damage>>

CdUp ==
    /\ Intact /\ cwd # Root
    /\ cwd' = blk[cwd].up
    /\ UNCHANGED <<volume, damage>>

CdRoot ==
    /\ Intact /\ cwd # Root
    /\ cwd' = Root
    /\ UNCHANGED <<volume, damage>>

Reused_first(ent, nm) ==
    IF FreeSlots(ent) # {} THEN Least(FreeSlots(ent)) ELSE Least(Matches(ent, nm, AnyKind))

(* write's slot: the one with the name, else the first free one            *)
Reused(ent, nm) ==
    IF Matches(ent, nm, AnyKind) # {} THEN Least(Matches(ent, nm, AnyKind)) ELSE Least(FreeSlots(ent))

(* The old chain of an overwritten name is freed before the new clusters   *)
(* are looked for.                                                         *)
Cleared(nm) ==
    LET hit == Matches(Ent, nm, AnyKind) IN
    IF hit = {} THEN fat ELSE Freed(fat, Ent[Least(hit)].cl)

(* Overwriting or removing a directory frees its cluster and not its       *)
(* files' ones.                                                            *)
Orphans(hit) == hit # {} /\ Ent[Least(hit)].kind = "dir" /\ HasEntries(Ent[Least(hit)].cl)

(* FatFilesystem::write of k clusters: a name that is cut is not found and *)
(* gets an entry more, whatever has the short name already.                *)
Write(nm, k, v) ==
    /\ Intact
    /\ LET hit == Matches(Ent, nm, AnyKind)
           f == Cleared(nm)
           new == Picked(f, k)
           first == IF k = 0 THEN 0 ELSE Least(new)
       IN
       /\ hit # {} \/ FreeSlots(Ent) # {}                       \* else -4
       /\ \/ /\ Cardinality(FreeClusters(f)) >= k
             /\ fat' = Linked(f, k)
             /\ blk' = [c \in Dirs |-> IF c \in new THEN DataBlock(v)
                          ELSE WithEntry(f, cwd, Reused(Ent, nm), FileEntry(Cut[nm], first, k, v))[c]]
             /\ damage' = CASE Orphans(hit) -> "overwrite_dir"
                            [] hit = {} /\ Taken83(nm) # {} -> "write_cut"
                            [] OTHER -> "none"
          \/ /\ Cardinality(FreeClusters(f)) < k                \* -5: the new chain is rolled back
             /\ fat' = f
             /\ blk' = blk
             /\ damage' = IF Orphans(hit) THEN "overwrite_dir_nospace"
                          ELSE IF hit # {} /\ Ent[Least(hit)].cl # 0 THEN "overwrite_nospace" ELSE "none"
    /\ UNCHANGED cwd

(* FatFilesystem::remove: a directory, too                                 *)
Remove(nm) ==
    /\ Intact
    /\ LET hit == Matches(Ent, nm, AnyKind) IN
       /\ hit # {}
       /\ fat' = Freed(fat, Ent[Least(hit)].cl)
       /\ blk' = WithEntry(fat', cwd, Least(hit), Deleted)
       /\ damage' = IF Orphans(hit) THEN "remove_dir" ELSE "none"
    /\ UNCHANGED cwd

(* FatFilesystem::mkdir: the cluster is taken before a slot is looked for. *)
Mkdir(nm) ==
    /\ Intact
    /\ Matches(Ent, nm, AnyKind) = {}                               \* else -3
    /\ FreeClusters(fat) # {}                                   \* else -2
    /\ LET c == Least(FreeClusters(fat)) IN
       /\ fat' = Linked(fat, 1)
       /\ \/ /\ FreeSlots(Ent) # {}
             /\ blk' = [WithEntry(fat, cwd, Least(FreeSlots(Ent)), DirEntry(Cut[nm], c)) EXCEPT ![c] = DirBlock(cwd)]
             /\ damage' = IF Taken83(nm) # {} THEN "mkdir_cut" ELSE "none"
          \/ /\ FreeSlots(Ent) = {}                             \* -1
             /\ blk' = [blk EXCEPT ![c] = DirBlock(cwd)]
             /\ damage' = "mkdir_full"
    /\ UNCHANGED cwd

EmptyDir_oneSlot(c) == ~Live(blk[c].ent[1])

(* rmdir's check of the first sector                                       *)
EmptyDir(c) == \A i \in Scanned(blk[c].ent) : ~Live(blk[c].ent[i])

(* FatFilesystem::rmdir                                                    *)
Rmdir(nm) ==
    /\ Intact
    /\ LET hit == Matches(Ent, nm, {"dir"}) IN
       /\ hit # {}                                              \* else -1
       /\ EmptyDir(Ent[Least(hit)].cl)                          \* else -2
       /\ fat' = Freed(fat, Ent[Least(hit)].cl)
       /\ blk' = WithEntry(fat', cwd, Least(hit), Deleted)
    /\ UNCHANGED <<cwd, damage>>

(* FatFilesystem::rename: nobody looks whether the new name is taken.      *)
Rename(old, new) ==
    /\ Intact
    /\ LET hit == Matches(Ent, old, AnyKind) IN
       /\ hit # {}
       /\ blk' = WithEntry(fat, cwd, Least(hit), [Ent[Least(hit)] EXCEPT !.name = Cut[new]])
       /\ damage' = IF Taken83(new) \ {Least(hit)} # {} THEN "rename_onto" ELSE "none"
    /\ UNCHANGED <<fat, cwd>>

(* The same calls with "." or ".." in a subdirectory: nothing filters the  *)
(* two names, and their entries lead to the current directory and to its   *)
(* parent.  Which call it was matters less than what is gone after it.     *)
Dots == {".", ".."}
Own(dot) == IF dot = "." THEN cwd ELSE blk[cwd].up

DotDamage(c) == CASE c = Root -> "dot_name" [] c = cwd -> "own_dir" [] OTHER -> "parent_dir"

(* The clusters of c are freed; the root has none (its number is 0).       *)
FreesDir(c) ==
    /\ fat' = Freed(fat, c)
    /\ blk' = [x \in Dirs |-> IF x # Root /\ fat'[x] = Free THEN Unread ELSE blk[x]]
    /\ damage' = DotDamage(c)
    /\ UNCHANGED cwd

RemoveDot(dot) == Intact /\ cwd # Root /\ FreesDir(Own(dot))

(* A parent other than the root has an entry, for the current directory.   *)
RmdirDot(dot) ==
    /\ Intact /\ cwd # Root
    /\ Own(dot) = Root \/ EmptyDir(Own(dot))
    /\ FreesDir(Own(dot))

(* write takes new clusters when it has freed the directory's.  Its entry  *)
(* goes over "." or "..", where it is not followed, or into a sector that  *)
(* is no longer a directory's.                                             *)
WriteDot(dot, k, v) ==
    /\ Intact /\ cwd # Root
    /\ LET f == Freed(fat, Own(dot)) IN
       \/ /\ Cardinality(FreeClusters(f)) >= k
          /\ fat' = Linked(f, k)
          /\ blk' = [x \in Dirs |-> IF x \in Picked(f, k) THEN DataBlock(v)
                                    ELSE IF x # Root /\ f[x] = Free THEN Unread ELSE blk[x]]
          /\ damage' = DotDamage(Own(dot))
          /\ UNCHANGED cwd
       \/ /\ Cardinality(FreeClusters(f)) < k /\ Own(dot) # Root   \* -5
          /\ FreesDir(Own(dot))

(* The entry "." or ".." gets another name; the clusters stay.             *)
RenameDot ==
    /\ Intact /\ cwd # Root
    /\ damage' = "dot_name"
    /\ UNCHANGED <<fat, blk, cwd>>

DotCall ==
    \/ \E dot \in Dots : RemoveDot(dot) \/ RmdirDot(dot)
    \/ \E dot \in Dots, k \in Sizes, v \in Val : WriteDot(dot, k, v)
    \/ RenameDot

Operation ==
    \/ CdUp \/ CdRoot
    \/ \E nm \in Name : Cd(nm) \/ Remove(nm) \/ Mkdir(nm) \/ Rmdir(nm)
    \/ \E nm \in Name, k \in Sizes, v \in Val : Write(nm, k, v)
    \/ \E old, new \in Name : Rename(old, new)

Next == Operation \/ DotCall
Spec == Init /\ [][Next]_vars

-----------------------------------------------------------------------------
(* What FatFilesystem::open copies out: the contents of the clusters along *)
(* the chain                                                               *)
Opened(e) == LET w == Walk(fat, e.cl) IN [n \in DOMAIN w |-> blk[w[n]]]

(* Live directories and the places of live entries                         *)
LiveDirs == {Root} \cup { c \in Cluster : fat[c] # Free /\ blk[c].is = "dir" }
Places   == { p \in LiveDirs \X Slots : Live(blk[p[1]].ent[p[2]]) }
At(p)    == blk[p[1]].ent[p[2]]

(* No two entries share a cluster, however often files were overwritten,   *)
(* removed and created in between: the first sharing needs an entry whose  *)
(* clusters were freed under it.                                           *)
NoSharedCluster ==
    LET chain == [p \in Places |-> Chain(fat, At(p).cl)]
    IN \A p, q \in DOMAIN chain : p # q => chain[p] \cap chain[q] = {}

NoRoom == {"overwrite_nospace", "overwrite_dir_nospace"}
TakesDir == {"overwrite_dir", "overwrite_dir_nospace", "remove_dir"}
SameName == {"rename_onto", "write_cut", "mkdir_cut", "dot_name"}
DotCauses == {"own_dir", "parent_dir", "dot_name"}

(* Clusters that no entry leads to                                         *)
Leaked == { c \in Cluster : fat[c] # Free } \ UNION { Chain(fat, At(p).cl) : p \in Places }

(* Space is lost only by a mkdir in a full directory, by removing or       *)
(* overwriting a directory that still has files, which takes theirs along, *)
(* and by a call on "." or "..".                                           *)
LeakCause == Leaked # {} => damage \in TakesDir \cup DotCauses \cup {"mkdir_full"}

(* The entry of a file that was to be replaced and found no room           *)
Emptied(p) == damage \in NoRoom /\ At(p).cl \in Cluster /\ fat[At(p).cl] = Free

(* Every file entry reads back whole, as it was written, whatever happened *)
(* to others since, calls on "." and ".." included: only a write that      *)
(* found no room loses a file, the one it was to replace and no other.     *)
(* (This is said of entries.  Of two entries with one name open finds the  *)
(* first, and a name that was cut is not found under its full name.)       *)
FilesReadBack ==
    \A p \in Places : At(p).kind = "file" =>
       \/ Emptied(p)
       \/ Opened(At(p)) = [n \in 1..At(p).size |-> DataBlock(At(p).val)]

(* A name is in a directory once, unless a file was renamed onto it, or a  *)
(* name that is cut was written or made a directory where its cut was      *)
(* there already (a second write of one long name, say), or "." was given  *)
(* a name; then open and remove only ever reach the first of the two.      *)
NamesUnique ==
    damage \notin SameName =>
       \A p, q \in Places : p[1] = q[1] /\ At(p).name = At(q).name => p = q

(* The kernel's one current directory is alive, unless a call on "."       *)
(* removed it, and ".." of a directory leads to the directory that has the *)
(* entry for it.                                                           *)
TreeLinked ==
    /\ cwd \in LiveDirs \/ damage = "own_dir"
    /\ damage \notin TakesDir \cup DotCauses \cup {"mkdir_full"} =>
          \A c \in LiveDirs \ {Root} :
             /\ \E i \in Slots : LET e == blk[blk[c].up].ent[i] IN e.kind = "dir" /\ e.cl = c
             /\ blk[c].up \in LiveDirs
=============================================================================
