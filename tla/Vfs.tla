--------------------------------- MODULE Vfs ---------------------------------
(* The mount table and path resolution: fs/vfs.cpp, and the mounts of        *)
(* kernel_main.  The RAM disk is the file system behind it here; the others  *)
(* keep no state in this module.  A path is a sequence of characters.        *)
EXTENDS RamDisk

CONSTANTS Paths,       \* paths the system calls are given
          MaxMounts,   \* VFS_MAX_MOUNTS
          Requests     \* sizes other kernel code allocates

ASSUME VfsAssumption ==
    /\ \A p \in Paths : p \in Seq(STRING) /\ p # <<>>
    /\ MaxMounts \in Nat \ {0} /\ Requests \subseteq Nat

VARIABLES mounts,      \* g_mounts, in the order of mounting
          booting,     \* file systems kernel_main has still to mount
          held         \* blocks other kernel code holds

vfsVars == <<mounts, booting, held, hdr, rdVars>>

Root == <<"/">>
Tmp == <<"/", "t">>
Ext == <<"/", "e">>

VfsInit ==
    /\ HeapInit /\ RamDiskInit
    /\ mounts = <<>>
    /\ booting = <<[at |-> Root, fs |-> "fat"], [at |-> Ext, fs |-> "ext2"], [at |-> Tmp, fs |-> "ramdisk"]>>
    /\ held = {}

(* kernel_main mounts one after the other; ext2.init may fail.               *)
Mount ==
    /\ booting # <<>>
    /\ mounts' = IF Len(mounts) < MaxMounts THEN Append(mounts, Head(booting)) ELSE mounts
    /\ booting' = Tail(booting)
    /\ UNCHANGED <<held, hdr, rdVars>>

SkipExt2 ==
    /\ booting # <<>> /\ Head(booting).fs = "ext2"
    /\ booting' = Tail(booting)
    /\ UNCHANGED <<mounts, held, hdr, rdVars>>

---------------------------------------------------------------------------
(* vfs_resolve                                                               *)

IsPrefixOf(m, p) == Len(m) <= Len(p) /\ SubSeq(p, 1, Len(m)) = m
Matching(p) == {i \in DOMAIN mounts : IsPrefixOf(mounts[i].at, p)}

(* The longest mount point that starts the path; the first of equals.        *)
Best_first(p) == LowestOf(Matching(p))
Best(p) == CHOOSE i \in Matching(p) :
              \A j \in Matching(p) : \/ Len(mounts[i].at) > Len(mounts[j].at)
                                     \/ Len(mounts[i].at) = Len(mounts[j].at) /\ i <= j

(* The path without its leading slashes                                      *)
Stripped(s) ==
    LET rest == {i \in DOMAIN s : s[i] # "/"}
    IN IF rest = {} THEN <<>> ELSE SubSeq(s, LowestOf(rest), Len(s))

After(p, m) == SubSeq(p, Len(m) + 1, Len(p))

NoFs == [fs |-> "none", rel |-> <<>>]

Resolve(p) ==
    IF p[1] # "/"
    THEN IF \E i \in DOMAIN mounts : mounts[i].at = Root THEN [fs |-> "fat", rel |-> p] ELSE NoFs
    ELSE IF Matching(p) = {} THEN NoFs
    ELSE [fs |-> mounts[Best(p)].fs, rel |-> Stripped(After(p, mounts[Best(p)].at))]

---------------------------------------------------------------------------
(* vfs_write and vfs_remove; mkdir, rmdir and rename of the RAM disk refuse, *)
(* and a rename between file systems is refused.                             *)

Write(p, text) ==
    /\ IF Resolve(p).fs = "ramdisk" THEN Create(Resolve(p).rel, text) ELSE UNCHANGED <<hdr, rdVars>>
    /\ UNCHANGED <<mounts, booting, held>>

Unlink(p) ==
    /\ IF Resolve(p).fs = "ramdisk" THEN Remove(Resolve(p).rel) ELSE UNCHANGED <<hdr, rdVars>>
    /\ UNCHANGED <<mounts, booting, held>>

(* SYS_RD_CREATE and SYS_RD_REMOVE name a file of the RAM disk directly.     *)
RdCreate(p, text) ==
    /\ Create(Stripped(After(p, Tmp)), text)
    /\ UNCHANGED <<mounts, booting, held>>

RdRemove(p) ==
    /\ Remove(Stripped(After(p, Tmp)))
    /\ UNCHANGED <<mounts, booting, held>>

(* The rest of the kernel allocates and frees in between.                    *)
Kmalloc(n) ==
    /\ Fitting(n) # {}
    /\ LET a == LowestOf(Fitting(n)) IN
       /\ hdr' = Taken(a, n)
       /\ held' = held \cup {a}
    /\ UNCHANGED <<mounts, booting, rdVars>>

Kfree(a) ==
    /\ hdr' = Released(a)
    /\ held' = held \ {a}
    /\ UNCHANGED <<mounts, booting, rdVars>>

Running == booting = <<>>

VfsNext ==
    \/ Mount
    \/ SkipExt2
    \/ Running /\ \E n \in Requests : Kmalloc(n)
    \/ Running /\ \E a \in held : Kfree(a)
    \/ /\ Running
       /\ \E p \in Paths : \/ Unlink(p)
                           \/ \E text \in Data \cup {Empty} : Write(p, text)
    \/ /\ Running
       /\ \E p \in {q \in Paths : IsPrefixOf(Tmp, q)} :
            \/ RdRemove(p)
            \/ \E text \in Data \cup {Empty} : RdCreate(p, text)

VfsSpec == VfsInit /\ [][VfsNext]_vfsVars

---------------------------------------------------------------------------
(* Every block the heap has given out has one owner, the RAM disk's slot or  *)
(* other kernel code, and every owner's block is still given out: no buffer  *)
(* leaks or is used after it was freed.                                      *)
BlocksOwned ==
    LET buffers == {files[i].data : i \in Slot} \ {Null} IN
    /\ {a \in Blocks : hdr[a].used} = held \cup buffers
    /\ held \cap buffers = {}
    /\ \A i, j \in Slot : (i # j /\ files[i].data # Null) => files[i].data # files[j].data

(* The reference: the mount point is a whole number of path components.      *)
Within(m, p) == IsPrefixOf(m, p) /\ (m = Root \/ Len(p) = Len(m) \/ p[Len(m) + 1] = "/")

(* A path is glued when a mount point ends inside one of its components, as  *)
(* in /tmpfile.                                                              *)
Glued(p) == \E i \in DOMAIN mounts : IsPrefixOf(mounts[i].at, p) /\ ~Within(mounts[i].at, p)

(* Resolution agrees with the reference, the deepest mount point that holds  *)
(* the path, and hands on a name without a leading slash, except for glued   *)
(* paths (vfs.cpp:57 compares characters, not components).                   *)
ResolvesByComponent ==
    Running => \A p \in {q \in Paths : q[1] = "/" /\ ~Glued(q)} :
        \E i \in DOMAIN mounts :
            /\ Within(mounts[i].at, p) /\ Resolve(p).fs = mounts[i].fs
            /\ \A j \in DOMAIN mounts : Within(mounts[j].at, p) => Len(mounts[j].at) <= Len(mounts[i].at)
            /\ Resolve(p).rel # <<>> => Resolve(p).rel[1] # "/"

============================================================================
