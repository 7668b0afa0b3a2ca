------------------------------- MODULE RamDisk -------------------------------
(* The RAM disk: fs/ramdisk.cpp, with its file buffers on the kernel heap.   *)
(* A name is a sequence of characters; the directory keeps NameMax of them.  *)
EXTENDS Heap, Sequences

CONSTANTS Slot,        \* indexes of files_
          NameMax,     \* RAMDISK_NAME_LEN - 1
          FileUnits,   \* RAMDISK_MAX_SIZE in units of the heap
          Data,        \* what a non-empty file can hold
          Empty        \* the contents of size 0

ASSUME RamDiskAssumption ==
    NameMax \in Nat \ {0} /\ FileUnits \in Nat /\ Empty \notin Data /\ Slot \subseteq Nat

VARIABLES files,       \* files_: name, data pointer, contents up to size, used
          written      \* history: the contents last stored under a name, Null if removed

rdVars == <<files, written>>

RamDiskInit ==
    /\ files = [i \in Slot |-> [name |-> <<>>, data |-> Null, text |-> Empty, used |-> FALSE]]
    /\ written = [n \in {} |-> Null]

UsedSlots == {i \in Slot : files[i].used}

(* find_name compares at most NameMax characters and then wants both ends.   *)
Matches(name, kept) == Len(name) <= NameMax /\ name = kept

Found_any(name) == {i \in Slot : Matches(name, files[i].name)}
Found(name) == {i \in UsedSlots : Matches(name, files[i].name)}
FindFree == Slot \ UsedSlots

Kept(name) == SubSeq(name, 1, IF Len(name) > NameMax THEN NameMax ELSE Len(name))

(* The slot create uses: the first of that name, or the first free one.      *)
Target(name) == IF Found(name) # {} THEN Found(name) ELSE FindFree

Stored(i, name, p, text) ==
    files' = [files EXCEPT ![i] = [name |-> Kept(name), data |-> p, text |-> text, used |-> TRUE]]

Noted(name, text) == written' = Extended(written, name, text)

(* create, which the VFS calls write: an empty file, a file whose buffer is  *)
(* there, one that gets a buffer, one that gets none.  A text of more than   *)
(* RAMDISK_MAX_SIZE bytes is refused before anything changes, so every text  *)
(* here is one that fits in a buffer.                                        *)
CreateNoBuffer(name, text) ==
    /\ Target(name) # {}
    /\ LET i == LowestOf(Target(name)) IN
       /\ text = Empty \/ files[i].data # Null
       /\ Stored(i, name, files[i].data, text)
    /\ Noted(name, text)
    /\ UNCHANGED hdr

CreateBuffer(name, text) ==
    /\ Target(name) # {} /\ text # Empty
    /\ LET i == LowestOf(Target(name)) IN
       /\ files[i].data = Null /\ Fitting(FileUnits) # {}
       /\ LET a == LowestOf(Fitting(FileUnits)) IN
          /\ hdr' = Taken(a, FileUnits)
          /\ Stored(i, name, a, text)
    /\ Noted(name, text)

(* The name of the slot is set before the buffer is found to be missing.     *)
CreateFails(name, text) ==
    /\ Target(name) # {} /\ text # Empty
    /\ LET i == LowestOf(Target(name)) IN
       /\ files[i].data = Null /\ Fitting(FileUnits) = {}
       /\ files' = [files EXCEPT ![i].name = Kept(name)]
    /\ UNCHANGED <<hdr, written>>

Create(name, text) ==
    CreateNoBuffer(name, text) \/ CreateBuffer(name, text) \/ CreateFails(name, text)

Cleared_keep(f) == [f EXCEPT !.text = Empty, !.used = FALSE]
Cleared(f) == [f EXCEPT !.data = Null, !.text = Empty, !.used = FALSE]

(* remove *)
Remove(name) ==
    /\ Found(name) # {}
    /\ LET i == LowestOf(Found(name)) IN
       /\ hdr' = IF files[i].data = Null THEN hdr ELSE Released(files[i].data)
       /\ files' = [files EXCEPT ![i] = Cleared(@)]
    /\ Noted(name, Null)

(* read: the contents of the first slot of that name                         *)
Read(name) ==
    CASE Found(name) = {} -> Null
      [] Found(name) # {} /\ files[LowestOf(Found(name))].data = Null -> Empty
      [] OTHER -> files[LowestOf(Found(name))].text

---------------------------------------------------------------------------
(* Names too long for the directory that were ever stored, and the names     *)
(* they were cut to.                                                         *)
Long == {n \in DOMAIN written : Len(n) > NameMax}
Cut == {Kept(n) : n \in Long}

(* A file reads back what was stored last under its name, and is absent      *)
(* after it was removed, for every order of calls and failed allocations;    *)
(* unless a longer name was cut to the same name (ramdisk.cpp:107).          *)
ReadsBack ==
    \A n \in DOMAIN written :
        (Len(n) <= NameMax /\ n \notin Cut) => Read(n) = written[n]

============================================================================
