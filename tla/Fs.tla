--------------------------------- MODULE Fs ---------------------------------
(***************************************************************************)
(* The flat file system of kernel/fs.c: a table of FS_MAX_FILES slots in   *)
(* memory, the 20-sector image of it on the disk, and the flags that say   *)
(* whether the disk was probed and whether changes are written through.    *)
(*                                                                         *)
(* A path is the sequence of its components, as normalize_path and the     *)
(* '/' tests of the code see it.  Every component has the same width, and  *)
(* MaxLen of them are what fits whole into the FS_NAME_LEN - 1 = 31        *)
(* characters a name can hold.  They take 27 to 31 characters; what fits   *)
(* of one more component behind them is its stub.                          *)
(*                                                                         *)
(* The bytes of a file are two pieces: `head' lies on the sector that also *)
(* holds the slot's name and size, `tail' on the sector that holds the     *)
(* name and size of the next slot (a slot takes 1059 bytes, 8 + 1059 * i   *)
(* is its offset, and no name or size straddles two sectors).              *)
(***************************************************************************)
EXTENDS Integers, SequencesExt

CONSTANTS
  N,             \* the number of slots, FS_MAX_FILES in the code
  MaxLen,        \* the number of components that fit a name
  Stub,          \* Stub[c]: what fits of c behind MaxLen components
  Component,     \* all components of paths
  SYS,           \* the component EAGLEOS, a read-only virtual directory
  MARK,          \* the component .DIR, whose entry marks a directory
  NONE,          \* the empty component, of a name that ends with a '/'
  Contents,      \* what callers write into files
  NoData,        \* the content of a slot whose size is 0
  FilePaths,     \* the paths callers pass to the operations on files
  DirPaths,      \* the paths callers pass to the operations on directories
  ReadResults,   \* whether the 20 sectors can be read: a subset of BOOLEAN
  FlushResults   \* how writing the 20 sectors can end

Slot == 1..N

(***************************************************************************)
(* copy_name: what fits of a name.                                         *)
(***************************************************************************)
Cut(p) ==
  IF Len(p) <= MaxLen THEN p ELSE SubSeq(p, 1, MaxLen) \o Stub[p[MaxLen + 1]]

Path == { p \in Seq(Component) : p # <<>> /\ Cut(p) = p }

(***************************************************************************)
(* fs_flush_to_disk stops at the first sector that fails.  With `cut' = k  *)
(* the names and sizes of slots 1..k and the tails of slots 1..k-1 are     *)
(* new; k = N + 1 is the whole image.  It can fail there too, when the     *)
(* wait after the last sector times out, and it succeeds nowhere else.     *)
(***************************************************************************)
FlushResult ==
  { r \in [ok : BOOLEAN, cut : 0..N+1] : r.ok => r.cut = N + 1 }

ASSUME SizeAssumption == N \in Nat \ {0} /\ MaxLen \in Nat \ {0}

ASSUME ComponentAssumption ==
  /\ SYS \in Component /\ MARK \in Component /\ NONE \in Component
  /\ SYS # MARK /\ MARK # NONE

(***************************************************************************)
(* Nothing is left of any component when MaxLen of them are 31 characters, *)
(* only the '/' when they are 30, and one to three characters more when    *)
(* they are 29 to 27, which is never the whole of .DIR.  A stub fits whole.*)
(***************************************************************************)
ASSUME StubAssumption ==
  \/ \A c \in Component : Stub[c] = <<>>
  \/ \A c \in Component : Stub[c] = <<NONE>>
  \/ \A c \in Component : \E e \in Component \ {MARK} :
       Stub[c] = <<e>> /\ Stub[e] = <<e>> /\ (c # NONE => e # NONE)

ASSUME ContentAssumption == NoData \in Contents

ASSUME InputAssumption ==
  /\ FilePaths \subseteq Path
  /\ DirPaths \subseteq Path

ASSUME DiskAssumption ==
  /\ ReadResults \subseteq BOOLEAN
  /\ FlushResults \subseteq FlushResult
  /\ ReadResults # {} /\ FlushResults # {}

(***************************************************************************)
(* A slot is used when it has a name.                                      *)
(***************************************************************************)
Entry == [name : Path \union {<<>>}, head : Contents, tail : Contents]

Table == [Slot -> Entry]

FreeEntry == [name |-> <<>>, head |-> NoData, tail |-> NoData]

EmptyTable == [i \in Slot |-> FreeEntry]

VARIABLES
  entries,     \* entries[] of fs.c
  disk,        \* the image: does it have the magic number, and its slots
  probeDone,   \* disk_probe_done
  enabled,     \* disk_persistence_enabled
  torn,        \* history: some flush has left an image that is not a table
  mixed,       \* history: ... while the image was already behind memory
  lag          \* history: the last flush failed

vars == <<entries, disk, probeDone, enabled, torn, mixed, lag>>

(***************************************************************************)
(* The state as a record, so that an operation can be followed through     *)
(* its probe, its change and its flush.                                    *)
(***************************************************************************)
Now == [entries |-> entries, disk |-> disk, probeDone |-> probeDone,
        enabled |-> enabled, torn |-> torn, mixed |-> mixed, lag |-> lag]

Become(s) ==
  /\ entries' = s.entries
  /\ disk' = s.disk
  /\ probeDone' = s.probeDone
  /\ enabled' = s.enabled
  /\ torn' = s.torn
  /\ mixed' = s.mixed
  /\ lag' = s.lag

-----------------------------------------------------------------------------
(***************************************************************************)
(* Names and directories, over a table t.                                  *)
(***************************************************************************)
Used(t) == { i \in Slot : t[i].name # <<>> }

Free(t) == Slot \ Used(t)

Holding(t, p) == { i \in Slot : t[i].name = p }

HasEntry(t, p) == Holding(t, p) # {}

(***************************************************************************)
(* build_dir_marker_path.  Its string is not cut, though it is longer than *)
(* the array it is built in when the directory has 27 characters or more:  *)
(* no entry then equals it, and copy_name cuts it when it becomes one.     *)
(* With the -O2 of the Makefile and of build.bat nothing that is used      *)
(* afterwards lies behind the array.                                       *)
(***************************************************************************)
Marker(d) == Append(d, MARK)

HasBelow(t, d) == \E i \in Used(t) : IsStrictPrefix(d, t[i].name)

(* A path of 31 characters: not even a '/' fits behind it.                 *)
Fills(d) == Cut(Marker(d)) = d

(* Mutated form: every path has room for the '/' of its children.          *)
HasChildBelow(t, d) == HasBelow(t, d)

(* path_has_child_prefix, which compares such a path without a '/'.        *)
HasChild(t, d) == IF Fills(d) THEN HasEntry(t, d) ELSE HasBelow(t, d)

DirectoryExists(t, d) ==
  \/ d = <<>>
  \/ d = <<SYS>>
  \/ HasEntry(t, Marker(d))
  \/ HasChild(t, d)

ParentExists(t, p) == DirectoryExists(t, Front(p))

Reserved(p) == p[1] = SYS

(***************************************************************************)
(* replace_path_prefix fails, and the entry keeps its name, when the path  *)
(* is not old or below it, when the new prefix has 31 characters or when   *)
(* the new name does not fit.                                              *)
(***************************************************************************)
Renamed(p, old, new) == new \o SubSeq(p, Len(old) + 1, Len(p))

(* Mutated form: the length of the new name is not checked.                *)
MovesUnchecked(p, old, new) == IsPrefix(old, p)

Moves(p, old, new) ==
  /\ IsPrefix(old, p)
  /\ ~Fills(new)
  /\ Cut(Renamed(p, old, new)) = Renamed(p, old, new)

(***************************************************************************)
(* What build_listing shows of directory d: folders first, then the files  *)
(* that are no markers and whose name no folder has taken.  Neither is     *)
(* shown without a name, as what follows the '/' at the end of one is.     *)
(***************************************************************************)
Folders(t, d) ==
  (IF d = <<>> THEN {SYS} ELSE {})
  \union { t[i].name[Len(d) + 1] :
             i \in { j \in Used(t) : /\ IsStrictPrefix(d, t[j].name)
                                    /\ Len(t[j].name) > Len(d) + 1
                                    /\ t[j].name[Len(d) + 1] # NONE } }

Files(t, d) ==
  { t[i].name[Len(d) + 1] :
      i \in { j \in Used(t) : /\ IsStrictPrefix(d, t[j].name)
                             /\ Len(t[j].name) = Len(d) + 1
                             /\ Last(t[j].name) \notin {MARK, NONE} } }
  \ Folders(t, d)

-----------------------------------------------------------------------------
(***************************************************************************)
(* The disk.                                                               *)
(***************************************************************************)
(* Mutated form: the last sector of the image is never written.            *)
CutImageEarly(t, image, k) ==
  [magic |-> image.magic \/ k > 0,
   slot |-> [i \in Slot |->
     [name |-> IF i <= k THEN t[i].name ELSE image.slot[i].name,
      head |-> IF i <= k THEN t[i].head ELSE image.slot[i].head,
      tail |-> IF i < k - 1 THEN t[i].tail ELSE image.slot[i].tail]]]

CutImage(t, image, k) ==
  [magic |-> image.magic \/ k > 0,
   slot |-> [i \in Slot |->
     [name |-> IF i <= k THEN t[i].name ELSE image.slot[i].name,
      head |-> IF i <= k THEN t[i].head ELSE image.slot[i].head,
      tail |-> IF i < k THEN t[i].tail ELSE image.slot[i].tail]]]

CutShort(r) == r.cut \in 1..N

(* fs_flush_to_disk of a table that was `before' until this operation.     *)
Flush(s, before, r) ==
  [s EXCEPT !.disk = CutImage(s.entries, s.disk, r.cut),
            !.torn = @ \/ CutShort(r),
            !.mixed = @ \/ (CutShort(r) /\ before # s.disk.slot),
            !.lag = ~r.ok]

(* Mutated form: the image is accepted but not copied into the table.      *)
LoadNothing(s) == [s EXCEPT !.lag = FALSE]

(* fs_load_from_disk, when every sector is read and the magic is there.    *)
Load(s) == [s EXCEPT !.entries = s.disk.slot, !.lag = FALSE]

(* Mutated form: the magic number is never recognised.                     *)
NeverLoads(s) == {FALSE}

Loads(s) == IF s.disk.magic THEN ReadResults ELSE {FALSE}

(***************************************************************************)
(* fs_try_enable_persistence: the states it can leave.  Operations that    *)
(* change the table allow the initial write and probe again after a        *)
(* failure; operations that only read probe once.                          *)
(***************************************************************************)
Unloaded(s, allowInitWrite) ==
  IF allowInitWrite
  THEN { [Flush(s, s.entries, r) EXCEPT !.enabled = r.ok] : r \in FlushResults }
  ELSE {[s EXCEPT !.enabled = FALSE]}

TryEnable(s, allowInitWrite) ==
  LET probed == [s EXCEPT !.probeDone = TRUE] IN
  IF s.enabled \/ (s.probeDone /\ ~allowInitWrite)
  THEN {s}
  ELSE UNION { IF loaded THEN {[Load(probed) EXCEPT !.enabled = TRUE]}
               ELSE Unloaded(probed, allowInitWrite) : loaded \in Loads(s) }

(* Mutated form: the change stays in memory.                               *)
CommitMemory(s, t) == {[s EXCEPT !.entries = t]}

(* The change of the table, then the write-through if it is enabled.       *)
Commit(s, t) ==
  LET changed == [s EXCEPT !.entries = t] IN
  IF s.enabled
  THEN { Flush(changed, s.entries, r) : r \in FlushResults }
  ELSE {changed}

-----------------------------------------------------------------------------
(***************************************************************************)
(* What each operation leaves, given the state s after its probe: {s} when *)
(* it returns 0 without changing anything.                                 *)
(***************************************************************************)
(* Mutated form: a free slot is taken before the name is looked up.        *)
WrittenAnew(t, p, c) ==
  LET i == IF Free(t) # {} THEN Min(Free(t)) ELSE Min(Holding(t, p))
  IN [t EXCEPT ![i] = [name |-> p, head |-> c, tail |-> c]]

Written(t, p, c) ==
  LET i == IF HasEntry(t, p) THEN Min(Holding(t, p)) ELSE Min(Free(t))
  IN [t EXCEPT ![i] = [name |-> p, head |-> c, tail |-> c]]

WriteResult(s, p, c) ==
  IF Reserved(p) \/ (~HasEntry(s.entries, p) /\ Free(s.entries) = {})
  THEN {s}
  ELSE Commit(s, Written(s.entries, p, c))

Deleted(t, p) == [t EXCEPT ![Min(Holding(t, p))] = FreeEntry]

DeleteResult(s, p) ==
  IF Reserved(p) \/ ~HasEntry(s.entries, p)
  THEN {s}
  ELSE Commit(s, Deleted(s.entries, p))

RenameResult(s, p, q) ==
  IF \/ Reserved(p) \/ Reserved(q)
     \/ ~HasEntry(s.entries, p)
     \/ p # q /\ HasEntry(s.entries, q)
  THEN {s}
  ELSE Commit(s, [s.entries EXCEPT ![Min(Holding(s.entries, p))].name = q])

(* Mutated form: a file of the same name is not looked for.                *)
CreateDirOverFile(s, d) ==
  IF \/ Reserved(d)
     \/ DirectoryExists(s.entries, d)
     \/ ~ParentExists(s.entries, d)
     \/ Free(s.entries) = {}
  THEN {s}
  ELSE Commit(s, [s.entries EXCEPT ![Min(Free(s.entries))] =
                    [FreeEntry EXCEPT !.name = Cut(Marker(d))]])

CreateDirResult(s, d) ==
  IF \/ Reserved(d) \/ HasEntry(s.entries, d)
     \/ DirectoryExists(s.entries, d)
     \/ ~ParentExists(s.entries, d)
     \/ Free(s.entries) = {}
  THEN {s}
  ELSE Commit(s, [s.entries EXCEPT ![Min(Free(s.entries))] =
                    [FreeEntry EXCEPT !.name = Cut(Marker(d))]])

DeleteDirResult(s, d) ==
  IF \/ Reserved(d)
     \/ \E i \in Used(s.entries) :
          /\ s.entries[i].name # Marker(d)
          /\ IsStrictPrefix(d, s.entries[i].name)
     \/ ~HasEntry(s.entries, Marker(d))
  THEN {s}
  ELSE Commit(s, Deleted(s.entries, Marker(d)))

(* Mutated form: what does not fit under the new name is dropped.          *)
MovedOrDropped(t, old, new) ==
  [i \in Slot |->
    IF Moves(t[i].name, old, new)
    THEN [t[i] EXCEPT !.name = Renamed(t[i].name, old, new)]
    ELSE IF IsPrefix(old, t[i].name) THEN FreeEntry ELSE t[i]]

MovedTree(t, old, new) ==
  [i \in Slot |->
    IF Moves(t[i].name, old, new)
    THEN [t[i] EXCEPT !.name = Renamed(t[i].name, old, new)]
    ELSE t[i]]

(* Mutated form: the new name may already be taken.                        *)
RenameDirOver(s, old, new) ==
  IF \/ Reserved(old) \/ Reserved(new)
     \/ ~DirectoryExists(s.entries, old)
     \/ ~ParentExists(s.entries, new)
     \/ \A i \in Used(s.entries) : ~Moves(s.entries[i].name, old, new)
  THEN {s}
  ELSE Commit(s, MovedTree(s.entries, old, new))

RenameDirResult(s, old, new) ==
  IF \/ Reserved(old) \/ Reserved(new)
     \/ ~DirectoryExists(s.entries, old)
     \/ DirectoryExists(s.entries, new)
     \/ HasEntry(s.entries, new)
     \/ ~ParentExists(s.entries, new)
     \/ \A i \in Used(s.entries) : ~Moves(s.entries[i].name, old, new)
  THEN {s}
  ELSE Commit(s, MovedTree(s.entries, old, new))

-----------------------------------------------------------------------------
WriteFile(p, c) ==
  \E s \in TryEnable(Now, TRUE) : \E u \in WriteResult(s, p, c) : Become(u)

DeleteFile(p) ==
  \E s \in TryEnable(Now, TRUE) : \E u \in DeleteResult(s, p) : Become(u)

RenameFile(p, q) ==
  \E s \in TryEnable(Now, TRUE) : \E u \in RenameResult(s, p, q) : Become(u)

CreateDir(d) ==
  \E s \in TryEnable(Now, TRUE) : \E u \in CreateDirResult(s, d) : Become(u)

DeleteDir(d) ==
  \E s \in TryEnable(Now, TRUE) : \E u \in DeleteDirResult(s, d) : Become(u)

RenameDir(old, new) ==
  \E s \in TryEnable(Now, TRUE) : \E u \in RenameDirResult(s, old, new) : Become(u)

(* fs_read_file and the listing calls: they only probe.                    *)
ReadFile == \E s \in TryEnable(Now, FALSE) : Become(s)

(***************************************************************************)
(* The machine is switched off or restarts, and fs_init runs.  A crash in  *)
(* the middle of a flush is a flush that is cut short, then this step.     *)
(***************************************************************************)
Reboot ==
  /\ entries' = EmptyTable
  /\ probeDone' = FALSE
  /\ enabled' = FALSE
  /\ lag' = FALSE
  /\ UNCHANGED <<disk, torn, mixed>>

Init ==
  /\ entries = EmptyTable
  /\ disk = [magic |-> FALSE, slot |-> EmptyTable]
  /\ probeDone = FALSE
  /\ enabled = FALSE
  /\ torn = FALSE
  /\ mixed = FALSE
  /\ lag = FALSE

Next ==
  \/ \E p \in FilePaths, c \in Contents : WriteFile(p, c)
  \/ \E p \in FilePaths : DeleteFile(p)
  \/ \E p, q \in FilePaths : RenameFile(p, q)
  \/ \E d \in DirPaths : CreateDir(d)
  \/ \E d \in DirPaths : DeleteDir(d)
  \/ \E old, new \in DirPaths : RenameDir(old, new)
  \/ ReadFile
  \/ Reboot

Spec == Init /\ [][Next]_vars

-----------------------------------------------------------------------------
(***************************************************************************)
(* Every variable has its type: names fit the 31 characters of the table   *)
(* and of the image whatever is written, renamed, loaded or cut short.     *)
(***************************************************************************)
TypeOK ==
  /\ entries \in Table
  /\ disk \in [magic : BOOLEAN, slot : Table]
  /\ probeDone \in BOOLEAN
  /\ enabled \in BOOLEAN
  /\ torn \in BOOLEAN
  /\ mixed \in BOOLEAN
  /\ lag \in BOOLEAN

Distinct(t) ==
  \A i, j \in Used(t) : t[i].name = t[j].name => i = j

(***************************************************************************)
(* No two slots have the same name, in memory or on the disk: fs_write_file*)
(* reuses the entry it finds, renames and new directories look for a free  *)
(* name first, and find_entry relies on it.  It takes a flush that is cut  *)
(* short while the image is already behind memory to break it: one failed  *)
(* flush of an image that was current never does.                          *)
(***************************************************************************)
UniqueNames == ~mixed => Distinct(entries) /\ Distinct(disk.slot)

(***************************************************************************)
(* While persistence is on and the last flush did not fail, the image is   *)
(* exactly the table: what an operation acknowledged survives a restart.   *)
(***************************************************************************)
WriteThrough == enabled /\ ~lag => disk.magic /\ disk.slot = entries

Whole(t) == \A i \in Used(t) : t[i].head = t[i].tail

(***************************************************************************)
(* A file is never part old and part new, in memory or in the image, as    *)
(* long as no flush was cut short.                                         *)
(***************************************************************************)
WholeFiles == ~torn => Whole(entries) /\ Whole(disk.slot)

(***************************************************************************)
(* directory_exists and build_listing agree on what a directory is, though *)
(* each has its own scan of the table and the marker of a directory of 27  *)
(* characters or more is not found again: a directory is listed in its     *)
(* parent and what is listed as a folder exists.  With 31 characters they  *)
(* do not: what directory_exists takes for a directory is listed as a file.*)
(***************************************************************************)
ListingAgrees ==
  \A d \in DirPaths :
    ~Reserved(d) /\ Last(d) \notin {MARK, NONE} =>
      (DirectoryExists(entries, d)
         <=> Last(d) \in IF Fills(d) THEN Files(entries, Front(d))
                         ELSE Folders(entries, Front(d)))

NoShadow(t) == \A i \in Used(t) : ~HasBelow(t, t[i].name)

DirOp ==
  \/ \E d \in DirPaths : CreateDir(d) \/ DeleteDir(d)
  \/ \E old, new \in DirPaths : RenameDir(old, new)

(***************************************************************************)
(* Creating or renaming a directory never takes the name of a file, and    *)
(* never hides one: what makes a path both a file and a directory is never *)
(* such a step, only fs_write_file and fs_rename_file, which do not look at*)
(* directories.  (An empty table can be filled by a load.)                 *)
(***************************************************************************)
DirOpsNeverShadow ==
  [][ entries # EmptyTable /\ NoShadow(entries) /\ ~NoShadow(entries') => ~DirOp ]_vars

(* What is no marker of a directory.                                       *)
Plain(t) == { i \in Used(t) : Last(t[i].name) # MARK }

(***************************************************************************)
(* The operations on directories never lose a file: a step that frees the  *)
(* slot of a plain file or changes its content is never one of them.       *)
(***************************************************************************)
DirOpsKeepFiles ==
  [][ /\ entries # EmptyTable
      /\ \E i \in Plain(entries) :
           \/ i \notin Plain(entries')
           \/ entries'[i].head # entries[i].head
           \/ entries'[i].tail # entries[i].tail
      => ~DirOp ]_vars

Names(t) == { t[i].name : i \in Used(t) }

(***************************************************************************)
(* What the editor reported as "SAVED", and not for the session only,      *)
(* stays: only deleting or renaming takes a name out of the image, and in  *)
(* particular the first write after a restart does not.  It holds on a     *)
(* disk that works; when the image cannot be read at that first write, the *)
(* code writes the table it has over it.                                   *)
(***************************************************************************)
SavedFilesStay ==
  [][ \/ Names(disk.slot) \subseteq Names(disk'.slot)
      \/ \E p \in FilePaths : DeleteFile(p)
      \/ \E p, q \in FilePaths : RenameFile(p, q)
      \/ \E d \in DirPaths : DeleteDir(d)
      \/ \E old, new \in DirPaths : RenameDir(old, new) ]_vars

(***************************************************************************)
(* A file the editor reported as "SAVED (SESSION ONLY)" is there until the *)
(* session ends: writing another file does not take it away.               *)
(***************************************************************************)
SessionFilesStay ==
  [][ \A p \in FilePaths, c \in Contents :
        WriteFile(p, c) => Names(entries) \subseteq Names(entries') ]_vars
=============================================================================
