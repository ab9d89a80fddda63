----------------------------- MODULE FatVolume ------------------------------
(***************************************************************************)
(* The file system core of FatFs (c/FatFs/ff15/source/ff.c) as the         *)
(* repository configures it (c/config/ffconf.h) and uses it                *)
(* (c/FatFs/src/fatfs.zig): one volume on the SD card, FAT16 or FAT32      *)
(* without long names, one entry in the table of open objects.             *)
(*                                                                         *)
(* The volume is its FAT entries and its directory entries.  An entry of   *)
(* the FAT is free, the end of a chain or the next cluster; a directory    *)
(* entry is absent, empty or the first cluster of its file.  Both live in  *)
(* sectors, and the code sees them only through one sector window, which   *)
(* it writes back when it moves on.  So the card holds, at any time, what  *)
(* the last write-back left: losing power, taking the card out or an error *)
(* of the card can come between any two accesses.                          *)
(*                                                                         *)
(* A step is one access through the window with the change made in it.     *)
(* The volume mutex makes a call one sequence of steps.  File contents,    *)
(* sizes, times, attributes, sub-directories and FSInfo are left out, and  *)
(* so is which free cluster the search finds first.  A sector is written   *)
(* entirely or not at all.  A name stands for its slot in the directory:   *)
(* renaming a file to its own name is left out.                            *)
(***************************************************************************)
EXTENDS Integers

CONSTANTS
    NumClusters,   \* n_fatent - 2
    Names,         \* file names, each with its place in the directory
    SectorOf,      \* the sector that holds an entry
    NoSector,      \* winsect after a failed read and before the first one
    NoName         \* no open object

Free   == 0        \* value of a free FAT entry, and "no cluster" elsewhere
EOC    == 1        \* end of a chain (0x0FFFFFFF in the code)
Absent == -1       \* the name is not in the directory

Clusters == 2..(NumClusters + 1)
Entries  == Clusters \cup Names
Sectors  == {SectorOf[e] : e \in Entries}
Values   == Clusters \cup {Free, EOC, Absent}

ASSUME VolumeOK ==
    /\ NumClusters \in Nat
    /\ Names \cap Int = {}
    /\ NoName \notin Entries
    /\ DOMAIN SectorOf = Entries
    /\ NoSector \notin Sectors

VARIABLES
    disk,          \* the entries on the card
    win,           \* the window: the entries of the sector winsect
    winsect,
    wflag,         \* the window is changed and not written back
    fp,            \* the open file object; its name is the lock table's entry
    pc,            \* where the call in progress is
    clst,          \* the cluster remove_chain or create_chain works on
    arg,           \* the name the call in progress works on
    (***********************************************************************)
    (* History variables.                                                  *)
    (***********************************************************************)
    exposed,       \* files truncated to nothing whose entry is not yet written
    damaged,       \* an interruption hit f_rename or an exposed file
    failed         \* a call has reported an error of the card since the mount

window  == <<disk, win, winsect, wflag, exposed>>
call    == <<pc, clst, arg>>
history == <<damaged, failed>>
vars    == <<window, fp, call, history>>

NoFile == [name |-> NoName, write |-> FALSE, sclust |-> Free, clust |-> Free,
           modified |-> FALSE, err |-> FALSE]

Opened(n, w, start, changed) ==
    [NoFile EXCEPT !.name = n, !.write = w, !.sclust = start, !.modified = changed]

Flushing == {"sync", "close", "flush", "renameFlush"}
Removing == {"overwrite", "unlink", "truncate"}
Red      == {"rename", "renameFlush"}

------------------------------------------------------------------------------
(* The window.                                                             *)

InSector(s) == {e \in Entries : SectorOf[e] = s}

\* What the code reads: the window for its sector, the card for the others.
At(e) == IF SectorOf[e] = winsect THEN win[e] ELSE disk[e]

View == [e \in Entries |-> At(e)]

\* sync_window: the card now holds what the code sees.  The directory entry
\* of an open file is up to date when it names the file's first cluster.
WriteBack ==
    /\ disk' = View
    /\ exposed' = {n \in exposed : n = fp.name /\ At(n) # fp.sclust}

Window(s) == IF s = winsect THEN win ELSE [e \in InSector(s) |-> disk[e]]

\* move_window
Move(s) ==
    /\ winsect' = s
    /\ IF s # winsect /\ wflag THEN WriteBack ELSE UNCHANGED <<disk, exposed>>

\* get_fat, or reading a directory entry
Get(s) ==
    /\ Move(s)
    /\ win' = Window(s)
    /\ wflag' = (wflag /\ s = winsect)

\* put_fat, or a change of a directory entry
Put(e, v) ==
    /\ Move(SectorOf[e])
    /\ win' = [Window(SectorOf[e]) EXCEPT ![e] = v]
    /\ wflag' = TRUE

Unload == winsect' = NoSector /\ win' = [e \in {} |-> Free] /\ wflag' = FALSE

\* move_window to another sector fails: the write-back leaves everything as
\* it is, the read that follows it invalidates the window.
MoveFails ==
    \/ wflag /\ UNCHANGED window
    \/ /\ IF wflag THEN WriteBack ELSE UNCHANGED <<disk, exposed>>
       /\ Unload

------------------------------------------------------------------------------
Init ==
    /\ disk = [e \in Entries |-> IF e \in Names THEN Absent ELSE Free]
    /\ win = [e \in {} |-> Free] /\ winsect = NoSector /\ wflag = FALSE
    /\ fp = NoFile
    /\ pc = "idle" /\ clst = Free /\ arg = NoName
    /\ exposed = {} /\ damaged = FALSE /\ failed = FALSE

Idle == pc = "idle"

\* The searches of follow_path, dir_alloc and create_chain, and the calls
\* that only read (f_read, f_opendir), move the window and change nothing.
Scan(s) ==
    /\ Idle
    /\ s # winsect
    /\ Get(s)
    /\ UNCHANGED <<fp, call, history>>

------------------------------------------------------------------------------
(* f_open and f_close.                                                     *)

OpenFile(n, w) ==
    /\ Idle /\ fp.name = NoName
    /\ At(n) # Absent
    /\ Get(SectorOf[n])
    /\ fp' = Opened(n, w, At(n), FALSE)
    /\ UNCHANGED <<call, history>>

\* dir_register, then the entry's initial state, in the same window.
CreateFile(n) ==
    /\ Idle /\ fp.name = NoName
    /\ At(n) = Absent
    /\ Put(n, Free)
    /\ fp' = Opened(n, TRUE, Free, TRUE)
    /\ UNCHANGED <<call, history>>

\* Mutant: the entry keeps its first cluster until f_sync.
OverwriteLate(n) ==
    /\ Idle /\ fp.name = NoName
    /\ At(n) # Absent
    /\ Get(SectorOf[n])
    /\ pc' = "overwrite" /\ clst' = At(n) /\ arg' = n
    /\ UNCHANGED <<fp, history>>

\* FA_CREATE_ALWAYS on an existing file: the entry is emptied first.
Overwrite(n) ==
    /\ Idle /\ fp.name = NoName
    /\ At(n) # Absent
    /\ Put(n, Free)
    /\ pc' = "overwrite" /\ clst' = At(n) /\ arg' = n
    /\ UNCHANGED <<fp, history>>

\* Mutant: the directory entry is never written back on close.
SyncEntryLost(next) ==
    /\ Idle /\ fp.modified
    /\ next \in {"sync", "close"}
    /\ Get(SectorOf[fp.name])
    /\ pc' = next
    /\ UNCHANGED <<fp, clst, arg, history>>

\* f_sync, alone or from f_close: the entry first, sync_fs in Flush.
SyncEntry(next) ==
    /\ Idle /\ fp.modified
    /\ next \in {"sync", "close"}
    /\ Put(fp.name, fp.sclust)
    /\ pc' = next
    /\ UNCHANGED <<fp, clst, arg, history>>

\* f_close of a file that f_sync takes for unchanged.
CloseClean ==
    /\ Idle /\ fp.name # NoName /\ ~fp.modified
    /\ fp' = NoFile
    /\ UNCHANGED <<window, call, history>>

\* sync_fs.  On FAT32 the window then holds FSInfo, none of these entries.
Flush ==
    /\ pc \in Flushing
    /\ IF wflag THEN WriteBack ELSE UNCHANGED <<disk, exposed>>
    /\ wflag' = FALSE
    /\ fp' = CASE pc = "sync"  -> [fp EXCEPT !.modified = FALSE]
               [] pc = "close" -> NoFile
               [] OTHER        -> fp
    /\ pc' = "idle"
    /\ UNCHANGED <<win, winsect, clst, arg, history>>

\* sync_fs fails, in the write or in CTRL_SYNC after it.  f_sync clears
\* FA_MODIFIED all the same, and f_close keeps the file open.
FlushFails ==
    /\ pc \in Flushing
    /\ \/ wflag /\ UNCHANGED window
       \/ /\ IF wflag THEN WriteBack ELSE UNCHANGED <<disk, exposed>>
          /\ wflag' = FALSE
          /\ UNCHANGED <<win, winsect>>
    /\ fp' = IF pc \in {"sync", "close"} THEN [fp EXCEPT !.modified = FALSE] ELSE fp
    /\ damaged' = (damaged \/ pc \in Red)
    /\ failed' = TRUE
    /\ pc' = "idle"
    /\ UNCHANGED <<clst, arg>>

------------------------------------------------------------------------------
(* f_read, f_write and f_lseek, one cluster at a time.                     *)

Using   == Idle /\ fp.name # NoName /\ ~fp.err
Writing == Using /\ fp.write

\* f_write, or f_lseek past the end, starts or goes on to its next cluster.
Growing == Writing \/ pc = "write"

\* On reaching cluster c the data is moved, which may fail and end the call.
\* Otherwise the call returns or goes on: FA_MODIFIED is set at its end only.
Reached(c, wrote) ==
    \E ok \in BOOLEAN, more \in {FALSE, wrote} :
        /\ ok \/ ~more
        /\ fp' = [fp EXCEPT !.clust = c, !.sclust = IF @ = Free THEN c ELSE @,
                            !.modified = @ \/ (ok /\ wrote /\ ~more), !.err = ~ok]
        /\ pc' = IF more THEN "write" ELSE "idle"
        /\ failed' = (failed \/ ~ok)

Rewind ==
    /\ Using /\ fp.clust # Free
    /\ fp' = [fp EXCEPT !.clust = Free]
    /\ UNCHANGED <<window, call, history>>

\* The chain already has the next cluster; f_read and f_lseek leave
\* FA_MODIFIED alone.
FollowChain ==
    /\ Using \/ pc = "write"
    /\ \E wrote \in IF pc = "write" THEN {TRUE} ELSE {FALSE, fp.write} :
        \/ /\ fp.clust = Free /\ fp.sclust # Free
           /\ Reached(fp.sclust, wrote)
           /\ UNCHANGED window
        \/ /\ fp.clust # Free /\ At(fp.clust) \in Clusters
           /\ Get(SectorOf[fp.clust])
           /\ Reached(At(fp.clust), wrote)
    /\ UNCHANGED <<clst, arg, damaged>>

AtEnd == IF fp.clust = Free THEN fp.sclust = Free ELSE At(fp.clust) = EOC

\* Mutant: the end of a chain is taken for a free cluster.
AllocateUsed ==
    /\ Growing /\ AtEnd
    /\ \E ncl \in Clusters :
        /\ At(ncl) \in {Free, EOC} /\ ncl # fp.clust
        /\ Put(ncl, EOC)
        /\ IF fp.clust = Free
           THEN Reached(ncl, TRUE) /\ UNCHANGED <<clst, arg>>
           ELSE pc' = "link" /\ clst' = ncl /\ UNCHANGED <<fp, arg, failed>>
    /\ UNCHANGED damaged

\* create_chain: the new cluster is marked before anything points to it.
Allocate ==
    /\ Growing /\ AtEnd
    /\ \E ncl \in Clusters :
        /\ At(ncl) = Free
        /\ Put(ncl, EOC)
        /\ IF fp.clust = Free
           THEN Reached(ncl, TRUE) /\ UNCHANGED <<clst, arg>>
           ELSE pc' = "link" /\ clst' = ncl /\ UNCHANGED <<fp, arg, failed>>
    /\ UNCHANGED damaged

LinkCluster ==
    /\ pc = "link"
    /\ Put(fp.clust, clst)
    /\ Reached(clst, TRUE)
    /\ clst' = Free
    /\ UNCHANGED <<arg, damaged>>

\* No free cluster, or the free count of the volume says so.
DiskFull ==
    /\ Growing /\ AtEnd
    /\ fp' = [fp EXCEPT !.modified = TRUE]
    /\ pc' = "idle"
    /\ UNCHANGED <<window, clst, arg, history>>

------------------------------------------------------------------------------
(* f_truncate, f_unlink and f_rename.                                      *)

\* At the top of the file the whole chain goes.  The code clears sclust when
\* remove_chain returns, whatever it returns.
TruncateTop ==
    /\ Writing /\ fp.clust = Free /\ fp.sclust # Free
    /\ pc' = "truncate" /\ clst' = fp.sclust
    /\ fp' = [fp EXCEPT !.sclust = Free, !.modified = TRUE]
    /\ exposed' = exposed \cup {fp.name}
    /\ UNCHANGED <<disk, win, winsect, wflag, arg, history>>

\* Elsewhere the chain is cut first and the rest removed.
TruncateRest ==
    /\ Writing /\ fp.clust # Free
    /\ At(fp.clust) \in Clusters
    /\ Put(fp.clust, EOC)
    /\ pc' = "truncate" /\ clst' = At(fp.clust)
    /\ fp' = [fp EXCEPT !.modified = TRUE]
    /\ UNCHANGED <<arg, history>>

\* Mutant: the file may be open (chk_share left out).
UnlinkOpen(n) ==
    /\ Idle
    /\ At(n) # Absent
    /\ Put(n, Absent)
    /\ pc' = "unlink" /\ clst' = At(n)
    /\ UNCHANGED <<fp, arg, history>>

\* f_unlink: the entry first, then its chain.
Unlink(n) ==
    /\ Idle /\ n # fp.name
    /\ At(n) # Absent
    /\ Put(n, Absent)
    /\ pc' = "unlink" /\ clst' = At(n)
    /\ UNCHANGED <<fp, arg, history>>

\* f_rename: the new entry is a copy of the old one ...
RenameEntry(old, new) ==
    /\ Idle /\ old # fp.name
    /\ At(old) # Absent /\ At(new) = Absent
    /\ Put(new, At(old))
    /\ pc' = "rename" /\ arg' = old
    /\ UNCHANGED <<fp, clst, history>>

\* ... until dir_remove deletes the old one.
RenameRemove ==
    /\ pc = "rename"
    /\ Put(arg, Absent)
    /\ pc' = "renameFlush" /\ arg' = NoName
    /\ UNCHANGED <<fp, clst, history>>

\* remove_chain frees one cluster after the other.
RemoveCluster ==
    /\ pc \in Removing /\ clst # Free
    /\ IF At(clst) = Free THEN Get(SectorOf[clst]) ELSE Put(clst, Free)
    /\ clst' = IF At(clst) \in Clusters THEN At(clst) ELSE Free
    /\ UNCHANGED <<fp, pc, arg, history>>

\* f_open goes back to the directory's sector, f_unlink on to sync_fs and
\* f_truncate to the data in its buffer, whose write may fail.
Removed ==
    /\ pc \in Removing /\ clst = Free
    /\ CASE pc = "overwrite" -> /\ Get(SectorOf[arg])
                                /\ fp' = Opened(arg, TRUE, Free, TRUE)
                                /\ pc' = "idle" /\ arg' = NoName
                                /\ UNCHANGED failed
         [] pc = "unlink"    -> /\ pc' = "flush"
                                /\ UNCHANGED <<window, fp, arg, failed>>
         [] pc = "truncate"  -> /\ \E ok \in BOOLEAN :
                                       /\ fp' = [fp EXCEPT !.err = ~ok]
                                       /\ failed' = (failed \/ ~ok)
                                /\ pc' = "idle"
                                /\ UNCHANGED <<window, arg>>
    /\ UNCHANGED <<clst, damaged>>

------------------------------------------------------------------------------
(* Errors and interruptions.                                               *)

\* The card refuses a sector: the call ends with what it has done so far.
\* f_truncate sets FA_MODIFIED all the same, f_read and f_write do not.
DiskError ==
    /\ pc \notin Flushing
    /\ MoveFails
    /\ \/ pc \notin {"write", "link", "truncate"} /\ fp' = fp
       \/ pc \in {"write", "link", "truncate"} /\ fp' = [fp EXCEPT !.err = TRUE]
       \/ /\ Using
          /\ \E changed \in {FALSE, fp.write} :
                 fp' = [fp EXCEPT !.err = TRUE, !.modified = @ \/ changed]
    /\ damaged' = (damaged \/ pc \in Red)
    /\ failed' = TRUE
    /\ pc' = "idle" /\ clst' = Free /\ arg' = NoName

\* Power is lost, or the card is taken out and mount_volume finds it again:
\* only the card's contents are left.
Interrupt ==
    /\ Unload
    /\ fp' = NoFile
    /\ pc' = "idle" /\ clst' = Free /\ arg' = NoName
    /\ damaged' = (damaged \/ pc \in Red \/ exposed # {})
    /\ exposed' = {} /\ failed' = FALSE
    /\ UNCHANGED disk

Next ==
    \/ \E s \in Sectors : Scan(s)
    \/ \E n \in Names : CreateFile(n) \/ Overwrite(n) \/ Unlink(n)
    \/ \E n \in Names, w \in BOOLEAN : OpenFile(n, w)
    \/ \E next \in {"sync", "close"} : SyncEntry(next)
    \/ CloseClean \/ Flush \/ FlushFails
    \/ Rewind \/ FollowChain \/ Allocate \/ LinkCluster \/ DiskFull
    \/ TruncateTop \/ TruncateRest
    \/ \E old, new \in Names : RenameEntry(old, new)
    \/ RenameRemove \/ RemoveCluster \/ Removed
    \/ DiskError \/ Interrupt

Spec == Init /\ [][Next]_vars

------------------------------------------------------------------------------
(* Properties.                                                             *)

\* What an entry may hold, and a map of the entries in S.
Holds(e) == IF e \in Names THEN Clusters \cup {Free, Absent}
            ELSE Clusters \cup {Free, EOC}

Contents(S) == {f \in [S -> Values] : \A e \in S : f[e] \in Holds(e)}

FileObjects ==
    [name : Names \cup {NoName}, write : BOOLEAN,
     sclust : Clusters \cup {Free}, clust : Clusters \cup {Free},
     modified : BOOLEAN, err : BOOLEAN]

\* The types of the card, the window, the file object and the registers.
TypeOK ==
    /\ disk \in Contents(Entries)
    /\ winsect \in Sectors \cup {NoSector}
    /\ win \in Contents(InSector(winsect))
    /\ wflag \in BOOLEAN
    /\ fp \in FileObjects
    /\ pc \in {"idle", "write", "link"} \cup Flushing \cup Removing \cup Red
    /\ clst \in Clusters \cup {Free}
    /\ arg \in Names \cup {NoName}
    /\ exposed \subseteq Names
    /\ damaged \in BOOLEAN /\ failed \in BOOLEAN

\* Nothing points to a free cluster, and no two entries to the same one.
Consistent(v) ==
    /\ \A e \in Entries : v[e] \in Clusters => v[v[e]] # Free
    /\ \A d, e \in Entries : v[d] = v[e] /\ v[d] \in Clusters => d = e

\* The clusters reached from the start s: the least set that has s and, with a
\* cluster, the next one.  A file is its entry and its chain.
Closed(v, S) == \A c \in S : v[c] \in Clusters => v[c] \in S

Chain(v, s) ==
    {c \in Clusters : \A S \in SUBSET Clusters :
                         {s} \cap Clusters \subseteq S /\ Closed(v, S) => c \in S}

File(v, n) == <<v[n], [c \in Chain(v, v[n]) |-> v[c]]>>

\* Whatever is interrupted and whenever, the card never holds a cross link or
\* a link to a free cluster: create_chain marks before it links, f_open and
\* f_unlink change the directory before the FAT.  Two calls are excepted:
\* f_rename, as its comments say, and f_truncate to nothing until the file is
\* synced, of which they say nothing.
DiskConsistent ==
    ~damaged /\ pc \notin Red /\ exposed = {} => Consistent(disk)

\* The open file's current cluster, where f_write puts the data, belongs to
\* its own chain, and this chain to no other file: calls on other files in
\* between, errors and retries never free or hand out a cluster under it.
WritesOwnChain ==
    ~damaged /\ fp.name # NoName =>
        LET view == View
            own  == Chain(view, fp.sclust)
        IN  /\ fp.clust \in own \cup {Free}
            /\ pc # "rename" =>
                   \A n \in Names \ {fp.name} : Chain(view, view[n]) \cap own = {}

\* Only a call that names a file changes it: while its directory entry stays
\* the same, the chain of a file that is not open stays the same, whatever is
\* written, truncated, removed or renamed elsewhere and wherever that fails,
\* except within f_rename.
KeepsOtherFiles ==
    ~damaged' /\ (\E c \in Clusters : At(c)' # At(c)) /\ ~Interrupt =>
        LET before == View
            after  == View'
        IN  \A n \in Names \ {fp.name} :
                after[n] = before[n] => File(after, n) = File(before, n)

FilesKept == [][KeepsOtherFiles]_vars

\* Between two calls every file that is not open is on the card as the program
\* sees it, and a file that was closed with the chain it had when it was open,
\* so that an interruption costs at most the open file: what f_close, f_unlink
\* and f_rename report as done has been written back.  It holds until the card
\* reports its first error.
LeavesFilesOnDisk ==
    Idle' /\ ~failed' /\ ~damaged' =>
        /\ wflag' => LET after == View'
                     IN  \A n \in Names \ {fp'.name} :
                             File(disk', n) = File(after, n)
        /\ fp.name \notin {NoName, fp'.name} /\ ~Interrupt =>
               LET before == View
               IN  File(disk', fp.name)
                       = <<fp.sclust, [c \in Chain(before, fp.sclust) |-> before[c]]>>

ClosedIsOnDisk == [][LeavesFilesOnDisk]_vars

==============================================================================
