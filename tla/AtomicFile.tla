----------------------------- MODULE AtomicFile -----------------------------
(***************************************************************************)
(* atomic_write of app/src/config.rs (and its copies in autolaunch.rs and  *)
(* in pfusers/src/config.rs): several writers replace one file through a   *)
(* temporary file named after the process id, with fsync and rename.       *)
(*                                                                         *)
(* A writer is a thread that can be inside atomic_write; writers of one    *)
(* process share its temporary name.  Names point to inodes as in the      *)
(* file system: File::create truncates the inode a name points to, an open *)
(* descriptor keeps writing to its inode whatever becomes of the name, and *)
(* rename repoints the destination.  An inode that is not synced may lose  *)
(* its data when the power fails; and as atomic_write never syncs the      *)
(* directory, names reach the disk only when the file system writes them   *)
(* out, and a loss of power brings back those it had written out last.     *)
(***************************************************************************)
EXTENDS FiniteSets

CONSTANTS
  Writers,     \* threads that save
  Pids,        \* process ids
  pid,         \* pid[w]: the process of w
  Inodes,      \* as many as can be in use at once
  Contents,    \* what can be saved
  NoContents,  \* an idle writer's contents
  Torn,        \* data that is no whole save: truncated, partial or mixed
  None,        \* no inode
  Fsync        \* does the writer sync before the rename?

ASSUME FileAssumption ==
  /\ pid \in [Writers -> Pids]
  /\ Torn \notin Contents
  /\ NoContents \notin Contents
  /\ None \notin Inodes
  /\ Inodes # {}
  /\ Fsync \in BOOLEAN

VARIABLES
  dest,     \* the inode the destination names
  tmp,      \* tmp[p]: the inode process p's temporary name points to
  data,     \* data[i]: what inode i holds
  synced,   \* the inodes whose data is on disk
  diskDest, \* dest as the directory on disk has it
  diskTmp,  \* tmp as the directory on disk has it
  pc,       \* pc[w]: how far w is in atomic_write
  fd,       \* fd[w]: the inode w has open
  want      \* want[w]: what w is saving

writerVars == <<pc, fd, want>>
diskVars == <<diskDest, diskTmp>>
vars == <<dest, tmp, data, synced, diskVars, writerVars>>

Range(f) == {f[x] : x \in DOMAIN f}

(* What no name and no descriptor has is free again, but only once the     *)
(* directory on disk does not name it either.                              *)
InUse == {dest, diskDest} \cup Range(tmp) \cup Range(diskTmp) \cup Range(fd)

Init ==
  /\ dest \in Inodes
  /\ \E c \in Contents : data = [i \in Inodes |-> c]
  /\ synced = Inodes
  /\ tmp = [p \in Pids |-> None]
  /\ diskDest = dest
  /\ diskTmp = tmp
  /\ pc = [w \in Writers |-> "idle"]
  /\ fd = [w \in Writers |-> None]
  /\ want = [w \in Writers |-> NoContents]

(* save: serialise, and call atomic_write. *)
Begin(w, c) ==
  /\ pc[w] = "idle"
  /\ pc' = [pc EXCEPT ![w] = "create"]
  /\ want' = [want EXCEPT ![w] = c]
  /\ UNCHANGED <<dest, tmp, data, synced, fd, diskVars>>

(* The writers W leave atomic_write, or die in it. *)
Leave(W) ==
  /\ pc' = [w \in Writers |-> IF w \in W THEN "idle" ELSE pc[w]]
  /\ fd' = [w \in Writers |-> IF w \in W THEN None ELSE fd[w]]
  /\ want' = [w \in Writers |-> IF w \in W THEN NoContents ELSE want[w]]

(* File::create: a left-over temporary file of that name is truncated. *)
Create(w) ==
  /\ pc[w] = "create"
  /\ \E i \in IF tmp[pid[w]] = None THEN Inodes \ InUse ELSE {tmp[pid[w]]} :
       /\ fd' = [fd EXCEPT ![w] = i]
       /\ tmp' = [tmp EXCEPT ![pid[w]] = i]
       /\ data' = [data EXCEPT ![i] = Torn]
       /\ synced' = synced \ {i}
  /\ pc' = [pc EXCEPT ![w] = "write"]
  /\ UNCHANGED <<dest, want, diskVars>>

(* write_all.  Two writers with their descriptors on one inode may leave   *)
(* the shorter contents with the tail of the longer.                       *)
Write(w) ==
  /\ pc[w] = "write"
  /\ LET shared == \E v \in Writers \ {w} : fd[v] = fd[w]
     IN  \E d \in IF shared THEN {want[w], Torn} ELSE {want[w]} :
           data' = [data EXCEPT ![fd[w]] = d]
  /\ synced' = synced \ {fd[w]}
  /\ pc' = [pc EXCEPT ![w] = IF Fsync THEN "sync" ELSE "rename"]
  /\ UNCHANGED <<dest, tmp, fd, want, diskVars>>

(* Mutant: sync_all is forgotten. *)
SyncSkipped(w) ==
  /\ pc[w] = "sync"
  /\ pc' = [pc EXCEPT ![w] = "rename"]
  /\ UNCHANGED <<dest, tmp, data, synced, fd, want, diskVars>>

Sync(w) ==
  /\ pc[w] = "sync"
  /\ synced' = synced \cup {fd[w]}
  /\ pc' = [pc EXCEPT ![w] = "rename"]
  /\ UNCHANGED <<dest, tmp, data, fd, want, diskVars>>

(* Mutant: a write error is ignored. *)
FailIgnored(w) ==
  /\ pc[w] = "write"
  /\ pc' = [pc EXCEPT ![w] = "rename"]
  /\ UNCHANGED <<dest, tmp, data, synced, fd, want, diskVars>>

(* `?` on create, write_all or sync_all: the temporary file stays behind.  *)
Fail(w) ==
  /\ pc[w] \in {"create", "write", "sync"}
  /\ Leave({w})
  /\ UNCHANGED <<dest, tmp, data, synced, diskVars>>

(* The name is looked up now: it may be gone, taken by another writer of   *)
(* this process.                                                           *)
Rename(w) ==
  /\ pc[w] = "rename"
  /\ tmp[pid[w]] # None
  /\ dest' = tmp[pid[w]]
  /\ tmp' = [tmp EXCEPT ![pid[w]] = None]
  /\ Leave({w})
  /\ UNCHANGED <<data, synced, diskVars>>

(* rename fails: the temporary file is removed, if it is there. *)
RenameFails(w) ==
  /\ pc[w] = "rename"
  /\ tmp' = [tmp EXCEPT ![pid[w]] = None]
  /\ Leave({w})
  /\ UNCHANGED <<dest, data, synced, diskVars>>

(* The process is killed, or panics: its descriptors close. *)
Crash(p) ==
  /\ Leave({w \in Writers : pid[w] = p})
  /\ UNCHANGED <<dest, tmp, data, synced, diskVars>>

(* Nobody asks for it: the file system writes the directory out.           *)
DirReachesDisk ==
  /\ diskDest' = dest
  /\ diskTmp' = tmp
  /\ UNCHANGED <<dest, tmp, data, synced, writerVars>>

(* The names are those that had reached the disk: a rename since then is   *)
(* undone, whether or not its save has returned.                           *)
PowerFails ==
  /\ Leave(Writers)
  /\ dest' = diskDest
  /\ tmp' = diskTmp
  /\ \E lost \in SUBSET (Inodes \ synced) :
       data' = [i \in Inodes |-> IF i \in lost THEN Torn ELSE data[i]]
  /\ synced' = Inodes
  /\ UNCHANGED diskVars

Next ==
  \/ \E w \in Writers, c \in Contents : Begin(w, c)
  \/ \E w \in Writers : Create(w)
  \/ \E w \in Writers : Write(w)
  \/ \E w \in Writers : Sync(w)
  \/ \E w \in Writers : Fail(w)
  \/ \E w \in Writers : Rename(w)
  \/ \E w \in Writers : RenameFails(w)
  \/ \E p \in Pids : Crash(p)
  \/ DirReachesDisk
  \/ PowerFails

Spec == Init /\ [][Next]_vars

-----------------------------------------------------------------------------
TypeOK ==
  /\ dest \in Inodes
  /\ tmp \in [Pids -> Inodes \cup {None}]
  /\ data \in [Inodes -> Contents \cup {Torn}]
  /\ synced \in SUBSET Inodes
  /\ diskDest \in Inodes
  /\ diskTmp \in [Pids -> Inodes \cup {None}]
  /\ pc \in [Writers -> {"idle", "create", "write", "sync", "rename"}]
  /\ fd \in [Writers -> Inodes \cup {None}]
  /\ want \in [Writers -> Contents \cup {NoContents}]

(* The file either has the old contents or the full new contents, never    *)
(* partial (config.rs 274-275).                                            *)
DestIntact == data[dest] # Torn

(* Every save by a process that has one writer at a time is a step of      *)
(* Register: nobody ever reads a half-saved file, a save publishes its own *)
(* contents, a crash between two steps publishes nothing, and a loss of    *)
(* power leaves the whole contents of the last save whose rename was on    *)
(* disk, which need not be the last one that returned.                     *)
Reg == INSTANCE Register
         WITH content <- data[dest], durable <- data[diskDest], request <- want

ImplementsRegister == Reg!Spec

OneWriterPerProcess == \A v, w \in Writers : pid[v] = pid[w] => v = w

(* Why: a writer in atomic_write has its own temporary file open, no two  *)
(* names share an inode, neither now nor after a loss of power, and what   *)
(* can be renamed is whole and on disk.                                    *)
WantKnown ==
  \A w \in Writers : (pc[w] = "idle") <=> (want[w] = NoContents)

OwnTmpOpen ==
  \A w \in Writers :
    IF pc[w] \in {"write", "sync", "rename"}
    THEN fd[w] = tmp[pid[w]] /\ fd[w] # None
    ELSE fd[w] = None

NamesApart ==
  /\ \A p \in Pids : tmp[p] # dest
  /\ \A p, q \in Pids : tmp[p] = tmp[q] /\ tmp[p] # None => p = q

RenamedWhole ==
  /\ \A w \in Writers : pc[w] \in {"sync", "rename"} => data[fd[w]] = want[w]
  /\ \A w \in Writers : pc[w] = "rename" => fd[w] \in synced
  /\ dest \in synced

(* What a loss of power brings back: a destination that is whole, on disk, *)
(* and nobody's temporary file since.                                      *)
DiskApart ==
  /\ \A p \in Pids : tmp[p] # diskDest /\ diskTmp[p] # diskDest
  /\ \A p, q \in Pids : diskTmp[p] = diskTmp[q] /\ diskTmp[p] # None => p = q

DiskWhole ==
  /\ data[diskDest] # Torn
  /\ diskDest \in synced

IInv ==
  /\ TypeOK /\ DestIntact /\ WantKnown /\ OwnTmpOpen
  /\ NamesApart /\ RenamedWhole /\ DiskApart /\ DiskWhole
=============================================================================
