-------------------------- MODULE AtomicFileProofs --------------------------
(***************************************************************************)
(* atomic_write keeps its promise for any number of processes, writers and *)
(* saves, provided that no process has two writers and that the temporary  *)
(* file is synced before the rename.                                       *)
(***************************************************************************)
EXTENDS AtomicFile, TLAPS

LEMMA InitIInv == Init => IInv
<1> SUFFICES ASSUME Init PROVE IInv
  OBVIOUS
<1>1. TypeOK /\ DestIntact
  BY FileAssumption DEF Init, TypeOK, DestIntact
<1>2. WantKnown /\ OwnTmpOpen /\ NamesApart /\ RenamedWhole
  BY FileAssumption
  DEF Init, WantKnown, OwnTmpOpen, NamesApart, RenamedWhole
<1>3. DiskApart /\ DiskWhole
  BY FileAssumption DEF Init, DiskApart, DiskWhole
<1> QED
  BY <1>1, <1>2, <1>3 DEF IInv

LEMMA BeginStep ==
  ASSUME IInv, NEW w \in Writers, NEW c \in Contents, Begin(w, c)
  PROVE  IInv'
<1> USE FileAssumption DEF IInv, Begin, diskVars
<1>1. TypeOK' /\ DestIntact'
  BY DEF TypeOK, DestIntact
<1>2. WantKnown'
  BY DEF WantKnown, TypeOK
<1>3. OwnTmpOpen'
  BY DEF OwnTmpOpen, TypeOK
<1>4. NamesApart' /\ RenamedWhole'
  BY DEF NamesApart, RenamedWhole, TypeOK
<1>5. DiskApart' /\ DiskWhole'
  BY DEF DiskApart, DiskWhole, diskVars
<1> QED
  BY <1>1, <1>2, <1>3, <1>4, <1>5

LEMMA CreateStep ==
  ASSUME IInv, OneWriterPerProcess, NEW w \in Writers, Create(w)
  PROVE  IInv'
<1> USE FileAssumption DEF IInv
<1>1. PICK i \in Inodes :
        /\ i = tmp[pid[w]] \/ (tmp[pid[w]] = None /\ i \notin InUse)
        /\ fd' = [fd EXCEPT ![w] = i]
        /\ tmp' = [tmp EXCEPT ![pid[w]] = i]
        /\ data' = [data EXCEPT ![i] = Torn]
        /\ synced' = synced \ {i}
  <2>1. tmp[pid[w]] \in Inodes \cup {None}
    BY DEF TypeOK
  <2>2. CASE tmp[pid[w]] = None
    BY <2>2 DEF Create
  <2>3. CASE tmp[pid[w]] # None
    BY <2>1, <2>3 DEF Create
  <2> QED
    BY <2>2, <2>3
<1>2. /\ pc[w] = "create" /\ pc' = [pc EXCEPT ![w] = "write"]
      /\ UNCHANGED <<dest, want, diskDest, diskTmp>>
  BY DEF Create, diskVars
<1>3. pid[w] \in Pids /\ \A v \in Writers : pid[v] \in Pids
  OBVIOUS
<1>4. /\ i # dest /\ i # diskDest
      /\ \A p \in Pids : tmp[p] = i => p = pid[w]
  <2>1. CASE i = tmp[pid[w]]
    BY <1>3, <2>1 DEF NamesApart, DiskApart, TypeOK
  <2>2. CASE i \notin InUse
    <3>1. \A p \in Pids : tmp[p] \in InUse
      BY DEF InUse, Range, TypeOK
    <3> QED
      BY <2>2, <3>1 DEF InUse
  <2> QED
    BY <1>1, <2>1, <2>2
<1>5. \A v \in Writers : v # w => fd[v] # i
  <2> SUFFICES ASSUME NEW v \in Writers, v # w, fd[v] = i PROVE FALSE
    OBVIOUS
  <2>1. pid[v] # pid[w]
    BY DEF OneWriterPerProcess
  <2>2. fd[v] = tmp[pid[v]]
    BY DEF OwnTmpOpen
  <2> QED
    BY <1>3, <1>4, <2>1, <2>2
<1>6. TypeOK'
  BY <1>1, <1>2 DEF TypeOK
<1>7. DestIntact'
  BY <1>1, <1>2, <1>4 DEF DestIntact, TypeOK
<1>8. WantKnown'
  BY <1>2 DEF WantKnown, TypeOK
<1>9. OwnTmpOpen'
  <2> SUFFICES ASSUME NEW v \in Writers
               PROVE  (IF pc[v] \in {"write", "sync", "rename"}
                       THEN fd[v] = tmp[pid[v]] /\ fd[v] # None
                       ELSE fd[v] = None)'
    BY DEF OwnTmpOpen
  <2>1. CASE v = w
    BY <1>1, <1>2, <2>1 DEF TypeOK
  <2>2. CASE v # w
    <3>1. pid[v] # pid[w]
      BY <2>2 DEF OneWriterPerProcess
    <3>2. fd'[v] = fd[v] /\ pc'[v] = pc[v] /\ tmp'[pid[v]] = tmp[pid[v]]
      BY <1>1, <1>2, <2>2, <3>1 DEF TypeOK
    <3> QED
      BY <3>2 DEF OwnTmpOpen
  <2> QED
    BY <2>1, <2>2
<1>10. NamesApart'
  BY <1>1, <1>2, <1>4 DEF NamesApart, TypeOK
<1>11. RenamedWhole'
  BY <1>1, <1>2, <1>4, <1>5 DEF RenamedWhole, TypeOK
<1>12. DiskApart' /\ DiskWhole'
  BY <1>1, <1>2, <1>4 DEF DiskApart, DiskWhole, TypeOK
<1> QED
  BY <1>6, <1>7, <1>8, <1>9, <1>10, <1>11, <1>12

LEMMA WriteStep ==
  ASSUME IInv, OneWriterPerProcess, Fsync = TRUE, NEW w \in Writers, Write(w)
  PROVE  IInv'
<1> USE FileAssumption DEF IInv
<1>1. pc[w] = "write" /\ fd[w] = tmp[pid[w]] /\ fd[w] \in Inodes
  BY DEF Write, OwnTmpOpen, TypeOK
<1>2. \A v \in Writers : v # w => fd[v] # fd[w]
  <2> SUFFICES ASSUME NEW v \in Writers, v # w, fd[v] = fd[w] PROVE FALSE
    OBVIOUS
  <2>1. pid[v] # pid[w]
    BY DEF OneWriterPerProcess
  <2>2. fd[v] = tmp[pid[v]]
    BY <1>1 DEF OwnTmpOpen
  <2> QED
    BY <1>1, <2>1, <2>2 DEF NamesApart
<1>3. /\ data' = [data EXCEPT ![fd[w]] = want[w]]
      /\ synced' = synced \ {fd[w]}
      /\ pc' = [pc EXCEPT ![w] = "sync"]
      /\ UNCHANGED <<dest, tmp, fd, want, diskDest, diskTmp>>
  BY <1>2 DEF Write, diskVars
<1>4. fd[w] # dest /\ fd[w] # diskDest /\ want[w] \in Contents
  BY <1>1 DEF NamesApart, DiskApart, WantKnown, TypeOK
<1>5. TypeOK'
  BY <1>3, <1>4 DEF TypeOK
<1>6. DestIntact'
  BY <1>3, <1>4 DEF DestIntact, TypeOK
<1>7. WantKnown' /\ NamesApart'
  BY <1>1, <1>3 DEF WantKnown, NamesApart, TypeOK
<1>8. OwnTmpOpen'
  BY <1>1, <1>3 DEF OwnTmpOpen, TypeOK
<1>9. RenamedWhole'
  BY <1>1, <1>2, <1>3, <1>4 DEF RenamedWhole, TypeOK
<1>10. DiskApart' /\ DiskWhole'
  BY <1>1, <1>3, <1>4 DEF DiskApart, DiskWhole, TypeOK
<1> QED
  BY <1>5, <1>6, <1>7, <1>8, <1>9, <1>10

LEMMA SyncStep ==
  ASSUME IInv, NEW w \in Writers, Sync(w)
  PROVE  IInv'
<1> USE FileAssumption DEF IInv, Sync, diskVars
<1>1. pc[w] = "sync" /\ fd[w] \in Inodes
  BY DEF OwnTmpOpen, TypeOK
<1>2. TypeOK' /\ DestIntact'
  BY <1>1 DEF TypeOK, DestIntact
<1>3. WantKnown' /\ NamesApart'
  BY <1>1 DEF WantKnown, NamesApart, TypeOK
<1>4. OwnTmpOpen'
  BY <1>1 DEF OwnTmpOpen, TypeOK
<1>5. RenamedWhole'
  BY <1>1 DEF RenamedWhole, TypeOK
<1>6. DiskApart' /\ DiskWhole'
  BY <1>1 DEF DiskApart, DiskWhole
<1> QED
  BY <1>2, <1>3, <1>4, <1>5, <1>6

(* Leaving touches nothing but the writer's own state. *)
LEMMA LeaveStep ==
  ASSUME IInv, NEW W \in SUBSET Writers, Leave(W),
         UNCHANGED <<dest, data, synced, diskVars>>,
         tmp' = tmp \/ \E w \in W : /\ tmp' = [tmp EXCEPT ![pid[w]] = None]
                                    /\ OneWriterPerProcess
  PROVE  IInv'
<1> USE FileAssumption DEF IInv, diskVars
<1>1. TypeOK'
  BY DEF TypeOK, Leave
<1>2. DestIntact'
  BY DEF DestIntact
<1>3. WantKnown'
  BY DEF WantKnown, Leave, TypeOK
<1>4. OwnTmpOpen'
  <2> SUFFICES ASSUME NEW v \in Writers
               PROVE  (IF pc[v] \in {"write", "sync", "rename"}
                       THEN fd[v] = tmp[pid[v]] /\ fd[v] # None
                       ELSE fd[v] = None)'
    BY DEF OwnTmpOpen
  <2>1. CASE v \in W
    BY <2>1 DEF Leave
  <2>2. CASE v \notin W
    <3>1. tmp'[pid[v]] = tmp[pid[v]]
      BY <2>2 DEF OneWriterPerProcess, TypeOK
    <3>2. fd'[v] = fd[v] /\ pc'[v] = pc[v]
      BY <2>2 DEF Leave
    <3> QED
      BY <3>1, <3>2 DEF OwnTmpOpen
  <2> QED
    BY <2>1, <2>2
<1>5. NamesApart'
  BY DEF NamesApart, TypeOK
<1>6. RenamedWhole'
  BY DEF RenamedWhole, Leave, TypeOK
<1>7. DiskApart' /\ DiskWhole'
  BY DEF DiskApart, DiskWhole, TypeOK
<1> QED
  BY <1>1, <1>2, <1>3, <1>4, <1>5, <1>6, <1>7

LEMMA RenameStep ==
  ASSUME IInv, OneWriterPerProcess, NEW w \in Writers, Rename(w)
  PROVE  IInv' /\ data'[dest'] = want[w]
<1> USE FileAssumption DEF IInv
<1>1. /\ fd[w] = tmp[pid[w]] /\ fd[w] \in Inodes
      /\ data[fd[w]] = want[w] /\ fd[w] \in synced /\ want[w] \in Contents
  BY DEF Rename, OwnTmpOpen, RenamedWhole, WantKnown, TypeOK
<1>2. /\ dest' = fd[w]
      /\ tmp' = [tmp EXCEPT ![pid[w]] = None]
      /\ Leave({w})
      /\ UNCHANGED <<data, synced, diskDest, diskTmp>>
  BY <1>1 DEF Rename, diskVars
<1>3. data'[dest'] = want[w]
  BY <1>1, <1>2
<1>4. TypeOK'
  BY <1>1, <1>2 DEF TypeOK, Leave
<1>5. DestIntact'
  BY <1>1, <1>3 DEF DestIntact
<1>6. WantKnown'
  BY <1>2 DEF WantKnown, Leave, TypeOK
<1>7. OwnTmpOpen'
  <2> SUFFICES ASSUME NEW v \in Writers
               PROVE  (IF pc[v] \in {"write", "sync", "rename"}
                       THEN fd[v] = tmp[pid[v]] /\ fd[v] # None
                       ELSE fd[v] = None)'
    BY DEF OwnTmpOpen
  <2>1. CASE v = w
    BY <1>2, <2>1 DEF Leave
  <2>2. CASE v # w
    <3>1. tmp'[pid[v]] = tmp[pid[v]]
      BY <1>2, <2>2 DEF OneWriterPerProcess, TypeOK
    <3>2. fd'[v] = fd[v] /\ pc'[v] = pc[v]
      BY <1>2, <2>2 DEF Leave
    <3> QED
      BY <3>1, <3>2 DEF OwnTmpOpen
  <2> QED
    BY <2>1, <2>2
<1>8. NamesApart'
  BY <1>1, <1>2 DEF NamesApart, TypeOK
<1>9. RenamedWhole'
  BY <1>1, <1>2 DEF RenamedWhole, Leave, TypeOK
<1>10. DiskApart' /\ DiskWhole'
  BY <1>1, <1>2 DEF DiskApart, DiskWhole, TypeOK
<1> QED
  BY <1>3, <1>4, <1>5, <1>6, <1>7, <1>8, <1>9, <1>10

(* What the directory on disk names is whole, for good. *)
LEMMA DirReachesDiskStep ==
  ASSUME IInv, DirReachesDisk
  PROVE  IInv'
<1> USE FileAssumption DEF IInv, DirReachesDisk, writerVars
<1>1. TypeOK' /\ DestIntact'
  BY DEF TypeOK, DestIntact
<1>2. WantKnown' /\ OwnTmpOpen' /\ NamesApart' /\ RenamedWhole'
  BY DEF WantKnown, OwnTmpOpen, NamesApart, RenamedWhole
<1>3. DiskApart' /\ DiskWhole'
  BY DEF DiskApart, DiskWhole, NamesApart, RenamedWhole, DestIntact
<1> QED
  BY <1>1, <1>2, <1>3

LEMMA PowerFailsStep ==
  ASSUME IInv, PowerFails
  PROVE  IInv' /\ data'[dest'] = data[diskDest] /\ diskDest' = diskDest
<1> USE FileAssumption DEF IInv
<1>1. PICK lost \in SUBSET (Inodes \ synced) :
        data' = [i \in Inodes |-> IF i \in lost THEN Torn ELSE data[i]]
  BY DEF PowerFails
<1>2. /\ Leave(Writers) /\ synced' = Inodes
      /\ dest' = diskDest /\ tmp' = diskTmp
      /\ UNCHANGED <<diskDest, diskTmp>>
  BY DEF PowerFails, diskVars
<1>3. data'[dest'] = data[diskDest]
  BY <1>1, <1>2 DEF DiskWhole, TypeOK
<1>4. TypeOK'
  BY <1>1, <1>2 DEF TypeOK, Leave
<1>5. DestIntact' /\ DiskWhole'
  BY <1>2, <1>3, <1>4 DEF DestIntact, DiskWhole, TypeOK
<1>6. WantKnown' /\ OwnTmpOpen'
  BY <1>2 DEF WantKnown, OwnTmpOpen, Leave, TypeOK
<1>7. NamesApart' /\ DiskApart'
  BY <1>2 DEF NamesApart, DiskApart
<1>8. RenamedWhole'
  BY <1>2, <1>4 DEF RenamedWhole, Leave, TypeOK
<1> QED
  BY <1>2, <1>3, <1>4, <1>5, <1>6, <1>7, <1>8

-----------------------------------------------------------------------------
LEMMA IInvStep ==
  ASSUME OneWriterPerProcess, Fsync = TRUE, IInv, [Next]_vars
  PROVE  IInv'
<1>1. ASSUME NEW w \in Writers, NEW c \in Contents, Begin(w, c) PROVE IInv'
  BY <1>1, BeginStep
<1>2. ASSUME NEW w \in Writers, Create(w) PROVE IInv'
  BY <1>2, CreateStep
<1>3. ASSUME NEW w \in Writers, Write(w) PROVE IInv'
  BY <1>3, WriteStep
<1>4. ASSUME NEW w \in Writers, Sync(w) PROVE IInv'
  BY <1>4, SyncStep
<1>5. ASSUME NEW w \in Writers, Fail(w) PROVE IInv'
  BY <1>5, LeaveStep DEF Fail
<1>6. ASSUME NEW w \in Writers, Rename(w) PROVE IInv'
  BY <1>6, RenameStep
<1>7. ASSUME NEW w \in Writers, RenameFails(w) PROVE IInv'
  BY <1>7, LeaveStep DEF RenameFails
<1>8. ASSUME NEW p \in Pids, Crash(p) PROVE IInv'
  BY <1>8, LeaveStep DEF Crash
<1>9. CASE DirReachesDisk
  BY <1>9, DirReachesDiskStep
<1>10. CASE PowerFails
  BY <1>10, PowerFailsStep
<1>11. CASE UNCHANGED vars
  <2>1. TypeOK' /\ DestIntact' /\ WantKnown' /\ OwnTmpOpen'
    BY <1>11 DEF vars, writerVars, diskVars, IInv, TypeOK, DestIntact,
                 WantKnown, OwnTmpOpen
  <2>2. NamesApart' /\ RenamedWhole' /\ DiskApart' /\ DiskWhole'
    BY <1>11 DEF vars, writerVars, diskVars, IInv, NamesApart,
                 RenamedWhole, DiskApart, DiskWhole
  <2> QED
    BY <2>1, <2>2 DEF IInv
<1> QED
  BY <1>1, <1>2, <1>3, <1>4, <1>5, <1>6, <1>7, <1>8, <1>9, <1>10, <1>11
  DEF Next

THEOREM InductiveInvariant ==
  ASSUME OneWriterPerProcess, Fsync = TRUE
  PROVE  Spec => []IInv
<1>1. IInv /\ [Next]_vars => IInv'
  BY IInvStep
<1> QED
  BY InitIInv, <1>1, PTL DEF Spec

(* Nobody ever reads a partial file. *)
THEOREM NeverPartial ==
  ASSUME OneWriterPerProcess, Fsync = TRUE
  PROVE  Spec => []DestIntact
<1>1. IInv => DestIntact
  BY DEF IInv
<1> QED
  BY <1>1, InductiveInvariant, PTL

-----------------------------------------------------------------------------
LEMMA InitRegister == Init => Reg!Init
<1> SUFFICES ASSUME Init PROVE Reg!Init
  OBVIOUS
<1> QED
  BY FileAssumption DEF Init, Reg!Init, Reg!Idle

LEMMA RegisterStep ==
  ASSUME OneWriterPerProcess, Fsync = TRUE, IInv, [Next]_vars
  PROVE  [Reg!Next]_(Reg!vars)
<1> SUFFICES Reg!Next \/ UNCHANGED Reg!vars
  OBVIOUS
<1> USE FileAssumption
<1>1. ASSUME NEW w \in Writers, NEW c \in Contents, Begin(w, c)
      PROVE  Reg!Save(w, c)
  <2>1. want[w] = NoContents
    BY <1>1 DEF Begin, IInv, WantKnown
  <2> QED
    BY <1>1, <2>1 DEF Begin, Reg!Save, diskVars
<1>2. ASSUME NEW w \in Writers, Create(w) \/ Write(w) \/ Sync(w)
      PROVE  UNCHANGED Reg!vars
  <2>1. CASE Create(w)
    <3>1. PICK i \in Inodes :
            /\ i = tmp[pid[w]] \/ (tmp[pid[w]] = None /\ i \notin InUse)
            /\ data' = [data EXCEPT ![i] = Torn]
      BY <2>1 DEF Create, IInv, TypeOK
    <3>2. i # dest /\ i # diskDest
      BY <3>1 DEF InUse, IInv, NamesApart, DiskApart
    <3> QED
      BY <2>1, <3>1, <3>2 DEF Create, Reg!vars, IInv, TypeOK, diskVars
  <2>2. CASE Write(w)
    <3>1. fd[w] # dest /\ fd[w] # diskDest
      BY <2>2 DEF Write, IInv, OwnTmpOpen, NamesApart, DiskApart, TypeOK
    <3>2. PICK d : data' = [data EXCEPT ![fd[w]] = d]
      BY <2>2 DEF Write
    <3> QED
      BY <2>2, <3>1, <3>2 DEF Write, Reg!vars, IInv, TypeOK, diskVars
  <2>3. CASE Sync(w)
    BY <2>3 DEF Sync, Reg!vars, diskVars
  <2> QED
    BY <1>2, <2>1, <2>2, <2>3
<1>3. ASSUME NEW W \in SUBSET Writers, Leave(W),
             UNCHANGED <<dest, data, diskVars>>
      PROVE  Reg!Forget(W)
  BY <1>3 DEF Leave, Reg!Forget, diskVars
<1>4. ASSUME NEW w \in Writers, Fail(w)
      PROVE  Reg!Forget({w})
  BY <1>3, <1>4 DEF Fail
<1>5. ASSUME NEW w \in Writers, Rename(w)
      PROVE  Reg!Publish(w)
  <2>1. data'[dest'] = want[w]
    BY <1>5, RenameStep
  <2>2. want[w] # NoContents
    BY <1>5 DEF Rename, IInv, WantKnown
  <2>3. want' = [want EXCEPT ![w] = NoContents]
    BY <1>5 DEF Rename, Leave, IInv, TypeOK
  <2>4. data'[diskDest'] = data[diskDest]
    BY <1>5 DEF Rename, diskVars
  <2> QED
    BY <2>1, <2>2, <2>3, <2>4 DEF Reg!Publish
<1>6. ASSUME NEW w \in Writers, RenameFails(w)
      PROVE  Reg!Forget({w})
  BY <1>3, <1>6 DEF RenameFails
<1>7. ASSUME NEW p \in Pids, Crash(p)
      PROVE  Reg!Forget({w \in Writers : pid[w] = p})
  <2> DEFINE W == {w \in Writers : pid[w] = p}
  <2>1. /\ W \in SUBSET Writers /\ Leave(W)
        /\ UNCHANGED <<dest, data, diskVars>>
    BY <1>7 DEF Crash
  <2> QED
    BY <1>3, <2>1
<1>8. ASSUME PowerFails
      PROVE  Reg!PowerFails
  <2>1. /\ data'[dest'] = data[diskDest] /\ dest' = diskDest
        /\ diskDest' = diskDest
    BY <1>8, PowerFailsStep DEF PowerFails
  <2>2. want' = [w \in Writers |-> NoContents]
    BY <1>8 DEF PowerFails, Leave
  <2> QED
    BY <2>1, <2>2 DEF Reg!PowerFails, Reg!Idle
<1>9. ASSUME DirReachesDisk
      PROVE  Reg!Settle
  BY <1>9 DEF DirReachesDisk, writerVars, Reg!Settle
<1>10. CASE UNCHANGED vars
  BY <1>10 DEF vars, writerVars, diskVars, Reg!vars
<1> QED
  <2>1. ASSUME NEW w \in Writers, Fail(w) \/ RenameFails(w) PROVE Reg!Next
    BY <1>4, <1>6, <2>1 DEF Reg!Next
  <2>2. ASSUME NEW p \in Pids, Crash(p) PROVE Reg!Next
    BY <1>7, <2>2 DEF Reg!Next
  <2>3. ASSUME PowerFails \/ DirReachesDisk PROVE Reg!Next
    BY <1>8, <1>9, <2>3 DEF Reg!Next
  <2>4. ASSUME NEW w \in Writers, NEW c \in Contents, Begin(w, c) PROVE Reg!Next
    BY <1>1, <2>4 DEF Reg!Next
  <2>5. ASSUME NEW w \in Writers, Rename(w) PROVE Reg!Next
    BY <1>5, <2>5 DEF Reg!Next
  <2> QED
    BY <1>2, <1>10, <2>1, <2>2, <2>3, <2>4, <2>5 DEF Next

(* A save by a process that has one writer at a time is a single step that *)
(* replaces the whole file, or no step at all; a loss of power undoes all  *)
(* the saves since the last that had reached the disk, and is the only     *)
(* step to undo any.                                                       *)
THEOREM SavesAreAtomic ==
  ASSUME OneWriterPerProcess, Fsync = TRUE
  PROVE  Spec => ImplementsRegister
<1>1. IInv /\ [Next]_vars => [Reg!Next]_(Reg!vars)
  BY RegisterStep
<1> QED
  BY InitRegister, <1>1, InductiveInvariant, PTL
  DEF Spec, ImplementsRegister, Reg!Spec
=============================================================================
