-------------------------- MODULE RouterConfigProofs --------------------------
(***************************************************************************)
(* For any number of operations, users and data, whatever overlaps, drops  *)
(* or comes late: a whole config.xml gives no uid twice, because every     *)
(* configuration there is (in a file, a snapshot, an operation or the      *)
(* input of a command) is sound or torn; and once config.xml is torn, a    *)
(* whole snapshot is kept.  While nothing overlaps or drops, the operation *)
(* at work finds the router as it left it (Undisturbed): what it reports   *)
(* is what it has done.                                                    *)
(***************************************************************************)
EXTENDS RouterConfig, FiniteSetTheorems, TLAPS

(* A configuration whose uids are unique and below the next one. *)
Sound(c) ==
  /\ c.next \in Nat
  /\ DOMAIN c.users \subseteq Names
  /\ \A n \in DOMAIN c.users :
       c.users[n].uid \in Nat /\ c.users[n].uid < c.next
  /\ \A n, m \in DOMAIN c.users : c.users[n].uid = c.users[m].uid => n = m

Good(c) == c = Torn \/ Sound(c)

IsRequest(r) == r.kind \in {"add", "update", "delete"} /\ r.name \in Names

LEMMA RequestType ==
  ASSUME NEW r \in Requests
  PROVE  IsRequest(r)
BY DEF Requests, IsRequest

(* The mutations keep a configuration sound. *)
LEMMA MutatedSound ==
  ASSUME NEW c, NEW r, Sound(c), IsRequest(r), Allowed(c, r)
  PROVE  Sound(Mutated(c, r))
<1> DEFINE new == Mutated(c, r)
<1>1. CASE r.kind = "delete"
  <2>1. new.next = c.next /\ new.users = Rest(c, r)
    BY <1>1 DEF Mutated
  <2>2. /\ DOMAIN new.users = DOMAIN c.users \ {r.name}
        /\ \A n \in DOMAIN new.users : new.users[n] = c.users[n]
    BY <2>1 DEF Rest, Restrict
  <2> QED
    BY <2>1, <2>2 DEF Sound
<1>2. CASE r.kind = "add"
  <2>1. /\ new.next = c.next + 1
        /\ new.users = Put(c.users, r.name, [uid |-> c.next, data |-> r.data])
    BY <1>2 DEF Mutated, Row, Uid
  <2>2. /\ DOMAIN new.users = DOMAIN c.users \cup {r.name}
        /\ new.users[r.name].uid = c.next
        /\ \A n \in DOMAIN c.users : new.users[n] = c.users[n]
    BY <1>2, <2>1 DEF Put, Allowed
  <2> QED
    BY <2>1, <2>2 DEF Sound, IsRequest
<1>3. CASE r.kind = "update"
  <2>1. r.name \in DOMAIN c.users
    BY <1>3 DEF Allowed
  <2>2. /\ new.next = c.next
        /\ new.users = Put(c.users, r.name,
                           [uid |-> c.users[r.name].uid, data |-> r.data])
    BY <1>3 DEF Mutated, Row, Uid
  <2>3. /\ DOMAIN new.users = DOMAIN c.users
        /\ \A n \in DOMAIN c.users : new.users[n].uid = c.users[n].uid
    BY <2>1, <2>2 DEF Put
  <2> QED
    BY <2>2, <2>3 DEF Sound
<1> QED
  BY <1>1, <1>2, <1>3 DEF IsRequest

-----------------------------------------------------------------------------
Pcs ==
  Ended \cup {"idle", "snapshot", "write", "writing", "verify", "rollback",
              "rollingBack", "account", "keys", "lock"}

OpsType ==
  /\ pc \in [Ops -> Pcs]
  /\ shell \in [Ops -> {"none", "cat", "mv", "cp"}]
  /\ fd \in [Ops -> {"none", "tmp", "conf", "lost"}]
  /\ DOMAIN job = Ops /\ DOMAIN snap = Ops /\ DOMAIN input = Ops

(* Every configuration that can still come into a file. *)
AllGood ==
  /\ Good(conf)
  /\ tmp = Absent \/ Good(tmp)
  /\ \A p \in Ops :
       /\ fd[p] \in {"tmp", "conf"} => shell[p] \in {"cat", "cp"}
       /\ shell[p] \in {"cat", "cp"} => Good(input[p])
       /\ pc[p] \in {"snapshot", "write"} =>
            /\ Sound(job[p].base)
            /\ Allowed(job[p].base, job[p].req)
       /\ pc[p] \in {"snapshot", "write", "writing", "verify", "account"} =>
            IsRequest(job[p].req)
       /\ pc[p] \in {"write", "writing", "verify", "rollback"} =>
            Good(snap[p])

GoodInv == OpsType /\ AllGood

LEMMA GoodInit == Init => GoodInv
<1> SUFFICES ASSUME Init
             PROVE  GoodInv
  OBVIOUS
<1>1. Sound(conf)
  <2>1. PICK S \in SUBSET Names, d \in Datas :
          \E uid \in Injection(S, 1..Cardinality(S)) :
            conf = [users |-> [n \in S |-> [uid |-> uid[n], data |-> d]],
                    next |-> Cardinality(S) + 1]
    BY DEF Init
  <2> PICK uid \in Injection(S, 1..Cardinality(S)) :
        conf = [users |-> [n \in S |-> [uid |-> uid[n], data |-> d]],
                next |-> Cardinality(S) + 1]
    BY <2>1
  <2>2. Cardinality(S) \in Nat
    BY FS_Subset, FS_CardinalityType, RouterAssumption
  <2>3. /\ uid \in [S -> 1..Cardinality(S)]
        /\ \A n, m \in S : uid[n] = uid[m] => n = m
    BY DEF Injection, IsInjective
  <2>4. /\ conf.next = Cardinality(S) + 1
        /\ DOMAIN conf.users = S
        /\ \A n \in S : conf.users[n].uid = uid[n]
    OBVIOUS
  <2> QED
    BY <2>2, <2>3, <2>4 DEF Sound
<1> QED
  BY <1>1 DEF Init, GoodInv, OpsType, AllGood, Good, Pcs

(* The operation's own steps, and the network's. *)
LEMMA OperationKeepsGood ==
  ASSUME GoodInv, NEW p \in Ops,
         \/ Begin(p) \/ Snapshot(p) \/ OpenTmp(p) \/ Verify(p)
         \/ Rollback(p) \/ Drop(p) \/ Misled(p)
  PROVE  GoodInv'
<1> USE DEF GoodInv, OpsType, AllGood, Good, Pcs, Ended, Goto, Finish,
            files, remote
<1>1. CASE Begin(p)
  <2>1. CASE Finish(p, "refused")
    BY <1>1, <2>1 DEF Begin
  <2>2. ASSUME NEW r \in Requests, Allowed(conf, r),
               pc' = [pc EXCEPT ![p] = "snapshot"],
               job' = [job EXCEPT ![p] =
                         [req |-> r, base |-> conf, uid |-> Uid(conf, r)]]
        PROVE  GoodInv'
    <3>1. IsRequest(r) /\ Sound(conf)
      BY <2>2, RequestType DEF Allowed
    <3>2. job'[p].req = r /\ job'[p].base = conf
      BY <2>2
    <3> QED
      BY <1>1, <2>2, <3>1, <3>2 DEF Begin
  <2> QED
    BY <1>1, <2>1, <2>2 DEF Begin
<1>2. CASE Snapshot(p)
  BY <1>2 DEF Snapshot
<1>3. CASE OpenTmp(p)
  <2>1. pc[p] = "write" => Sound(Mutated(job[p].base, job[p].req))
    BY MutatedSound
  <2> QED
    BY <1>3, <2>1 DEF OpenTmp
<1>4. CASE Verify(p)
  BY <1>4 DEF Verify
<1>5. CASE Rollback(p)
  BY <1>5 DEF Rollback
<1>6. CASE Drop(p)
  BY <1>6 DEF Drop
<1>7. CASE Misled(p)
  BY <1>7 DEF Misled
<1> QED
  BY <1>1, <1>2, <1>3, <1>4, <1>5, <1>6, <1>7

(* The commands on the router. *)
LEMMA CommandKeepsGood ==
  ASSUME GoodInv, NEW p \in Ops,
         CatEnds(p) \/ CatFails(p) \/ Mv(p) \/ CpEnds(p) \/ CpFails(p)
  PROVE  GoodInv'
<1> USE DEF GoodInv, OpsType, AllGood, Good, Pcs, Ended, Goto, Finish,
            files, remote, Reply, Flush
<1>1. CASE CatEnds(p)
  BY <1>1 DEF CatEnds
<1>2. CASE CatFails(p)
  BY <1>2 DEF CatFails
<1>3. CASE Mv(p)
  BY <1>3 DEF Mv, Moved
<1>4. CASE CpEnds(p)
  BY <1>4 DEF CpEnds
<1>5. CASE CpFails(p)
  BY <1>5 DEF CpFails
<1> QED
  BY <1>1, <1>2, <1>3, <1>4, <1>5

(* The steps on the account touch neither file. *)
LEMMA AccountMoves ==
  ASSUME NEW p \in Ops, Account(p) \/ Keys(p) \/ Lock(p),
         pc[p] = "account" => IsRequest(job[p].req)
  PROVE  /\ pc[p] \in {"account", "keys", "lock"}
         /\ \/ Goto(p, "keys") \/ Goto(p, "lock")
            \/ Finish(p, "ok") \/ Finish(p, "failed")
         /\ UNCHANGED <<conf, tmp, snap, shell, input, fd>>
         /\ \/ UNCHANGED <<live, clean>>
            \/ live' = [live EXCEPT ![p] = FALSE] /\ clean' = FALSE
<1>1. CASE Account(p)
  <2>1. CASE job[p].req.kind = "add"
    BY <1>1, <2>1 DEF Account, Command, CommandFails, files, remote
  <2>2. CASE job[p].req.kind = "update"
    BY <1>1, <2>2 DEF Account, Command, CommandFails, files, remote
  <2>3. CASE job[p].req.kind = "delete"
    BY <1>1, <2>3 DEF Account, Command, CommandFails, files, remote
  <2> QED
    BY <1>1, <2>1, <2>2, <2>3 DEF Account, IsRequest
<1>2. CASE Keys(p)
  BY <1>2 DEF Keys, Command, CommandFails, files, remote
<1>3. CASE Lock(p)
  BY <1>3 DEF Lock, Command, CommandFails, files, remote
<1> QED
  BY <1>1, <1>2, <1>3

LEMMA AccountKeepsGood ==
  ASSUME GoodInv, NEW p \in Ops, Account(p) \/ Keys(p) \/ Lock(p)
  PROVE  GoodInv'
<1>1. /\ \/ Goto(p, "keys") \/ Goto(p, "lock")
         \/ Finish(p, "ok") \/ Finish(p, "failed")
      /\ UNCHANGED <<conf, tmp, snap, shell, input, fd>>
  BY AccountMoves DEF GoodInv, AllGood
<1>2. \E where \in {"keys", "lock", "ok", "failed"} :
        pc' = [pc EXCEPT ![p] = where]
  BY <1>1 DEF Goto, Finish
<1>3. /\ DOMAIN job' = Ops
      /\ \A q \in Ops \ {p} : job'[q] = job[q]
  BY <1>1 DEF Goto, Finish, GoodInv, OpsType
<1> QED
  BY <1>1, <1>2, <1>3 DEF GoodInv, OpsType, AllGood, Good, Pcs, Ended

LEMMA GoodStep ==
  ASSUME GoodInv, [Next]_vars
  PROVE  GoodInv'
<1>1. CASE UNCHANGED vars
  BY <1>1 DEF GoodInv, OpsType, AllGood, Good, vars, files, remote
<1> QED
  BY <1>1, OperationKeepsGood, CommandKeepsGood, AccountKeepsGood DEF Next

(* Whatever drops, overlaps or comes late: no uid is given twice, and none *)
(* that is taken will be.                                                  *)
THEOREM UidsStayUnique == Spec => []UidsUnique
<1>1. GoodInv => UidsUnique
  BY SMTT(30) DEF GoodInv, AllGood, Good, Sound, UidsUnique, UidsOf, Whole
<1> QED
  BY <1>1, GoodInit, GoodStep, PTL DEF Spec

-----------------------------------------------------------------------------
(* A whole snapshot is kept: the first operation to take one takes it of a *)
(* whole config.xml, since nothing has written to it yet.                  *)
Kept ==
  /\ conf # Absent
  /\ conf = Torn \/ tmp # Absent => \E p \in Ops : snap[p] # Absent
  /\ (\E p \in Ops : snap[p] # Absent) => \E p \in Ops : Whole(snap[p])
  /\ \A p \in Ops :
       /\ pc[p] \in {"idle", "snapshot"} => snap[p] = Absent
       /\ \/ shell[p] # "none"
          \/ pc[p] \in {"write", "writing", "verify", "rollback", "rollingBack"}
          => snap[p] # Absent
       /\ shell[p] \in {"cat", "cp"} => input[p] # Absent

(* Without drops and overlaps one operation is at work, and its commands   *)
(* write to the files they are meant for.                                  *)
Alone ==
  clean =>
    /\ \A p, q \in Ops : Busy(p) /\ Busy(q) => p = q
    /\ conf = Torn =>
         /\ \E p \in Ops :
              /\ shell[p] = "cp" \/ pc[p] = "rollbackFailed"
              /\ Whole(snap[p])
         /\ \A p \in Ops : Running(p) => shell[p] = "cp"
    /\ \A p \in Ops :
         /\ Running(p) => live[p]
         /\ shell[p] = "cat" =>
              pc[p] = "writing" /\ fd[p] = "tmp" /\ input[p] # Torn
         /\ shell[p] = "mv" => pc[p] = "writing" /\ tmp # Torn
         /\ shell[p] = "cp" =>
              pc[p] = "rollingBack" /\ fd[p] = "conf" /\ input[p] # Torn
         /\ pc[p] \in {"write", "writing", "verify", "rollback",
                       "rollingBack"} => snap[p] # Torn

MoreType == live \in [Ops -> BOOLEAN] /\ clean \in BOOLEAN

KeptInv == GoodInv /\ MoreType /\ Kept /\ Alone

(* A configuration is told from half a file and from none. *)
LEMMA MutatedWhole ==
  ASSUME NEW c, NEW r
  PROVE  Mutated(c, r) # Torn /\ Mutated(c, r) # Absent /\ Torn # Absent
<1>1. DOMAIN Mutated(c, r) = {"users", "next"}
  BY DEF Mutated
<1>2. DOMAIN Torn = {"state"} /\ DOMAIN Absent = {"state"}
  BY DEF Torn, Absent
<1>3. Torn # Absent
  BY DEF Torn, Absent
<1> QED
  BY <1>1, <1>2, <1>3

LEMMA KeptInit == Init => KeptInv
<1> SUFFICES ASSUME Init
             PROVE  KeptInv
  OBVIOUS
<1>1. conf # Torn /\ conf # Absent
  <2>1. DOMAIN conf = {"users", "next"}
    BY DEF Init
  <2>2. DOMAIN Torn = {"state"} /\ DOMAIN Absent = {"state"}
    BY DEF Torn, Absent
  <2> QED
    BY <2>1, <2>2
<1> QED
  BY <1>1, GoodInit
  DEF Init, KeptInv, MoreType, Kept, Alone, Busy, Running

(* The steps one by one, first for Kept. *)
LEMMA OperationKeeps ==
  ASSUME KeptInv, NEW p \in Ops,
         \/ Begin(p) \/ Snapshot(p) \/ OpenTmp(p) \/ Verify(p)
         \/ Rollback(p) \/ Drop(p) \/ Misled(p)
  PROVE  Kept'
<1> USE DEF KeptInv, GoodInv, OpsType, Kept, Pcs, Ended, Goto, Finish,
            files, remote
<1>1. CASE Begin(p)
  BY <1>1 DEF Begin
<1>2. CASE Snapshot(p)
  <2>1. CASE snap' = [snap EXCEPT ![p] = conf] /\ Goto(p, "write")
    <3>1. \E q \in Ops : Whole(snap'[q])
      <4>1. CASE conf = Torn
        <5> PICK q \in Ops : Whole(snap[q])
          BY <4>1
        <5>1. q # p
          BY <1>2 DEF Snapshot, Whole
        <5> QED
          BY <2>1, <5>1
      <4>2. CASE conf # Torn
        BY <2>1, <4>2 DEF Whole
      <4> QED
        BY <4>1, <4>2
    <3>2. \A q \in Ops \ {p} : snap'[q] = snap[q] /\ pc'[q] = pc[q]
      BY <2>1
    <3>3. snap'[p] # Absent /\ pc'[p] = "write"
      BY <2>1
    <3> QED
      BY <1>2, <3>1, <3>2, <3>3 DEF Snapshot
  <2>2. CASE Finish(p, "refused") /\ UNCHANGED snap
    BY <1>2, <2>2 DEF Snapshot
  <2> QED
    BY <1>2, <2>1, <2>2 DEF Snapshot
<1>3. CASE OpenTmp(p)
  BY <1>3, MutatedWhole DEF OpenTmp
<1>4. CASE Verify(p)
  BY <1>4 DEF Verify
<1>5. CASE Rollback(p)
  BY <1>5, MutatedWhole DEF Rollback
<1>6. CASE Drop(p)
  BY <1>6, MutatedWhole DEF Drop
<1>7. CASE Misled(p)
  BY <1>7 DEF Misled
<1> QED
  BY <1>1, <1>2, <1>3, <1>4, <1>5, <1>6, <1>7

LEMMA CommandKeeps ==
  ASSUME KeptInv, NEW p \in Ops,
         CatEnds(p) \/ CatFails(p) \/ Mv(p) \/ CpEnds(p) \/ CpFails(p)
  PROVE  Kept'
<1> USE DEF KeptInv, GoodInv, OpsType, Kept, Pcs, Ended, Goto, Finish,
            files, remote, Reply, Flush
<1>1. CASE CatEnds(p)
  BY <1>1 DEF CatEnds
<1>2. CASE CatFails(p)
  BY <1>2 DEF CatFails
<1>3. CASE Mv(p)
  BY <1>3 DEF Mv
<1>4. CASE CpEnds(p)
  BY <1>4 DEF CpEnds
<1>5. CASE CpFails(p)
  BY <1>5 DEF CpFails
<1> QED
  BY <1>1, <1>2, <1>3, <1>4, <1>5

LEMMA OperationAlone ==
  ASSUME KeptInv, NEW p \in Ops,
         \/ Begin(p) \/ Snapshot(p) \/ OpenTmp(p) \/ Verify(p)
         \/ Rollback(p) \/ Drop(p) \/ Misled(p)
  PROVE  MoreType' /\ Alone'
<1> USE DEF KeptInv, GoodInv, OpsType, MoreType, Alone, Busy, Running, Pcs,
            Ended, Goto, Finish, files, remote
<1>1. CASE Begin(p)
  <2>1. clean' => \A q \in Ops : ~Busy(q)
    BY <1>1 DEF Begin
  <2>2. \E where \in {"refused", "snapshot"} :
          pc' = [pc EXCEPT ![p] = where]
    BY <1>1 DEF Begin
  <2>3. CASE conf # Torn
    BY <1>1, <2>1, <2>2, <2>3 DEF Begin
  <2>4. CASE conf = Torn
    <3>1. pc' = [pc EXCEPT ![p] = "refused"]
      BY <1>1, <2>4 DEF Begin, Allowed
    <3>2. clean' => clean /\ \E q \in Ops \ {p} :
                      /\ shell[q] = "cp" \/ pc[q] = "rollbackFailed"
                      /\ Whole(snap[q])
      BY <1>1, <2>1, <2>4 DEF Begin
    <3>3. \A q \in Ops \ {p} : pc'[q] = pc[q]
      BY <3>1
    <3>4. ~Running(p)'
      BY <3>1
    <3> QED
      BY <1>1, <2>1, <2>4, <3>1, <3>2, <3>3, <3>4 DEF Begin, Whole
  <2> QED
    BY <2>3, <2>4
<1>2. CASE Snapshot(p)
  BY <1>2 DEF Snapshot
<1>3. CASE OpenTmp(p)
  BY <1>3, MutatedWhole DEF OpenTmp
<1>4. CASE Verify(p)
  BY <1>4 DEF Verify
<1>5. CASE Rollback(p)
  <2>1. CASE /\ live[p]
             /\ conf' = Torn
             /\ shell' = [shell EXCEPT ![p] = "cp"]
             /\ input' = [input EXCEPT ![p] = snap[p]]
             /\ fd' = [fd EXCEPT ![p] = "conf"]
             /\ Goto(p, "rollingBack")
    <3>1. clean' => clean /\ Whole(snap'[p]) /\ shell'[p] = "cp"
      BY <1>5, <2>1 DEF Rollback, Kept, Whole
    <3>2. clean' => \A q \in Ops \ {p} : ~Busy(q)'
      BY <1>5, <2>1 DEF Rollback
    <3> QED
      BY <1>5, <2>1, <3>1, <3>2 DEF Rollback
  <2>2. CASE Finish(p, "rollbackFailed") /\ UNCHANGED <<conf, remote>>
    <3>1. clean => conf # Torn
      BY <1>5, <2>2 DEF Rollback
    <3> QED
      BY <1>5, <2>2, <3>1 DEF Rollback
  <2> QED
    BY <1>5, <2>1, <2>2 DEF Rollback
<1>6. CASE Drop(p)
  BY <1>6 DEF Drop
<1>7. CASE Misled(p)
  BY <1>7 DEF Misled
<1> QED
  BY <1>1, <1>2, <1>3, <1>4, <1>5, <1>6, <1>7

LEMMA CommandAlone ==
  ASSUME KeptInv, NEW p \in Ops,
         CatEnds(p) \/ CatFails(p) \/ Mv(p) \/ CpEnds(p) \/ CpFails(p)
  PROVE  MoreType' /\ Alone'
<1> USE DEF KeptInv, GoodInv, OpsType, MoreType, Alone, Busy, Running, Pcs,
            Ended, Goto, Finish, files, remote, Reply, Flush
<1>1. CASE CatEnds(p)
  BY <1>1 DEF CatEnds
<1>2. CASE CatFails(p)
  BY <1>2 DEF CatFails
<1>3. CASE Mv(p)
  BY <1>3, MutatedWhole DEF Mv, Moved
<1>4. CASE CpEnds(p)
  BY <1>4 DEF CpEnds
<1>5. CASE CpFails(p)
  BY <1>5 DEF CpFails
<1> QED
  BY <1>1, <1>2, <1>3, <1>4, <1>5

LEMMA AccountKeeps ==
  ASSUME KeptInv, NEW p \in Ops, Account(p) \/ Keys(p) \/ Lock(p)
  PROVE  Kept' /\ MoreType' /\ Alone'
<1>1. /\ pc[p] \in {"account", "keys", "lock"}
      /\ UNCHANGED <<conf, tmp, snap, shell, input, fd>>
      /\ \/ UNCHANGED <<live, clean>>
         \/ live' = [live EXCEPT ![p] = FALSE] /\ clean' = FALSE
      /\ \E where \in {"keys", "lock", "ok", "failed"} :
           pc' = [pc EXCEPT ![p] = where]
  BY AccountMoves DEF KeptInv, GoodInv, AllGood, Goto, Finish
<1>2. MoreType'
  BY <1>1 DEF KeptInv, MoreType
<1>3. Kept'
  BY <1>1 DEF KeptInv, GoodInv, OpsType, Kept
<1>4. Alone'
  <2>1. clean' => clean /\ live' = live
    BY <1>1
  <2>2. \A q \in Ops : Running(q)' => Running(q)
    BY <1>1 DEF KeptInv, GoodInv, OpsType, Running, Ended
  <2>3. \A q \in Ops : Busy(q)' => Busy(q)
    BY <1>1, <2>2 DEF Busy
  <2>4. \A q \in Ops : q # p => pc'[q] = pc[q]
    BY <1>1 DEF KeptInv, GoodInv, OpsType
  <2>5. pc'[p] \in {"keys", "lock", "ok", "failed"}
    BY <1>1 DEF KeptInv, GoodInv, OpsType
  <2>6. UNCHANGED <<conf, tmp, snap, shell, input, fd>>
    BY <1>1
  <2> QED
    BY <1>1, <2>1, <2>2, <2>3, <2>4, <2>5, <2>6 DEF KeptInv, Alone
<1> QED
  BY <1>2, <1>3, <1>4

LEMMA KeptStep ==
  ASSUME KeptInv, [Next]_vars
  PROVE  KeptInv'
<1>1. CASE UNCHANGED vars
  BY <1>1, GoodStep
  DEF KeptInv, MoreType, Kept, Alone, Busy, Running, vars, files, remote
<1>2. GoodInv'
  BY GoodStep DEF KeptInv
<1> QED
  BY <1>1, <1>2, OperationKeeps, CommandKeeps, OperationAlone, CommandAlone,
     AccountKeeps
  DEF Next, KeptInv

(* Once config.xml is torn, a whole one is in the backup directory; and    *)
(* without drops and overlaps it is torn only while a rollback copies, or  *)
(* after one that reported its failure, whose snapshot is whole.           *)
THEOREM StaysRecoverable == Spec => []Recoverable
<1>1. KeptInv => Recoverable
  BY DEF KeptInv, Kept, Alone, Recoverable
<1> QED
  BY <1>1, KeptInit, KeptStep, PTL DEF Spec
-----------------------------------------------------------------------------
(* What the accounts look like, and the files of the commands that have    *)
(* ended.                                                                  *)
Fields == {"uid", "shell", "keys", "lock"}

AccountsOK ==
  /\ DOMAIN accounts \subseteq Names
  /\ \A n \in DOMAIN accounts : DOMAIN accounts[n] = Fields

InputsOK ==
  \A p \in Ops :
    shell[p] \in {"none", "mv"} => fd[p] = "none" /\ input[p] = Absent

(* An account is made, or a field of one set.                              *)
LEMMA PutAccount ==
  ASSUME AccountsOK, NEW name \in Names, NEW a, DOMAIN a = Fields
  PROVE  LET new == Put(accounts, name, a)
         IN  /\ DOMAIN new = DOMAIN accounts \cup {name}
             /\ \A n \in DOMAIN new : DOMAIN new[n] = Fields
             /\ new[name] = a
BY DEF AccountsOK, Put

LEMMA WithField ==
  ASSUME AccountsOK, NEW name \in DOMAIN accounts, NEW field \in Fields, NEW v
  PROVE  LET new == [accounts EXCEPT ![name][field] = v]
         IN  /\ DOMAIN new = DOMAIN accounts
             /\ \A n \in DOMAIN new : DOMAIN new[n] = Fields
             /\ new[name][field] = v
             /\ \A other \in Fields \ {field} :
                  new[name][other] = accounts[name][other]
<1> DEFINE new == [accounts EXCEPT ![name][field] = v]
           a == [accounts[name] EXCEPT ![field] = v]
<1>1. DOMAIN accounts[name] = Fields
  BY DEF AccountsOK
<1>2. /\ DOMAIN a = Fields
      /\ a[field] = v
      /\ \A other \in Fields \ {field} : a[other] = accounts[name][other]
  BY <1>1
<1>3. new = [accounts EXCEPT ![name] = a]
  OBVIOUS
<1>4. /\ DOMAIN new = DOMAIN accounts
      /\ new[name] = a
      /\ \A n \in DOMAIN accounts \ {name} : new[n] = accounts[n]
  BY <1>3
<1> QED
  BY <1>2, <1>4 DEF AccountsOK

LEMMA AccountsInit == Init => AccountsOK /\ InputsOK
<1>1. Init => AccountsOK
  BY DEF Init, AccountsOK, Fields
<1>2. Init => InputsOK
  BY DEF Init, InputsOK
<1> QED
  BY <1>1, <1>2
(* What each of the steps on the account has done when it has not lost its *)
(* connection: what the request asks for, or it says that it has failed.   *)
LEMMA AccountEffect ==
  ASSUME AccountsOK, NEW p \in Ops, Account(p), IsRequest(job[p].req)
  PROVE  /\ AccountsOK'
         /\ clean' =>
              \/ Finish(p, "failed")
              \/ job[p].req.kind = "delete" /\ Finish(p, "ok")
              \/ /\ Goto(p, "keys")
                 /\ job[p].req.kind # "delete"
                 /\ job[p].req.name \in DOMAIN accounts'
                 /\ accounts'[job[p].req.name].shell = job[p].req.data
<1> DEFINE r == job[p].req
           fresh == [uid |-> job[p].uid, shell |-> r.data, keys |-> Nobody,
                     lock |-> r.data]
<1>1. CASE r.kind = "add"
  <2>1. DOMAIN fresh = Fields /\ fresh.shell = r.data
    BY DEF Fields
  <2>2. LET new == Put(accounts, r.name, fresh)
        IN  /\ DOMAIN new = DOMAIN accounts \cup {r.name}
            /\ \A n \in DOMAIN new : DOMAIN new[n] = Fields
            /\ new[r.name] = fresh
    <3>1. r.name \in Names
      BY DEF IsRequest
    <3> HIDE DEF r, fresh
    <3> QED
      BY <2>1, <3>1, PutAccount
  <2>3. \/ Finish(p, "failed") /\ UNCHANGED accounts
        \/ /\ Goto(p, "keys")
           /\ accounts' \in {accounts, Put(accounts, r.name, fresh)}
           /\ clean' => accounts' = Put(accounts, r.name, fresh)
    BY <1>1 DEF Account, Command, CommandFails
  <2> HIDE DEF fresh
  <2> QED
    BY <1>1, <2>1, <2>2, <2>3 DEF AccountsOK, IsRequest
<1>2. CASE r.kind = "update"
  <2>1. \/ Finish(p, "failed") /\ UNCHANGED accounts
        \/ /\ Goto(p, "keys")
           /\ r.name \in DOMAIN accounts
           /\ accounts' \in
                {accounts, [accounts EXCEPT ![r.name]["shell"] = r.data]}
           /\ clean' =>
                accounts' = [accounts EXCEPT ![r.name]["shell"] = r.data]
    BY <1>2 DEF Account, Command, CommandFails, Has, With
  <2>2. r.name \in DOMAIN accounts =>
          LET new == [accounts EXCEPT ![r.name]["shell"] = r.data]
          IN  /\ DOMAIN new = DOMAIN accounts
              /\ \A n \in DOMAIN new : DOMAIN new[n] = Fields
              /\ new[r.name]["shell"] = r.data
    BY WithField DEF Fields
  <2> QED
    BY <1>2, <2>1, <2>2 DEF AccountsOK
<1>3. CASE r.kind = "delete"
  <2>1. /\ Finish(p, "ok")
        /\ accounts' \in
             {accounts, Restrict(accounts, DOMAIN accounts \ {r.name})}
    BY <1>3 DEF Account, Command, CommandFails
  <2> QED
    BY <1>3, <2>1 DEF AccountsOK, Restrict
<1> QED
  BY <1>1, <1>2, <1>3 DEF IsRequest

LEMMA KeysEffect ==
  ASSUME AccountsOK, NEW p \in Ops, Keys(p)
  PROVE  /\ AccountsOK'
         /\ clean' =>
              \/ Finish(p, "failed")
              \/ /\ Finish(p, "ok") \/ Goto(p, "lock")
                 /\ job[p].req.name \in DOMAIN accounts'
                 /\ accounts'[job[p].req.name].keys = job[p].req.data
                 /\ accounts'[job[p].req.name].shell =
                      accounts[job[p].req.name].shell
<1> DEFINE r == job[p].req
           set == [accounts EXCEPT ![r.name]["keys"] = r.data]
           half == [accounts EXCEPT ![r.name]["keys"] = Nobody]
<1>1. \/ Finish(p, "failed") /\ UNCHANGED accounts
      \/ /\ Finish(p, "ok") \/ Goto(p, "lock")
         /\ r.name \in DOMAIN accounts
         /\ accounts' \in {accounts, set, half}
         /\ clean' => accounts' = set
  BY DEF Keys, Command, CommandFails, Has, With
<1>2. r.name \in DOMAIN accounts =>
        /\ DOMAIN set = DOMAIN accounts
        /\ \A n \in DOMAIN set : DOMAIN set[n] = Fields
        /\ set[r.name]["keys"] = r.data
        /\ set[r.name]["shell"] = accounts[r.name]["shell"]
        /\ DOMAIN half = DOMAIN accounts
        /\ \A n \in DOMAIN half : DOMAIN half[n] = Fields
  BY WithField DEF Fields
<1> HIDE DEF set, half
<1> QED
  BY <1>1, <1>2 DEF AccountsOK

LEMMA LockEffect ==
  ASSUME AccountsOK, NEW p \in Ops, Lock(p)
  PROVE  /\ AccountsOK'
         /\ Finish(p, "ok")
         /\ clean' =>
              \/ UNCHANGED accounts
              \/ /\ job[p].req.name \in DOMAIN accounts'
                 /\ accounts'[job[p].req.name].keys =
                      accounts[job[p].req.name].keys
                 /\ accounts'[job[p].req.name].shell =
                      accounts[job[p].req.name].shell
<1> DEFINE r == job[p].req
           set == [accounts EXCEPT ![r.name]["lock"] = r.data]
<1>1. /\ Finish(p, "ok")
      /\ \/ UNCHANGED accounts
         \/ /\ r.name \in DOMAIN accounts
            /\ accounts' \in {accounts, set}
  BY DEF Lock, Command, CommandFails, Has, With
<1>2. r.name \in DOMAIN accounts =>
        /\ DOMAIN set = DOMAIN accounts
        /\ \A n \in DOMAIN set : DOMAIN set[n] = Fields
        /\ set[r.name]["keys"] = accounts[r.name]["keys"]
        /\ set[r.name]["shell"] = accounts[r.name]["shell"]
  BY WithField DEF Fields
<1> HIDE DEF set
<1> QED
  BY <1>1, <1>2 DEF AccountsOK
LEMMA AccountsStep ==
  ASSUME KeptInv, AccountsOK, [Next]_vars
  PROVE  AccountsOK'
<1>1. CASE UNCHANGED accounts
  BY <1>1 DEF AccountsOK
<1>2. ASSUME NEW p \in Ops, Account(p)
      PROVE  AccountsOK'
  <2>1. IsRequest(job[p].req)
    BY <1>2 DEF Account, KeptInv, GoodInv, AllGood
  <2> QED
    BY <1>2, <2>1, AccountEffect
<1> QED
  BY <1>1, <1>2, KeysEffect, LockEffect
  DEF Next, vars, Begin, Snapshot, OpenTmp, CatEnds, CatFails, Mv, Verify,
      Rollback, CpEnds, CpFails, Drop, Misled

LEMMA InputsStep ==
  ASSUME KeptInv, InputsOK, [Next]_vars
  PROVE  InputsOK'
<1> USE DEF InputsOK, KeptInv, GoodInv, OpsType, remote
<1>1. CASE UNCHANGED remote
  BY <1>1
<1>2. ASSUME NEW p \in Ops, OpenTmp(p) \/ Rollback(p)
      PROVE  InputsOK'
  BY <1>2 DEF OpenTmp, Rollback
<1>3. ASSUME NEW p \in Ops,
             CatEnds(p) \/ CatFails(p) \/ CpEnds(p) \/ CpFails(p)
      PROVE  InputsOK'
  BY <1>3 DEF CatEnds, CatFails, CpEnds, CpFails, Flush
<1>4. ASSUME NEW p \in Ops, Mv(p)
      PROVE  InputsOK'
  BY <1>4 DEF Mv, Moved
<1>5. ASSUME NEW p \in Ops, Drop(p)
      PROVE  InputsOK'
  BY <1>5 DEF Drop
<1> QED
  BY <1>1, <1>2, <1>3, <1>4, <1>5
  DEF Next, vars, Begin, Snapshot, Verify, Misled, Account, Keys, Lock

LEMMA KeptInvariant == Spec => [](KeptInv /\ AccountsOK /\ InputsOK)
BY KeptInit, KeptStep, AccountsInit, AccountsStep, InputsStep, PTL DEF Spec

(* The configuration, the accounts and the commands stay well-formed,      *)
(* whatever overlaps, drops or comes late.                                 *)
THEOREM TypeCorrect == Spec => []TypeOK
<1>1. KeptInv /\ AccountsOK /\ InputsOK => TypeOK
  BY DEF KeptInv, GoodInv, OpsType, Pcs, AllGood, Good, Sound, MoreType,
         AccountsOK, InputsOK, TypeOK
<1> QED
  BY <1>1, KeptInvariant, PTL

-----------------------------------------------------------------------------
(* An operation that is alone, with its connection up, finds the router    *)
(* as it left it: until its mv config.xml is what it has read, after that  *)
(* it is what was asked for, and so is the account, as far as it has come. *)
Wanted(p) == Mutated(job[p].base, job[p].req)

OnTrack(p) ==
  /\ pc[p] \in {"snapshot", "write", "writing"} => conf = job[p].base
  /\ pc[p] \in {"write", "writing", "verify", "rollback"} =>
       snap[p] = job[p].base
  /\ pc[p] = "writing" =>
       \/ shell[p] = "cat" /\ input[p] = Wanted(p)
       \/ shell[p] = "mv" /\ tmp = Wanted(p)
  /\ pc[p] = "rollingBack" => shell[p] = "cp" /\ input[p] = job[p].base
  /\ pc[p] \in {"verify", "account", "keys", "lock"} => conf = Wanted(p)
  /\ pc[p] \in {"keys", "lock"} =>
       /\ job[p].req.kind # "delete"
       /\ job[p].req.name \in DOMAIN accounts
       /\ accounts[job[p].req.name].shell = job[p].req.data
  /\ pc[p] = "lock" => accounts[job[p].req.name].keys = job[p].req.data

Undisturbed == clean => \A p \in Ops : OnTrack(p)

LEMMA UndisturbedInit == Init => Undisturbed
BY DEF Init, Undisturbed, OnTrack

StepOf(p) ==
  \/ Begin(p) \/ Snapshot(p) \/ OpenTmp(p)
  \/ CatEnds(p) \/ CatFails(p) \/ Mv(p)
  \/ Verify(p) \/ Rollback(p) \/ CpEnds(p) \/ CpFails(p)
  \/ Drop(p) \/ Misled(p)
  \/ Account(p) \/ Keys(p) \/ Lock(p)

(* Whose step it is, while nothing drops and nothing overlaps: no other    *)
(* operation is at work.                                                   *)
LEMMA OthersRest ==
  ASSUME KeptInv, NEW p \in Ops, StepOf(p), clean'
  PROVE  /\ clean
         /\ \A q \in Ops \ {p} : /\ ~Busy(q)
                                /\ pc'[q] = pc[q]
                                /\ shell'[q] = shell[q]
         /\ pc[p] # "idle" => live[p]
<1> USE DEF KeptInv, GoodInv, OpsType, MoreType
<1>1. CASE Begin(p)
  BY <1>1 DEF Begin, Finish, remote
<1>2. CASE Snapshot(p) \/ OpenTmp(p) \/ Verify(p) \/ Rollback(p)
  <2>1. Running(p) /\ clean
    BY <1>2 DEF Snapshot, OpenTmp, Verify, Rollback, Running, Ended
  <2>2. \A q \in Ops \ {p} : pc'[q] = pc[q] /\ shell'[q] = shell[q]
    BY <1>2
    DEF Snapshot, OpenTmp, Verify, Rollback, Goto, Finish, remote
  <2> QED
    BY <2>1, <2>2 DEF Alone, Busy
<1>3. CASE CatEnds(p) \/ CatFails(p) \/ Mv(p) \/ CpEnds(p) \/ CpFails(p)
  <2>1. shell[p] # "none" /\ clean
    BY <1>3 DEF CatEnds, CatFails, Mv, CpEnds, CpFails
  <2>2. \A q \in Ops \ {p} : pc'[q] = pc[q] /\ shell'[q] = shell[q]
    <3>1. \E next \in {"none", "mv"} : shell' = [shell EXCEPT ![p] = next]
      BY <1>3 DEF CatEnds, CatFails, Mv, CpEnds, CpFails
    <3>2. \A q \in Ops \ {p} : pc'[q] = pc[q]
      <4>1. CASE CatEnds(p) \/ CatFails(p)
        BY <4>1 DEF CatEnds, CatFails, Reply, Finish
      <4>2. CASE Mv(p)
        BY <4>2 DEF Mv, Reply, Goto, Finish
      <4>3. CASE CpEnds(p) \/ CpFails(p)
        BY <4>3 DEF CpEnds, CpFails, Reply, Finish
      <4> QED
        BY <1>3, <4>1, <4>2, <4>3
    <3> QED
      BY <3>1, <3>2
  <2>3. Running(p) /\ live[p]
    BY <2>1 DEF Alone, Running, Ended
  <2> QED
    BY <2>1, <2>2, <2>3 DEF Alone, Busy
<1>4. CASE Drop(p)
  BY <1>4 DEF Drop
<1>5. CASE Misled(p)
  <2>1. Running(p) /\ ~live[p] /\ clean
    BY <1>5 DEF Misled, Running, Ended
  <2> QED
    BY <2>1 DEF Alone
<1>6. CASE Account(p) \/ Keys(p) \/ Lock(p)
  <2>1. /\ pc[p] \in {"account", "keys", "lock"}
        /\ clean
        /\ shell' = shell
        /\ \E where \in {"keys", "lock", "ok", "failed"} :
             pc' = [pc EXCEPT ![p] = where]
    BY <1>6, AccountMoves DEF AllGood, Goto, Finish
  <2>2. Running(p)
    BY <2>1 DEF Running, Ended
  <2>3. \A q \in Ops \ {p} : pc'[q] = pc[q] /\ shell'[q] = shell[q]
    BY <2>1
  <2> QED
    BY <2>1, <2>2, <2>3 DEF Alone, Busy
<1> QED
  BY <1>1, <1>2, <1>3, <1>4, <1>5, <1>6 DEF StepOf
(* Its own steps, one by one. *)
LEMMA OwnStep ==
  ASSUME KeptInv, AccountsOK, NEW p \in Ops, OnTrack(p), StepOf(p),
         clean, clean', pc[p] # "idle" => live[p]
  PROVE  OnTrack(p)'
<1> USE DEF KeptInv, GoodInv, OpsType, OnTrack, Wanted, Goto, Finish, Ended,
            files, remote
<1>1. CASE Begin(p)
  BY <1>1 DEF Begin
<1>2. CASE Snapshot(p)
  BY <1>2 DEF Snapshot
<1>3. CASE OpenTmp(p)
  BY <1>3 DEF OpenTmp
<1>4. CASE CatEnds(p)
  <2>1. pc[p] = "writing" /\ fd[p] = "tmp"
    BY <1>4 DEF CatEnds, Alone
  <2>2. /\ tmp' = input[p] /\ conf' = conf
        /\ shell'[p] = "mv"
        /\ UNCHANGED <<pc, job, snap>>
    BY <1>4, <2>1 DEF CatEnds, Flush
  <2> QED
    BY <1>4, <2>1, <2>2 DEF CatEnds
<1>5. CASE CatFails(p)
  <2>1. pc[p] = "writing"
    BY <1>5 DEF CatFails, Alone
  <2> QED
    BY <1>5, <2>1 DEF CatFails, Reply
<1>6. CASE Mv(p)
  <2>1. pc[p] = "writing" /\ tmp = Wanted(p)
    BY <1>6 DEF Mv, Alone
  <2> QED
    BY <1>6, <2>1 DEF Mv, Reply
<1>7. CASE Verify(p)
  BY <1>7 DEF Verify
<1>8. CASE Rollback(p)
  <2>1. CASE Finish(p, "rollbackFailed")
    BY <2>1
  <2>2. CASE Goto(p, "rollingBack")
    <3>1. /\ pc[p] = "rollback" /\ pc'[p] = "rollingBack"
          /\ UNCHANGED <<job, snap>>
      BY <1>8, <2>2 DEF Rollback
    <3>2. shell'[p] = "cp" /\ input'[p] = snap[p]
      BY <1>8, <3>1 DEF Rollback
    <3> QED
      BY <3>1, <3>2
  <2> QED
    BY <1>8, <2>1, <2>2 DEF Rollback
<1>9. CASE CpEnds(p)
  <2>1. pc[p] = "rollingBack"
    BY <1>9 DEF CpEnds, Alone
  <2>2. pc'[p] = "rolledBack"
    BY <1>9, <2>1 DEF CpEnds, Reply
  <2> QED
    BY <2>2
<1>10. CASE Drop(p) \/ CpFails(p)
  <2>1. CpFails(p) => pc[p] = "rollingBack"
    BY DEF CpFails, Alone
  <2> QED
    BY <1>10, <2>1 DEF Drop, CpFails, Reply
<1>11. CASE Misled(p)
  BY <1>11 DEF Misled
<1>12. CASE Account(p)
  <2>1. IsRequest(job[p].req) /\ pc[p] = "account" /\ UNCHANGED conf
    BY <1>12 DEF Account, AllGood
  <2> QED
    BY <1>12, <2>1, AccountEffect
<1>13. CASE Keys(p)
  <2>1. pc[p] = "keys" /\ UNCHANGED conf
    BY <1>13 DEF Keys
  <2> QED
    BY <1>13, <2>1, KeysEffect
<1>14. CASE Lock(p)
  <2>1. pc'[p] = "ok"
    BY <1>14, LockEffect
  <2> QED
    BY <2>1
<1> QED
  BY <1>1, <1>2, <1>3, <1>4, <1>5, <1>6, <1>7, <1>8, <1>9, <1>10, <1>11,
     <1>12, <1>13, <1>14
  DEF StepOf

LEMMA UndisturbedStep ==
  ASSUME KeptInv, AccountsOK, Undisturbed, [Next]_vars
  PROVE  Undisturbed'
<1>1. CASE UNCHANGED vars
  BY <1>1 DEF Undisturbed, OnTrack, Wanted, vars, files, remote
<1>2. ASSUME NEW p \in Ops, StepOf(p), clean', NEW q \in Ops
      PROVE  OnTrack(q)'
  <2>1. CASE q = p
    BY <1>2, <2>1, OthersRest, OwnStep DEF Undisturbed
  <2>2. CASE q # p
    <3>1. ~Busy(q) /\ pc'[q] = pc[q] /\ shell'[q] = shell[q]
      BY <1>2, <2>2, OthersRest
    <3> QED
      BY <3>1 DEF OnTrack, Busy, Running, Ended
  <2> QED
    BY <2>1, <2>2
<1> QED
  BY <1>1, <1>2 DEF Next, StepOf, Undisturbed

LEMMA UndisturbedInvariant == Spec => []Undisturbed
BY UndisturbedInit, UndisturbedStep, KeptInvariant, PTL DEF Spec

(* Who ends in a step is the one that takes it. *)
LEMMA EndsAlone ==
  ASSUME KeptInv, AccountsOK, Undisturbed, NEW q \in Ops, StepOf(q), clean',
         NEW p \in Ops, pc[p] # pc'[p]
  PROVE  p = q /\ OnTrack(p) /\ clean /\ (pc[p] # "idle" => live[p])
BY OthersRest DEF Undisturbed

LEMMA FailsAsBefore ==
  ASSUME KeptInv, AccountsOK, Undisturbed, [Next]_vars,
         NEW p \in Ops, clean', Running(p),
         Ends(p, {"refused", "writeFailed", "rolledBack"})
  PROVE  conf' = job[p].base
<1>1. PICK q \in Ops : StepOf(q)
  BY DEF Next, StepOf, vars, Ends
<1>2. StepOf(p) /\ OnTrack(p) /\ clean /\ (pc[p] # "idle" => live[p])
  BY <1>1, EndsAlone DEF Ends
<1> USE DEF Ends, OnTrack, Goto, Finish, Running, Ended, KeptInv, GoodInv,
            OpsType, files, remote
<1>3. ~Begin(p)
  BY DEF Begin
<1>4. CASE Snapshot(p) \/ OpenTmp(p)
  BY <1>2, <1>4 DEF Snapshot, OpenTmp
<1>5. CASE CatEnds(p) \/ Verify(p) \/ Rollback(p)
  BY <1>2, <1>5 DEF CatEnds, Verify, Rollback
<1>6. CASE CatFails(p)
  BY <1>2, <1>6 DEF CatFails, Reply
<1>7. CASE Mv(p)
  BY <1>2, <1>7 DEF Mv, Reply
<1>8. CASE CpEnds(p)
  <2>1. pc[p] = "rollingBack" /\ fd[p] = "conf"
    BY <1>2, <1>8 DEF CpEnds, Alone
  <2> QED
    BY <1>2, <1>8, <2>1 DEF CpEnds, Flush
<1>9. CASE Drop(p) \/ Misled(p) \/ CpFails(p)
  BY <1>2, <1>3, <1>9 DEF Drop, Misled, CpFails, Reply
<1>10. CASE Account(p) \/ Keys(p) \/ Lock(p)
  BY <1>10, AccountMoves, ZenonT(30) DEF AllGood
<1> QED
  BY <1>2, <1>3, <1>4, <1>5, <1>6, <1>7, <1>8, <1>9, <1>10 DEF StepOf
LEMMA SucceedsWholly ==
  ASSUME KeptInv, AccountsOK, Undisturbed, [Next]_vars,
         NEW p \in Ops, clean', Ends(p, {"ok"})
  PROVE  /\ conf' = Wanted(p)
         /\ job[p].req.kind # "delete" =>
              /\ accounts'[job[p].req.name].shell = job[p].req.data
              /\ accounts'[job[p].req.name].keys = job[p].req.data
<1>1. PICK q \in Ops : StepOf(q)
  BY DEF Next, StepOf, vars, Ends
<1>2. StepOf(p) /\ OnTrack(p)
  BY <1>1, EndsAlone DEF Ends
<1>3. pc'[p] = "ok" /\ p \in DOMAIN pc
  BY DEF Ends, KeptInv, GoodInv, OpsType
<1>4. ASSUME NEW end \in {"refused", "writeFailed", "rolledBack", "failed",
                         "rollbackFailed", "snapshot", "write", "writing",
                         "verify", "account", "rollback", "rollingBack",
                         "keys", "lock"},
             pc' = [pc EXCEPT ![p] = end] \/ UNCHANGED pc
      PROVE  FALSE
  BY <1>3, <1>4 DEF Ends
<1>5. ~(\/ Begin(p) \/ Snapshot(p) \/ OpenTmp(p) \/ Verify(p) \/ Rollback(p)
        \/ Drop(p) \/ Misled(p))
  BY <1>4
  DEF Begin, Snapshot, OpenTmp, Verify, Rollback, Drop, Misled, Goto, Finish
<1>6. ~(CatEnds(p) \/ CatFails(p) \/ Mv(p) \/ CpEnds(p) \/ CpFails(p))
  BY <1>4 DEF CatEnds, CatFails, Mv, CpEnds, CpFails, Reply, Goto, Finish
<1>7. CASE Account(p)
  <2>1. /\ IsRequest(job[p].req) /\ pc[p] = "account" /\ UNCHANGED conf
    BY <1>7 DEF Account, KeptInv, GoodInv, AllGood, files
  <2>2. job[p].req.kind = "delete"
    BY <1>4, <1>7, <2>1, AccountEffect DEF Goto, Finish
  <2> QED
    BY <1>2, <2>1, <2>2 DEF OnTrack
<1>8. CASE Keys(p)
  <2>1. pc[p] = "keys" /\ UNCHANGED conf
    BY <1>8 DEF Keys, files
  <2> QED
    BY <1>2, <1>4, <1>8, <2>1, KeysEffect DEF OnTrack, Goto, Finish
<1>9. CASE Lock(p)
  <2>1. pc[p] = "lock" /\ UNCHANGED conf
    BY <1>9 DEF Lock, files
  <2> QED
    BY <1>2, <1>9, <2>1, LockEffect DEF OnTrack
<1> QED
  BY <1>2, <1>5, <1>6, <1>7, <1>8, <1>9 DEF StepOf

(* For any operations, users and data: while nothing drops or overlaps, an *)
(* operation that reports that its guarded write has failed has left       *)
(* config.xml as it found it, rolled back or never touched.                *)
THEOREM FailuresChangeNothing == Spec => FailureLeavesAsBefore
<1>1. ASSUME KeptInv, AccountsOK, Undisturbed, [Next]_vars
      PROVE  [\A p \in Ops :
                /\ clean' /\ Running(p)
                /\ Ends(p, {"refused", "writeFailed", "rolledBack"})
                => conf' = job[p].base]_vars
  BY <1>1, FailsAsBefore
<1> QED
  BY <1>1, KeptInvariant, UndisturbedInvariant, PTL
  DEF Spec, FailureLeavesAsBefore

(* And one that reports success has done all that was asked: config.xml is *)
(* what the mutations make of what it read, and the account has the shell  *)
(* and the keys of the request.                                            *)
THEOREM SuccessesAreComplete == Spec => SuccessIsComplete
<1>1. ASSUME KeptInv, AccountsOK, Undisturbed, [Next]_vars
      PROVE  [\A p \in Ops :
                clean' /\ Ends(p, {"ok"}) =>
                  LET r == job[p].req
                  IN  /\ conf' = Mutated(job[p].base, r)
                      /\ r.kind # "delete" =>
                           /\ accounts'[r.name].shell = r.data
                           /\ accounts'[r.name].keys = r.data]_vars
  BY <1>1, SucceedsWholly DEF Wanted
<1> QED
  BY <1>1, KeptInvariant, UndisturbedInvariant, PTL
  DEF Spec, SuccessIsComplete
=============================================================================
