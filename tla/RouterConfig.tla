----------------------------- MODULE RouterConfig -----------------------------
(***************************************************************************)
(* pfSense users on the router (pfusers/src/pfsense.rs): add_user,         *)
(* update_user and delete_user, each a read of config.xml, the guarded     *)
(* write (write_with_safety) and the steps on the router's accounts.       *)
(*                                                                         *)
(* A step is a command run over SSH by a shell on the router.  The         *)
(* connection can drop in the middle of one: exec_inner then returns what  *)
(* it has, which looks like success, and every later command of that       *)
(* operation fails; the shell goes on with the input it got.  The user     *)
(* reconnects and starts another operation, and nothing keeps two from     *)
(* running at once.                                                        *)
(*                                                                         *)
(* What a document says is all that is modelled of it; XmlSplice has the   *)
(* mutations.  A row's data stands for all the fields of a user but the    *)
(* uid; the groups, the keys and the disabled flag ride along with them:   *)
(* a request sets every field, as those of the window (gui.rs) do.         *)
(***************************************************************************)
EXTENDS Naturals, FiniteSets, Functions

CONSTANTS
  Ops,        \* operations the user starts
  Names,      \* user names
  Datas,      \* what the other fields of a user can be
  Nobody,     \* no data: an account that has none yet, or half a file of keys
  MaxActive   \* bound on the operations running at once

ASSUME RouterAssumption ==
  /\ IsFiniteSet(Names)
  /\ Nobody \notin Datas
  /\ MaxActive \in Nat \ {0}

(* The content of a file: a configuration, half of one, or no file. *)
Torn == [state |-> "torn"]
Absent == [state |-> "absent"]

Requests ==
  [kind : {"add", "update"}, name : Names, data : Datas]
  \cup [kind : {"delete"}, name : Names, data : {Nobody}]

VARIABLES
  conf,      \* config.xml
  tmp,       \* config.xml.pfusers.tmp
  accounts,  \* the router's accounts: uid, shell, keys and lock by name
  pc,        \* of each operation
  job,       \* its request, the configuration it read and the one it writes
  snap,      \* its snapshot in /cf/conf/backup
  live,      \* is its connection up?
  shell,     \* the command on the router that is at work for it
  input,     \* what that command has to write
  fd,        \* the file it writes to
  clean      \* history: no connection has dropped, no two operations overlapped

files == <<conf, tmp>>
remote == <<shell, input, fd>>
vars == <<files, accounts, pc, job, snap, live, remote, clean>>

-----------------------------------------------------------------------------
Ended ==
  {"refused", "writeFailed", "rolledBack", "rollbackFailed", "failed", "ok"}

Running(p) == pc[p] \notin {"idle"} \cup Ended

Busy(p) == Running(p) \/ shell[p] # "none"

NoJob == [req |-> [kind |-> "none"]]

(* The router at first: some users, in step with their accounts. *)
Init ==
  /\ \E S \in SUBSET Names, d \in Datas :
       \E uid \in Injection(S, 1..Cardinality(S)) :
         /\ conf = [users |-> [n \in S |-> [uid |-> uid[n], data |-> d]],
                    next |-> Cardinality(S) + 1]
         /\ accounts = [n \in S |-> [uid |-> uid[n], shell |-> d, keys |-> d,
                                     lock |-> d]]
  /\ tmp = Absent
  /\ pc = [p \in Ops |-> "idle"]
  /\ job = [p \in Ops |-> NoJob]
  /\ snap = [p \in Ops |-> Absent]
  /\ live = [p \in Ops |-> FALSE]
  /\ shell = [p \in Ops |-> "none"]
  /\ input = [p \in Ops |-> Absent]
  /\ fd = [p \in Ops |-> "none"]
  /\ clean = TRUE

Finish(p, outcome) ==
  /\ pc' = [pc EXCEPT ![p] = outcome]
  /\ job' = [job EXCEPT ![p] = NoJob]

Goto(p, where) ==
  /\ pc' = [pc EXCEPT ![p] = where]
  /\ UNCHANGED job

-----------------------------------------------------------------------------
(* What a request makes of a configuration, and when it is refused.        *)

Uid(c, r) == IF r.kind = "add" THEN c.next ELSE c.users[r.name].uid

Allowed(c, r) ==
  /\ c # Torn
  /\ (r.kind = "add") <=> r.name \notin DOMAIN c.users

Rest(c, r) == Restrict(c.users, DOMAIN c.users \ {r.name})

Put(f, name, value) ==
  [n \in DOMAIN f \cup {name} |-> IF n = name THEN value ELSE f[n]]

Row(c, r) == [uid |-> Uid(c, r), data |-> r.data]

(* Mutant: nextuid stays. *)
MutatedNoNext(c, r) ==
  [c EXCEPT !.users = IF r.kind = "delete" THEN Rest(c, r)
                      ELSE Put(c.users, r.name, Row(c, r))]

Mutated(c, r) ==
  [users |-> IF r.kind = "delete" THEN Rest(c, r)
             ELSE Put(c.users, r.name, Row(c, r)),
   next |-> IF r.kind = "add" THEN c.next + 1 ELSE c.next]

(* The checks on what is read back: of the user, not of the rest. *)
Took(c, r, uid) ==
  /\ c # Torn
  /\ CASE r.kind = "delete" -> r.name \notin DOMAIN c.users
       [] r.kind = "update" -> /\ r.name \in DOMAIN c.users
                               /\ c.users[r.name].data = r.data
       [] r.kind = "add" -> /\ r.name \in DOMAIN c.users
                            /\ c.users[r.name].uid = uid
                            /\ c.next = uid + 1

-----------------------------------------------------------------------------
(* The operation reads config.xml and applies its mutations; either may    *)
(* be refused.                                                             *)
Begin(p) ==
  /\ pc[p] = "idle"
  /\ Cardinality({q \in Ops : Busy(q)}) < MaxActive
  /\ clean' = (clean /\ \A q \in Ops : ~Busy(q))
  /\ live' = [live EXCEPT ![p] = TRUE]
  /\ \/ Finish(p, "refused")
     \/ \E r \in Requests :
          /\ Allowed(conf, r)
          /\ pc' = [pc EXCEPT ![p] = "snapshot"]
          /\ job' = [job EXCEPT ![p] =
                       [req |-> r, base |-> conf, uid |-> Uid(conf, r)]]
  /\ UNCHANGED <<files, accounts, snap, remote>>

(* Mutant: goes on without a snapshot. *)
SnapshotIgnored(p) ==
  /\ pc[p] = "snapshot"
  /\ \/ /\ live[p]
        /\ snap' = [snap EXCEPT ![p] = conf]
        /\ Goto(p, "write")
     \/ /\ Goto(p, "write")
        /\ UNCHANGED snap
  /\ UNCHANGED <<files, accounts, live, remote, clean>>

Snapshot(p) ==
  /\ pc[p] = "snapshot"
  /\ \/ /\ live[p]
        /\ snap' = [snap EXCEPT ![p] = conf]
        /\ Goto(p, "write")
     \/ /\ Finish(p, "refused")
        /\ UNCHANGED snap
  /\ UNCHANGED <<files, accounts, live, remote, clean>>

(* cat > tmp truncates the file of whoever else is writing it. *)
OpenTmp(p) ==
  /\ pc[p] = "write"
  /\ \/ /\ live[p]
        /\ tmp' = Torn
        /\ shell' = [shell EXCEPT ![p] = "cat"]
        /\ input' = [input EXCEPT ![p] = Mutated(job[p].base, job[p].req)]
        /\ fd' = [fd EXCEPT ![p] = "tmp"]
        /\ Goto(p, "writing")
     \/ /\ Finish(p, "writeFailed")
        /\ UNCHANGED <<tmp, remote>>
  /\ UNCHANGED <<conf, accounts, snap, live, clean>>

(* A command writes its input to the file it has open, whatever that is    *)
(* called by now.                                                          *)
Flush(p) ==
  /\ tmp' = IF fd[p] = "tmp" THEN input[p] ELSE tmp
  /\ conf' = IF fd[p] = "conf" THEN input[p] ELSE conf
  /\ fd' = [fd EXCEPT ![p] = "none"]
  /\ input' = [input EXCEPT ![p] = Absent]

(* Mutant: the file stays open. *)
CatStaysOpen(p) ==
  /\ shell[p] = "cat"
  /\ tmp' = IF fd[p] = "tmp" THEN input[p] ELSE tmp
  /\ conf' = IF fd[p] = "conf" THEN input[p] ELSE conf
  /\ shell' = [shell EXCEPT ![p] = "mv"]
  /\ UNCHANGED <<accounts, pc, job, snap, live, input, fd, clean>>

(* cat reaches the end of its input. *)
CatEnds(p) ==
  /\ shell[p] = "cat"
  /\ Flush(p)
  /\ shell' = [shell EXCEPT ![p] = "mv"]
  /\ UNCHANGED <<accounts, pc, job, snap, live, clean>>

(* Who hears of the end of a command: the operation, while it is connected. *)
Reply(p, where, done) ==
  IF live[p] /\ pc[p] = where THEN done ELSE UNCHANGED <<pc, job>>

(* The disk is full: the shell stops at &&. *)
CatFails(p) ==
  /\ shell[p] = "cat"
  /\ shell' = [shell EXCEPT ![p] = "none"]
  /\ fd' = [fd EXCEPT ![p] = "none"]
  /\ input' = [input EXCEPT ![p] = Absent]
  /\ Reply(p, "writing", Finish(p, "writeFailed"))
  /\ UNCHANGED <<files, accounts, snap, live, clean>>

(* mv: whoever has one of the two files open keeps it. *)
Moved(f) == CASE f = "tmp" -> "conf" [] f = "conf" -> "lost" [] OTHER -> f

Mv(p) ==
  /\ shell[p] = "mv"
  /\ shell' = [shell EXCEPT ![p] = "none"]
  /\ IF tmp = Absent
     THEN /\ Reply(p, "writing", Finish(p, "writeFailed"))
          /\ UNCHANGED <<files, fd>>
     ELSE /\ conf' = tmp
          /\ tmp' = Absent
          /\ fd' = [q \in Ops |-> Moved(fd[q])]
          /\ Reply(p, "writing", Goto(p, "verify"))
  /\ UNCHANGED <<accounts, snap, live, input, clean>>

-----------------------------------------------------------------------------
(* The file read back, the checks on it and the count of pfSense's parser: *)
(* any of them can fail.                                                   *)
Verify(p) ==
  /\ pc[p] = "verify"
  /\ \/ /\ live[p]
        /\ Took(conf, job[p].req, job[p].uid)
        /\ Goto(p, "account")
     \/ Goto(p, "rollback")
  /\ UNCHANGED <<files, accounts, snap, live, remote, clean>>

(* Mutant: restores what was written. *)
RollbackForward(p) ==
  /\ pc[p] = "rollback"
  /\ \/ /\ live[p]
        /\ conf' = Torn
        /\ shell' = [shell EXCEPT ![p] = "cp"]
        /\ input' = [input EXCEPT ![p] = Mutated(job[p].base, job[p].req)]
        /\ fd' = [fd EXCEPT ![p] = "conf"]
        /\ Goto(p, "rollingBack")
     \/ /\ Finish(p, "rollbackFailed")
        /\ UNCHANGED <<conf, remote>>
  /\ UNCHANGED <<tmp, accounts, snap, live, clean>>

(* cp writes config.xml in place; it may also fail before it touches it.   *)
Rollback(p) ==
  /\ pc[p] = "rollback"
  /\ \/ /\ live[p]
        /\ conf' = Torn
        /\ shell' = [shell EXCEPT ![p] = "cp"]
        /\ input' = [input EXCEPT ![p] = snap[p]]
        /\ fd' = [fd EXCEPT ![p] = "conf"]
        /\ Goto(p, "rollingBack")
     \/ /\ Finish(p, "rollbackFailed")
        /\ UNCHANGED <<conf, remote>>
  /\ UNCHANGED <<tmp, accounts, snap, live, clean>>

CpEnds(p) ==
  /\ shell[p] = "cp"
  /\ Flush(p)
  /\ shell' = [shell EXCEPT ![p] = "none"]
  /\ Reply(p, "rollingBack", Finish(p, "rolledBack"))
  /\ UNCHANGED <<accounts, snap, live, clean>>

(* cp stops in the middle, its disk full as cat's can be, and exits with   *)
(* an error: "ROLLBACK ALSO FAILED".                                       *)
CpFails(p) ==
  /\ shell[p] = "cp"
  /\ shell' = [shell EXCEPT ![p] = "none"]
  /\ fd' = [fd EXCEPT ![p] = "none"]
  /\ input' = [input EXCEPT ![p] = Absent]
  /\ Reply(p, "rollingBack", Finish(p, "rollbackFailed"))
  /\ UNCHANGED <<files, accounts, snap, live, clean>>

-----------------------------------------------------------------------------
(* The connection of an operation drops; a cat gets no more input.         *)
Drop(p) ==
  /\ Running(p)
  /\ live[p]
  /\ live' = [live EXCEPT ![p] = FALSE]
  /\ clean' = FALSE
  /\ \/ UNCHANGED input
     \/ shell[p] = "cat" /\ input' = [input EXCEPT ![p] = Torn]
  /\ UNCHANGED <<files, accounts, pc, job, snap, shell, fd>>

(* The operation takes the end of its channel for success; only a request  *)
(* it could not send is an error.                                          *)
Misled(p) ==
  /\ ~live[p]
  /\ \/ pc[p] = "writing" /\ (Goto(p, "verify") \/ Finish(p, "writeFailed"))
     \/ /\ pc[p] = "rollingBack"
        /\ Finish(p, "rolledBack") \/ Finish(p, "rollbackFailed")
  /\ UNCHANGED <<files, accounts, snap, live, remote, clean>>

-----------------------------------------------------------------------------
(* The steps on the account.  A command works; or the connection drops,    *)
(* which looks as if it had, and it has, has not, or has in part.          *)
Command(p, after, parts, done) ==
  /\ live[p]
  /\ \/ accounts' = after /\ UNCHANGED <<live, clean>>
     \/ /\ accounts' \in parts \cup {accounts, after}
        /\ live' = [live EXCEPT ![p] = FALSE]
        /\ clean' = FALSE
  /\ done

(* It fails; so does any command once the connection is gone.              *)
CommandFails(done) ==
  /\ done
  /\ UNCHANGED <<accounts, live, clean>>

Has(name) == name \in DOMAIN accounts

With(field, r) == [accounts EXCEPT ![r.name][field] = r.data]

(* pw useradd, usermod or userdel; the failure of the last is ignored.     *)
Account(p) ==
  LET r == job[p].req
      fresh == [uid |-> job[p].uid, shell |-> r.data, keys |-> Nobody,
                lock |-> r.data]
  IN
  /\ pc[p] = "account"
  /\ CASE r.kind = "add" ->
            \/ /\ ~Has(r.name)
               /\ \A n \in DOMAIN accounts : accounts[n].uid # job[p].uid
               /\ Command(p, Put(accounts, r.name, fresh), {}, Goto(p, "keys"))
            \/ CommandFails(Finish(p, "failed"))
       [] r.kind = "update" ->
            \/ /\ Has(r.name)
               /\ Command(p, With("shell", r), {}, Goto(p, "keys"))
            \/ CommandFails(Finish(p, "failed"))
       [] r.kind = "delete" ->
            \/ Command(p, Restrict(accounts, DOMAIN accounts \ {r.name}), {},
                       Finish(p, "ok"))
            \/ CommandFails(Finish(p, "ok"))
  /\ UNCHANGED <<files, snap, remote>>

(* Mutant: an account whose keys were not written is fine. *)
KeysIgnored(p) ==
  LET r == job[p].req
      next == IF r.kind = "add" THEN Finish(p, "ok") ELSE Goto(p, "lock")
      half == [accounts EXCEPT ![r.name].keys = Nobody]
  IN
  /\ pc[p] = "keys"
  /\ \/ Has(r.name) /\ Command(p, With("keys", r), {half}, next)
     \/ CommandFails(next)
  /\ UNCHANGED <<files, snap, remote>>

(* authorized_keys is truncated and written; a new user's account is done. *)
Keys(p) ==
  LET r == job[p].req
      next == IF r.kind = "add" THEN Finish(p, "ok") ELSE Goto(p, "lock")
      half == [accounts EXCEPT ![r.name].keys = Nobody]
  IN
  /\ pc[p] = "keys"
  /\ \/ Has(r.name) /\ Command(p, With("keys", r), {half}, next)
     \/ CommandFails(Finish(p, "failed"))
  /\ UNCHANGED <<files, snap, remote>>

(* pw lock or unlock, whose failure is ignored. *)
Lock(p) ==
  LET r == job[p].req
  IN
  /\ pc[p] = "lock"
  /\ \/ Has(r.name) /\ Command(p, With("lock", r), {}, Finish(p, "ok"))
     \/ CommandFails(Finish(p, "ok"))
  /\ UNCHANGED <<files, snap, remote>>

Next ==
  \E p \in Ops :
    \/ Begin(p) \/ Snapshot(p) \/ OpenTmp(p)
    \/ CatEnds(p) \/ CatFails(p) \/ Mv(p)
    \/ Verify(p) \/ Rollback(p) \/ CpEnds(p) \/ CpFails(p)
    \/ Drop(p) \/ Misled(p)
    \/ Account(p) \/ Keys(p) \/ Lock(p)

Spec == Init /\ [][Next]_vars

-----------------------------------------------------------------------------
Whole(c) == c # Torn /\ c # Absent

UidsOf(c) == {c.users[n].uid : n \in DOMAIN c.users}

TypeOK ==
  /\ conf = Torn \/ (DOMAIN conf.users \subseteq Names /\ conf.next \in Nat)
  /\ DOMAIN accounts \subseteq Names
  /\ live \in [Ops -> BOOLEAN]
  /\ clean \in BOOLEAN
  /\ \A p \in Ops :
       /\ pc[p] \in Ended \cup
                     {"idle", "snapshot", "write", "writing", "verify",
                      "rollback", "rollingBack", "account", "keys", "lock"}
       /\ shell[p] \in {"none", "cat", "mv", "cp"}
       /\ fd[p] \in {"none", "tmp", "conf", "lost"}
       /\ shell[p] \in {"none", "mv"} => fd[p] = "none" /\ input[p] = Absent

(* Whatever drops, overlaps or comes late: a configuration that is whole   *)
(* gives no uid twice, and will not give one that is taken (add_user       *)
(* 608-631).                                                               *)
UidsUnique ==
  Whole(conf) =>
    /\ \A n, m \in DOMAIN conf.users :
         conf.users[n].uid = conf.users[m].uid => n = m
    /\ \A u \in UidsOf(conf) : u < conf.next

(* Whatever happened to config.xml, a whole one is kept in the backup      *)
(* directory (pfsense.rs 858-861, 885-889).  Without drops and overlaps    *)
(* half a config.xml is on disk (955-957) only during a rollback's cp, or  *)
(* after one that failed and said so; then the snapshot it names is whole. *)
Recoverable ==
  conf = Torn =>
    /\ \E p \in Ops : Whole(snap[p])
    /\ clean => \E p \in Ops :
                  /\ shell[p] = "cp" \/ pc[p] = "rollbackFailed"
                  /\ Whole(snap[p])

Ends(p, outcomes) == pc[p] # pc'[p] /\ pc'[p] \in outcomes

(* An operation that reports a failure of the guarded write, and not of    *)
(* the rollback as well, has left config.xml as it found it (pfsense.rs    *)
(* 846-848, 869-871).                                                      *)
FailureLeavesAsBefore ==
  [][\A p \in Ops :
       /\ clean' /\ Running(p)
       /\ Ends(p, {"refused", "writeFailed", "rolledBack"})
       => conf' = job[p].base]_vars

(* An operation that reports success has done what was asked, in           *)
(* config.xml and for the shell and keys of the account (pfsense.rs 15-20). *)
SuccessIsComplete ==
  [][\A p \in Ops :
       clean' /\ Ends(p, {"ok"}) =>
         LET r == job[p].req
         IN  /\ conf' = Mutated(job[p].base, r)
             /\ r.kind # "delete" =>
                  /\ accounts'[r.name].shell = r.data
                  /\ accounts'[r.name].keys = r.data]_vars
=============================================================================
