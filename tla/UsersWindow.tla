----------------------------- MODULE UsersWindow -----------------------------
(***************************************************************************)
(* The window of pfUsers (pfusers/src/gui.rs): its list of users, the form *)
(* and the delete dialog, its settings (config.rs), the connection         *)
(* (ssh.rs) and the background tasks that connect, list, save, add and     *)
(* delete.                                                                 *)
(*                                                                         *)
(* The window's handlers run one at a time on the UI thread.  A task is    *)
(* spawned by one of them and works on what it was given then: a copy of   *)
(* the settings or the handle of the connection.  It awaits the router     *)
(* without the lock on the shared state and takes the lock for each of its *)
(* updates, so tasks interleave with each other and with the user.  A      *)
(* disabled button, or a handler that returns early, is a guard.           *)
(*                                                                         *)
(* An operation on the router is one step here: it has its effect, is      *)
(* refused, or fails with or without it.  RouterConfig has the steps of    *)
(* one.  A handle is the router it leads to.  Nobody else edits the        *)
(* routers.                                                                *)
(***************************************************************************)
EXTENDS Naturals, Functions

CONSTANTS
  Hosts,      \* routers
  Names,      \* users
  Datas,      \* what the fields of a user can be
  NoName,     \* nothing typed
  NoList,     \* a listing that failed
  NoKey,      \* no fingerprint recorded: trust on first use
  KeyOf,      \* the host key each router presents
  Default,    \* the host of the default settings
  Routers,    \* the users each router may have at first
  MaxTasks,   \* bound on the tasks running at once
  MaxClicks   \* bound on the tasks spawned, the first connection apart

Keys == {KeyOf[h] : h \in Hosts}
Settings == [host : Hosts, key : Keys \cup {NoKey}]
Rows == UNION {[S -> Datas] : S \in SUBSET Names}
NoRows == [n \in {} |-> NoName]

ASSUME WindowAssumption ==
  /\ Default \in Hosts
  /\ NoKey \notin Keys
  /\ NoName \notin Names
  /\ Routers \subseteq [Hosts -> Rows]
  /\ MaxTasks \in Nat \ {0} /\ MaxClicks \in Nat

VARIABLES
  rows,     \* on each router: its users
  disk,     \* the settings file
  cfg,      \* App.cfg
  conn,     \* SharedState.conn
  users,    \* SharedState.users, and the router they were read from
  loading,  \* SharedState.loading_users
  pending,  \* is SharedState.pending_op set?
  form,     \* App.edit_buffer (App.selected is its name)
  dialog,   \* App.confirm_delete and App.delete_confirm_text
  task,     \* the background tasks
  clicks,   \* how many have been
  fresh,    \* history: is the list that of the last task, which ran alone?
  raced,    \* history: has a connection been asked for while one was dialled?
  unsaved   \* history: has a save of the settings failed?

shared == <<conn, users, loading, pending>>
app == <<cfg, form, dialog, clicks>>
history == <<fresh, raced, unsaved>>
vars == <<rows, disk, shared, app, task, history>>

-----------------------------------------------------------------------------
Slots == 1..MaxTasks
Free == [kind |-> "free"]
Used == {t \in Slots : task[t] # Free}

Dialling(t) == task[t] # Free /\ task[t].at = "dialling"
Connected == conn.state = "connected"
NoForm == [name |-> NoName]
NoDialog == [target |-> NoName, text |-> NoName]

(* f, with the fields, or the users, of new. *)
Updated(f, new) ==
  [x \in DOMAIN f \cup DOMAIN new |->
     IF x \in DOMAIN new THEN new[x] ELSE f[x]]

(* A task takes a free slot.  Those it overlaps no longer run alone.       *)
Spawn(new) ==
  /\ clicks < MaxClicks
  /\ clicks' = clicks + 1
  /\ \E t \in Slots :
       /\ task[t] = Free
       /\ \A u \in 1..(t - 1) : task[u] # Free
       /\ task' = [u \in Slots |->
                     IF u = t THEN Updated(new, [alone |-> Used = {}])
                     ELSE IF task[u] = Free THEN Free
                     ELSE [task[u] EXCEPT !.alone = FALSE]]
  /\ fresh' = FALSE

Connect(settings) ==
  [kind |-> "connect", at |-> "dialling", host |-> settings.host,
   key |-> settings.key]

NoTasks == [t \in Slots |-> Free]
Opening(settings) ==
  [NoTasks EXCEPT ![1] = Updated(Connect(settings), [alone |-> TRUE])]

(* load_or_default, then App::new, which connects. *)
Init ==
  /\ rows \in Routers
  /\ disk \in [host : {Default}, key : {NoKey, KeyOf[Default]}]
  /\ cfg = disk
  /\ conn = [state |-> "connecting"]
  /\ users = [from |-> disk.host, rows |-> NoRows]
  /\ loading = FALSE /\ pending = FALSE
  /\ form = NoForm /\ dialog = NoDialog
  /\ task = Opening(disk) /\ clicks = 0
  /\ fresh = FALSE /\ raced = FALSE /\ unsaved = FALSE

-----------------------------------------------------------------------------
(* The user *)

(* The window is closed and opened again.  Its tasks end where they are.   *)
Reopen ==
  /\ cfg' = disk
  /\ conn' = [state |-> "connecting"]
  /\ users' = [from |-> disk.host, rows |-> NoRows]
  /\ loading' = FALSE /\ pending' = FALSE
  /\ form' = NoForm /\ dialog' = NoDialog
  /\ clicks < MaxClicks
  /\ task' = Opening(disk) /\ clicks' = clicks + 1
  /\ fresh' = FALSE /\ raced' = FALSE /\ unsaved' = FALSE
  /\ UNCHANGED <<rows, disk>>

(* A click on a row of the sidebar fills the form from it.                 *)
Select(n) ==
  /\ n \in DOMAIN users.rows
  /\ form' = [name |-> n, data |-> users.rows[n]]
  /\ UNCHANGED <<rows, disk, shared, cfg, dialog, clicks, task, history>>

Edit(d) ==
  /\ form # NoForm
  /\ form' = [form EXCEPT !.data = d]
  /\ UNCHANGED <<rows, disk, shared, cfg, dialog, clicks, task, history>>

(* is_dirty against the list; a user who is not in it is dirty. *)
Dirty == form.name \in DOMAIN users.rows => form.data # users.rows[form.name]

Op(kind, n, d) == [kind |-> kind, at |-> "working", host |-> conn.host,
                   name |-> n, data |-> d]

(* spawn_save_user, spawn_add_user and spawn_delete_user: nothing happens  *)
(* unless connected.                                                       *)
SpawnOp(kind, n, d) ==
  /\ Spawn(Op(kind, n, d))
  /\ pending' = TRUE

Save ==
  /\ form # NoForm
  /\ Dirty
  /\ Connected
  /\ SpawnOp("save", form.name, form.data)
  /\ UNCHANGED <<rows, disk, conn, users, loading, cfg, form, dialog, raced,
                 unsaved>>

(* The dialog closes whether or not there is a connection. *)
Add(n, d) ==
  /\ Connected
  /\ SpawnOp("add", n, d)
  /\ UNCHANGED <<rows, disk, conn, users, loading, cfg, form, dialog, raced,
                 unsaved>>

(* "Delete user...": the dialog does not block the rest of the window. *)
AskDelete ==
  /\ form # NoForm
  /\ dialog' = [target |-> form.name, text |-> NoName]
  /\ UNCHANGED <<rows, disk, shared, cfg, form, clicks, task, history>>

Type(n) ==
  /\ dialog # NoDialog
  /\ dialog' = [dialog EXCEPT !.text = n]
  /\ UNCHANGED <<rows, disk, shared, cfg, form, clicks, task, history>>

(* Mutant: what was typed stays when the dialog closes. *)
CancelDeleteKeepsText ==
  /\ dialog # NoDialog
  /\ dialog' = [dialog EXCEPT !.target = NoName]
  /\ UNCHANGED <<rows, disk, shared, cfg, form, clicks, task, history>>

CancelDelete ==
  /\ dialog # NoDialog
  /\ dialog' = NoDialog
  /\ UNCHANGED <<rows, disk, shared, cfg, form, clicks, task, history>>

(* The form is cleared, whoever is in it, and whether or not there is a    *)
(* connection to delete by.                                                *)
ConfirmDelete ==
  /\ dialog # NoDialog
  /\ dialog.text = dialog.target
  /\ dialog' = NoDialog
  /\ form' = NoForm
  /\ IF Connected
     THEN SpawnOp("delete", dialog.target, NoName)
     ELSE UNCHANGED <<task, pending, clicks, fresh>>
  /\ UNCHANGED <<rows, disk, conn, users, loading, cfg, raced, unsaved>>

Refresh ==
  /\ Connected
  /\ Spawn([kind |-> "refresh", at |-> "listing", host |-> conn.host])
  /\ loading' = TRUE
  /\ UNCHANGED <<rows, disk, conn, users, pending, cfg, form, dialog, raced,
                 unsaved>>

(* "Save & Reconnect" in the settings.  The fingerprint is that of cfg or  *)
(* forgotten; a failure to save is ignored.                                *)
SaveAndReconnect(settings) ==
  /\ cfg' = settings
  /\ \/ disk' = settings /\ UNCHANGED unsaved
     \/ unsaved' = TRUE /\ UNCHANGED disk
  /\ Spawn(Connect(settings))
  /\ conn' = [state |-> "connecting"]
  /\ raced' = \E t \in Slots : Dialling(t)
  /\ UNCHANGED <<rows, users, loading, pending, form, dialog>>

User ==
  \/ Reopen
  \/ \E n \in Names : Select(n) \/ Type(n)
  \/ \E d \in Datas : Edit(d)
  \/ \E n \in Names, d \in Datas : Add(n, d)
  \/ Save \/ AskDelete \/ CancelDelete \/ ConfirmDelete \/ Refresh
  \/ \E h \in Hosts, k \in {cfg.key, NoKey} :
       SaveAndReconnect([host |-> h, key |-> k])

-----------------------------------------------------------------------------
(* The tasks *)

Step(t, changed) == task' = [task EXCEPT ![t] = Updated(@, changed)]
End(t) == task' = [task EXCEPT ![t] = Free]

(* Mutant: the fingerprint is not recorded. *)
DialledUnrecorded(t) ==
  /\ Dialling(t)
  /\ task[t].key \in {NoKey, KeyOf[task[t].host]}
  /\ conn' = [state |-> "connected", host |-> task[t].host]
  /\ loading' = TRUE
  /\ Step(t, [at |-> "listing"])
  /\ UNCHANGED <<rows, disk, users, pending, app, history>>

(* Phase 1 of spawn_connect, when ssh::connect has returned Ok: a key that *)
(* is recorded must match; one that is not is recorded now, in a copy of   *)
(* the settings the task was given.                                        *)
Dialled(t) ==
  /\ Dialling(t)
  /\ task[t].key \in {NoKey, KeyOf[task[t].host]}
  /\ conn' = [state |-> "connected", host |-> task[t].host]
  /\ loading' = TRUE
  /\ IF task[t].key = NoKey
     THEN \/ /\ disk' = [host |-> task[t].host, key |-> KeyOf[task[t].host]]
             /\ UNCHANGED unsaved
          \/ /\ unsaved' = TRUE
             /\ UNCHANGED disk
     ELSE UNCHANGED <<disk, unsaved>>
  /\ Step(t, [at |-> "listing"])
  /\ UNCHANGED <<rows, users, pending, app, fresh, raced>>

(* No connection, the wrong key, or the user's own key is not accepted.    *)
DialFails(t) ==
  /\ Dialling(t)
  /\ conn' = [state |-> "failed"]
  /\ End(t)
  /\ UNCHANGED <<rows, disk, users, loading, pending, app, history>>

Allowed(r, o) == (o.kind = "add") <=> (o.name \notin DOMAIN r)

Result(r, o) ==
  IF o.kind = "delete" THEN Restrict(r, DOMAIN r \ {o.name})
  ELSE Updated(r, [n \in {o.name} |-> o.data])

(* Mutant: tried again until it is done. *)
WorkUntilDone(t) ==
  /\ task[t] # Free
  /\ task[t].at = "working"
  /\ Allowed(rows[task[t].host], task[t])
  /\ rows' = [rows EXCEPT ![task[t].host] = Result(@, task[t])]
  /\ Step(t, [at |-> "listing", ok |-> TRUE])
  /\ UNCHANGED <<disk, shared, app, history>>

(* The operation on the router: refused or failed, failed after its        *)
(* effect, or done.                                                        *)
Work(t) ==
  /\ task[t] # Free
  /\ task[t].at = "working"
  /\ \E ok \in BOOLEAN :
       /\ \/ /\ ~ok
             /\ UNCHANGED rows
          \/ /\ Allowed(rows[task[t].host], task[t])
             /\ rows' = [rows EXCEPT ![task[t].host] = Result(@, task[t])]
       /\ Step(t, [at |-> "listing", ok |-> ok])
  /\ UNCHANGED <<disk, shared, app, history>>

(* list_users: config.xml as it is now, or a failure. *)
List(t) ==
  /\ task[t] # Free
  /\ task[t].at = "listing"
  /\ \E l \in {rows[task[t].host], NoList} :
       Step(t, [at |-> "listed", list |-> l])
  /\ UNCHANGED <<rows, disk, shared, app, history>>

Listed(t) == task[t] # Free /\ task[t].at = "listed"

Show(t) ==
  /\ users' = [from |-> task[t].host, rows |-> task[t].list]
  /\ fresh' = task[t].alone

Keep == UNCHANGED <<users, fresh>>

(* The end of spawn_connect and spawn_refresh. *)
EndList(t) ==
  /\ Listed(t)
  /\ task[t].kind \in {"connect", "refresh"}
  /\ loading' = FALSE
  /\ IF task[t].list = NoList THEN Keep ELSE Show(t)
  /\ End(t)
  /\ UNCHANGED <<rows, disk, conn, pending, app, raced, unsaved>>

(* Mutant: pending_op is only cleared when the operation succeeded. *)
EndOpOnSuccess(t) ==
  /\ Listed(t)
  /\ task[t].kind \in {"save", "add", "delete"}
  /\ IF ~task[t].ok
     THEN Keep /\ UNCHANGED pending
     ELSE /\ pending' = FALSE
          /\ IF task[t].list = NoList THEN Keep ELSE Show(t)
  /\ End(t)
  /\ UNCHANGED <<rows, disk, conn, loading, app, raced, unsaved>>

(* Mutant: the list is patched with what was asked for. *)
EndOpLocally(t) ==
  /\ Listed(t)
  /\ task[t].kind \in {"save", "add", "delete"}
  /\ pending' = FALSE
  /\ IF ~task[t].ok THEN Keep
     ELSE /\ users' = [users EXCEPT !.rows = Result(@, task[t])]
          /\ fresh' = task[t].alone
  /\ End(t)
  /\ UNCHANGED <<rows, disk, conn, loading, app, raced, unsaved>>

(* The end of an operation: the list read after it is shown if both        *)
(* succeeded.                                                              *)
EndOp(t) ==
  /\ Listed(t)
  /\ task[t].kind \in {"save", "add", "delete"}
  /\ pending' = FALSE
  /\ IF ~task[t].ok \/ task[t].list = NoList THEN Keep ELSE Show(t)
  /\ End(t)
  /\ UNCHANGED <<rows, disk, conn, loading, app, raced, unsaved>>

TaskStep(t) ==
  Dialled(t) \/ DialFails(t) \/ Work(t) \/ List(t) \/ EndList(t) \/ EndOp(t)

Next == User \/ \E t \in Slots : TaskStep(t)

(* A task goes on: the runtime polls it, and both a connection that is not *)
(* answered (TCP) and one that falls silent (ssh.rs 73) end.               *)
Fairness == \A t \in Slots : WF_vars(TaskStep(t))

Spec == Init /\ [][Next]_vars /\ Fairness

-----------------------------------------------------------------------------
(* Properties *)

Busy(kinds, steps) ==
  \E t \in Used : task[t].kind \in kinds /\ task[t].at \in steps

TaskType(t) ==
  \/ task[t] = Free
  \/ /\ task[t].host \in Hosts
     /\ task[t].alone \in BOOLEAN
     /\ \/ task[t].at = "dialling" /\ task[t].kind = "connect"
        \/ task[t].at = "working" /\ task[t].kind \in {"save", "add", "delete"}
        \/ task[t].at = "listing"
        \/ task[t].at = "listed" /\ task[t].list \in Rows \cup {NoList}

(* The window's state is well-formed; the delete dialog names a user. *)
TypeOK ==
  /\ rows \in [Hosts -> Rows]
  /\ disk \in Settings /\ cfg \in Settings
  /\ \/ conn \in [state : {"connecting", "failed"}]
     \/ conn \in [state : {"connected"}, host : Hosts]
  /\ users \in [from : Hosts, rows : Rows]
  /\ loading \in BOOLEAN /\ pending \in BOOLEAN
  /\ form = NoForm \/ form \in [name : Names, data : Datas]
  /\ \/ dialog = NoDialog
     \/ dialog \in [target : Names, text : Names \cup {NoName}]
  /\ \A t \in Slots : TaskType(t)
  /\ clicks \in 0..MaxClicks

(* What the window says is going on is going on: "Saving...", "Refreshing  *)
(* users..." and "Connecting..." each have a task at work, however the     *)
(* tasks overlap.  Every task clears the one flag at its end (gui.rs 261,  *)
(* 296, 334, 387, 417), so the first of two to end clears it early, but    *)
(* none leaves it set.                                                     *)
SignsHonest ==
  /\ pending =>
       Busy({"save", "add", "delete"}, {"working", "listing", "listed"})
  /\ loading => Busy({"connect", "refresh"}, {"listing", "listed"})
  /\ conn.state = "connecting" => Busy({"connect"}, {"dialling"})

(* "Refresh after, so the UI reflects the canonical server state" (gui.rs  *)
(* 331): once a task that ran alone has shown its list, the list is what   *)
(* the connected router has, until another task is spawned.  Overlapping   *)
(* tasks may show theirs out of order.                                     *)
ListIsCurrent ==
  fresh => /\ users.rows = rows[users.from]
           /\ Connected => users.from = conn.host

(* The router of the settings, of the file and of the connection is one,   *)
(* and a connection leaves its key in the file (gui.rs 223-233, 1188-1195),*)
(* unless a save of the settings failed or two connections were dialled at *)
(* once: the later to end decides conn and the file then.                  *)
SettingsAgree ==
  ~raced /\ ~unsaved =>
    /\ disk.host = cfg.host
    /\ Connected => conn.host = cfg.host /\ disk.key = KeyOf[cfg.host]

(* No sign stays on for good, whatever fails, the router does and the user *)
(* clicks: pending_op, loading_users and "Connecting..." are cleared on    *)
(* every way out of a task (gui.rs 223-251, 261, 296, 334, 387, 417).      *)
SignsClear ==
  /\ pending ~> ~pending
  /\ loading ~> ~loading
  /\ conn.state = "connecting" ~> conn.state # "connecting"

=============================================================================
