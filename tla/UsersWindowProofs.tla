--------------------------- MODULE UsersWindowProofs ---------------------------
(***************************************************************************)
(* For any number of routers, users, tasks and clicks: what the window     *)
(* says is going on is going on; the list is the router's once a task that *)
(* ran alone has shown it; and settings, file and connection agree unless  *)
(* two connections were dialled at once.                                   *)
(***************************************************************************)
EXTENDS UsersWindow, TLAPS

LEMMA UpdatedFields ==
  ASSUME NEW f, NEW new
  PROVE  LET all == Updated(f, new)
         IN  /\ DOMAIN all = DOMAIN f \cup DOMAIN new
             /\ \A x \in DOMAIN new : all[x] = new[x]
             /\ \A x \in DOMAIN f \ DOMAIN new : all[x] = f[x]
BY DEF Updated

-----------------------------------------------------------------------------
(* What a task is, at each of its steps. *)

Lists == Rows \cup {NoList}
OpKinds == {"save", "add", "delete"}

IsTask(r) ==
  /\ {"kind", "at", "host", "alone"} \subseteq DOMAIN r
  /\ r.kind \in {"connect", "refresh"} \cup OpKinds
  /\ r.at \in {"dialling", "working", "listing", "listed"}
  /\ r.host \in Hosts
  /\ r.alone \in BOOLEAN
  /\ r.at = "dialling" =>
       /\ r.kind = "connect"
       /\ "key" \in DOMAIN r
       /\ r.key \in Keys \cup {NoKey}
  /\ r.at = "working" => r.kind \in OpKinds
  /\ r.kind \in OpKinds =>
       /\ {"name", "data"} \subseteq DOMAIN r
       /\ r.name \in Names
       /\ r.kind # "delete" => r.data \in Datas
  /\ r.at = "listed" =>
       /\ "list" \in DOMAIN r
       /\ r.list \in Lists

(* Whether other tasks overlap it makes no other difference. *)
SameTask(r, s) ==
  /\ s.kind = r.kind /\ s.at = r.at /\ s.host = r.host
  /\ r.at = "dialling" => s.key = r.key
  /\ r.at = "listed" => s.list = r.list

LEMMA TaskIsNotFree ==
  ASSUME NEW r, IsTask(r)
  PROVE  r # Free
BY DEF IsTask, Free, OpKinds

LEMMA NoLongerAlone ==
  ASSUME NEW r, IsTask(r)
  PROVE  LET s == [r EXCEPT !.alone = FALSE]
         IN  IsTask(s) /\ SameTask(r, s) /\ s.alone = FALSE
<1> DEFINE s == [r EXCEPT !.alone = FALSE]
<1>1. /\ DOMAIN s = DOMAIN r
      /\ s.alone = FALSE
      /\ \A x \in DOMAIN r \ {"alone"} : s[x] = r[x]
  BY DEF IsTask
<1> HIDE DEF s
<1> QED
  BY <1>1 DEF IsTask, SameTask, OpKinds

(* A connection that is up, an operation that has been tried, and a list   *)
(* that has been read.                                                     *)
LEMMA NowListing ==
  ASSUME NEW r, IsTask(r), r.at = "dialling"
  PROVE  LET s == Updated(r, [at |-> "listing"])
         IN  /\ IsTask(s) /\ s.at = "listing"
             /\ s.kind = "connect" /\ s.host = r.host /\ s.alone = r.alone
<1> DEFINE new == [at |-> "listing"]
           s == Updated(r, new)
<1>1. DOMAIN new = {"at"} /\ new.at = "listing"
  OBVIOUS
<1>2. /\ DOMAIN s = DOMAIN r \cup {"at"}
      /\ s.at = "listing"
      /\ \A x \in DOMAIN r \ {"at"} : s[x] = r[x]
  BY <1>1 DEF Updated
<1> QED
  BY <1>2 DEF IsTask, OpKinds

LEMMA NowTried ==
  ASSUME NEW r, IsTask(r), r.at = "working", NEW ok
  PROVE  LET s == Updated(r, [at |-> "listing", ok |-> ok])
         IN  /\ IsTask(s) /\ s.at = "listing"
             /\ s.kind = r.kind /\ s.host = r.host /\ s.alone = r.alone
<1> DEFINE new == [at |-> "listing", ok |-> ok]
           s == Updated(r, new)
<1>1. DOMAIN new = {"at", "ok"} /\ new.at = "listing"
  OBVIOUS
<1>2. /\ DOMAIN s = DOMAIN r \cup {"at", "ok"}
      /\ s.at = "listing"
      /\ \A x \in DOMAIN r \ {"at", "ok"} : s[x] = r[x]
  BY <1>1 DEF Updated
<1> QED
  BY <1>2 DEF IsTask, OpKinds

LEMMA NowListed ==
  ASSUME NEW r, IsTask(r), r.at = "listing", NEW l \in Lists
  PROVE  LET s == Updated(r, [at |-> "listed", list |-> l])
         IN  /\ IsTask(s) /\ s.at = "listed" /\ s.list = l
             /\ s.kind = r.kind /\ s.host = r.host /\ s.alone = r.alone
<1> DEFINE new == [at |-> "listed", list |-> l]
           s == Updated(r, new)
<1>1. DOMAIN new = {"at", "list"} /\ new.at = "listed" /\ new.list = l
  OBVIOUS
<1>2. /\ DOMAIN s = DOMAIN r \cup {"at", "list"}
      /\ s.at = "listed" /\ s.list = l
      /\ \A x \in DOMAIN r \ {"at", "list"} : s[x] = r[x]
  BY <1>1 DEF Updated
<1> QED
  BY <1>2 DEF IsTask, OpKinds

(* What is spawned. *)
LEMMA NewConnect ==
  ASSUME NEW settings \in Settings, NEW alone \in BOOLEAN
  PROVE  LET s == Updated(Connect(settings), [alone |-> alone])
         IN  /\ IsTask(s) /\ s.kind = "connect" /\ s.at = "dialling"
             /\ s.host = settings.host /\ s.key = settings.key
             /\ s.alone = alone
<1> DEFINE r == Connect(settings)
           new == [alone |-> alone]
<1> SUFFICES ASSUME NEW s, s = Updated(r, new)
             PROVE  /\ IsTask(s) /\ s.kind = "connect" /\ s.at = "dialling"
                    /\ s.host = settings.host /\ s.key = settings.key
                    /\ s.alone = alone
  OBVIOUS
<1>1. /\ DOMAIN r = {"kind", "at", "host", "key"}
      /\ r.kind = "connect" /\ r.at = "dialling"
      /\ r.host = settings.host /\ r.key = settings.key
  BY DEF Connect
<1>2. DOMAIN new = {"alone"} /\ new.alone = alone
  OBVIOUS
<1>3. settings.host \in Hosts /\ settings.key \in Keys \cup {NoKey}
  BY DEF Settings
<1> HIDE DEF r, new
<1>4. /\ DOMAIN s = {"kind", "at", "host", "key", "alone"}
      /\ s.kind = "connect" /\ s.at = "dialling"
      /\ s.host = settings.host /\ s.key = settings.key
      /\ s.alone = alone
  BY <1>1, <1>2 DEF Updated
<1> QED
  BY <1>3, <1>4 DEF IsTask, OpKinds
LEMMA NewRefresh ==
  ASSUME NEW host \in Hosts, NEW alone \in BOOLEAN
  PROVE  LET s == Updated([kind |-> "refresh", at |-> "listing",
                           host |-> host], [alone |-> alone])
         IN  /\ IsTask(s) /\ s.kind = "refresh" /\ s.at = "listing"
             /\ s.host = host /\ s.alone = alone
<1> DEFINE r == [kind |-> "refresh", at |-> "listing", host |-> host]
           new == [alone |-> alone]
<1> SUFFICES ASSUME NEW s, s = Updated(r, new)
             PROVE  /\ IsTask(s) /\ s.kind = "refresh" /\ s.at = "listing"
                    /\ s.host = host /\ s.alone = alone
  OBVIOUS
<1>1. /\ DOMAIN r = {"kind", "at", "host"}
      /\ r.kind = "refresh" /\ r.at = "listing" /\ r.host = host
  OBVIOUS
<1>2. DOMAIN new = {"alone"} /\ new.alone = alone
  OBVIOUS
<1> HIDE DEF r, new
<1>3. /\ DOMAIN s = {"kind", "at", "host", "alone"}
      /\ s.kind = "refresh" /\ s.at = "listing"
      /\ s.host = host /\ s.alone = alone
  BY <1>1, <1>2 DEF Updated
<1> QED
  BY <1>3 DEF IsTask, OpKinds

LEMMA NewOp ==
  ASSUME conn.host \in Hosts, NEW kind \in OpKinds, NEW n \in Names, NEW d,
         kind # "delete" => d \in Datas, NEW alone \in BOOLEAN
  PROVE  LET s == Updated(Op(kind, n, d), [alone |-> alone])
         IN  /\ IsTask(s) /\ s.kind = kind /\ s.at = "working"
             /\ s.host = conn.host /\ s.alone = alone
<1> DEFINE r == Op(kind, n, d)
           new == [alone |-> alone]
<1> SUFFICES ASSUME NEW s, s = Updated(r, new)
             PROVE  /\ IsTask(s) /\ s.kind = kind /\ s.at = "working"
                    /\ s.host = conn.host /\ s.alone = alone
  OBVIOUS
<1>1. /\ DOMAIN r = {"kind", "at", "host", "name", "data"}
      /\ r.kind = kind /\ r.at = "working" /\ r.host = conn.host
      /\ r.name = n /\ r.data = d
  BY DEF Op
<1>2. DOMAIN new = {"alone"} /\ new.alone = alone
  OBVIOUS
<1> HIDE DEF r, new
<1>3. /\ DOMAIN s = {"kind", "at", "host", "name", "data", "alone"}
      /\ s.kind = kind /\ s.at = "working" /\ s.host = conn.host
      /\ s.name = n /\ s.data = d /\ s.alone = alone
  BY <1>1, <1>2 DEF Updated
<1> QED
  BY <1>3 DEF IsTask, OpKinds

-----------------------------------------------------------------------------
(* The tasks as a whole *)

AllTasks ==
  /\ DOMAIN task = Slots
  /\ \A t \in Slots : task[t] = Free \/ IsTask(task[t])

(* The window opens with one task, which connects. *)
LEMMA OpeningTasks ==
  ASSUME NEW settings \in Settings
  PROVE  LET tasks == Opening(settings)
         IN  /\ DOMAIN tasks = Slots
             /\ 1 \in Slots
             /\ IsTask(tasks[1])
             /\ tasks[1].kind = "connect" /\ tasks[1].at = "dialling"
             /\ tasks[1].host = settings.host
             /\ tasks[1].key = settings.key
             /\ tasks[1].alone = TRUE
             /\ \A t \in Slots \ {1} : tasks[t] = Free
<1> DEFINE s == Updated(Connect(settings), [alone |-> TRUE])
<1>1. 1 \in Slots
  BY WindowAssumption DEF Slots
<1>2. /\ IsTask(s) /\ s.kind = "connect" /\ s.at = "dialling"
      /\ s.host = settings.host /\ s.key = settings.key
      /\ s.alone = TRUE
  BY NewConnect
<1>3. Opening(settings) = [NoTasks EXCEPT ![1] = s]
  BY DEF Opening
<1> HIDE DEF s
<1>4. /\ DOMAIN Opening(settings) = Slots
      /\ Opening(settings)[1] = s
      /\ \A t \in Slots \ {1} : Opening(settings)[t] = Free
  BY <1>1, <1>3 DEF NoTasks
<1> QED
  BY <1>1, <1>2, <1>4

(* A spawn fills a free slot; the other tasks go on, no longer alone.      *)
Joins(t) ==
  /\ task[t] = Free
  /\ IsTask(task'[t])
  /\ task'[t].alone = TRUE => Used = {}
  /\ \A u \in Slots \ {t} :
       \/ task[u] = Free /\ task'[u] = Free
       \/ /\ task[u] # Free
          /\ IsTask(task'[u])
          /\ SameTask(task[u], task'[u])
          /\ task'[u].alone = FALSE

LEMMA SpawnJoins ==
  ASSUME AllTasks, NEW new, Spawn(new),
         \A alone \in BOOLEAN :
           LET s == Updated(new, [alone |-> alone])
           IN  IsTask(s) /\ s.alone = alone
  PROVE  /\ DOMAIN task' = Slots
         /\ fresh' = FALSE
         /\ \E t \in Slots, alone \in BOOLEAN :
              /\ Joins(t)
              /\ task'[t] = Updated(new, [alone |-> alone])
<1>1. PICK t \in Slots :
        /\ task[t] = Free
        /\ task' = [u \in Slots |->
                     IF u = t THEN Updated(new, [alone |-> Used = {}])
                     ELSE IF task[u] = Free THEN Free
                     ELSE [task[u] EXCEPT !.alone = FALSE]]
  BY DEF Spawn
<1>2. PICK alone \in BOOLEAN : alone = (Used = {})
  OBVIOUS
<1>3. /\ task'[t] = Updated(new, [alone |-> alone])
      /\ IsTask(task'[t]) /\ task'[t].alone = alone
  BY <1>1, <1>2
<1>4. ASSUME NEW u \in Slots \ {t}, task[u] # Free
      PROVE  /\ IsTask(task'[u])
             /\ SameTask(task[u], task'[u])
             /\ task'[u].alone = FALSE
  <2>1. IsTask(task[u])
    BY <1>4 DEF AllTasks
  <2>2. task'[u] = [task[u] EXCEPT !.alone = FALSE]
    BY <1>1, <1>4
  <2> QED
    BY <2>1, <2>2, NoLongerAlone
<1>5. Joins(t)
  <2>1. task'[t].alone = TRUE => Used = {}
    BY <1>2, <1>3
  <2>2. \A u \in Slots \ {t} : task[u] = Free => task'[u] = Free
    BY <1>1
  <2> QED
    BY <1>1, <1>3, <1>4, <2>1, <2>2 DEF Joins
<1>6. DOMAIN task' = Slots
  BY <1>1
<1>7. fresh' = FALSE
  BY DEF Spawn
<1> QED
  BY <1>3, <1>5, <1>6, <1>7
(* A task goes on to its next step, or ends; the others stay.              *)
OthersStay(t) ==
  /\ DOMAIN task' = Slots
  /\ \A u \in Slots \ {t} : task'[u] = task[u]

Goes(t, to) ==
  /\ IsTask(task[t])
  /\ IsTask(task'[t])
  /\ task'[t].at = to
  /\ task'[t].kind = task[t].kind /\ task'[t].host = task[t].host
  /\ task'[t].alone = task[t].alone
  /\ OthersStay(t)

Ended(t) ==
  /\ IsTask(task[t])
  /\ task'[t] = Free
  /\ OthersStay(t)

LEMMA StepGoes ==
  ASSUME AllTasks, NEW t \in Slots, NEW changed, Step(t, changed), NEW to,
         task[t] # Free,
         LET s == Updated(task[t], changed)
         IN  /\ IsTask(s) /\ s.at = to
             /\ s.kind = task[t].kind /\ s.host = task[t].host
             /\ s.alone = task[t].alone
  PROVE  /\ Goes(t, to)
         /\ task'[t] = Updated(task[t], changed)
<1> DEFINE s == Updated(task[t], changed)
<1>1. task' = [task EXCEPT ![t] = s]
  BY DEF Step
<1> HIDE DEF s
<1>2. task'[t] = s /\ OthersStay(t)
  BY <1>1 DEF AllTasks, OthersStay
<1> QED
  BY <1>2 DEF AllTasks, Goes, s

LEMMA EndEnds ==
  ASSUME AllTasks, NEW t \in Slots, task[t] # Free, End(t)
  PROVE  Ended(t)
BY DEF AllTasks, End, Ended, OthersStay

LEMMA TaskMoves ==
  ASSUME AllTasks, rows \in [Hosts -> Rows], NEW t \in Slots
  PROVE  /\ Dialled(t) =>
              Goes(t, "listing") /\ task[t].at = "dialling"
         /\ Work(t) =>
              Goes(t, "listing") /\ task[t].at = "working"
         /\ List(t) =>
              /\ Goes(t, "listed") /\ task[t].at = "listing"
              /\ task'[t].list \in {rows[task[t].host], NoList}
         /\ DialFails(t) => Ended(t) /\ task[t].at = "dialling"
         /\ EndList(t) =>
              /\ Ended(t) /\ task[t].at = "listed"
              /\ task[t].kind \in {"connect", "refresh"}
         /\ EndOp(t) =>
              /\ Ended(t) /\ task[t].at = "listed"
              /\ task[t].kind \in OpKinds
<1>1. ASSUME Dialled(t)
      PROVE  Goes(t, "listing") /\ task[t].at = "dialling"
  <2>1. /\ IsTask(task[t]) /\ task[t] # Free /\ task[t].at = "dialling"
        /\ task[t].kind = "connect"
        /\ Step(t, [at |-> "listing"])
    BY <1>1 DEF Dialled, Dialling, AllTasks, IsTask
  <2> QED
    BY <2>1, NowListing, StepGoes
<1>2. ASSUME Work(t)
      PROVE  Goes(t, "listing") /\ task[t].at = "working"
  <2>1. /\ IsTask(task[t]) /\ task[t] # Free /\ task[t].at = "working"
        /\ \E ok \in BOOLEAN : Step(t, [at |-> "listing", ok |-> ok])
    BY <1>2 DEF Work, AllTasks
  <2> QED
    BY <2>1, NowTried, StepGoes
<1>3. ASSUME List(t)
      PROVE  /\ Goes(t, "listed") /\ task[t].at = "listing"
             /\ task'[t].list \in {rows[task[t].host], NoList}
  <2>1. /\ IsTask(task[t]) /\ task[t] # Free /\ task[t].at = "listing"
        /\ task[t].host \in Hosts
    BY <1>3 DEF List, AllTasks, IsTask
  <2>2. PICK l \in {rows[task[t].host], NoList} :
          Step(t, [at |-> "listed", list |-> l])
    BY <1>3 DEF List
  <2>3. l \in Lists
    BY <2>1 DEF Lists
  <2> QED
    BY <2>1, <2>2, <2>3, NowListed, StepGoes
<1>4. DialFails(t) => Ended(t) /\ task[t].at = "dialling"
  BY EndEnds DEF DialFails, Dialling
<1>5. EndList(t) =>
        /\ Ended(t) /\ task[t].at = "listed"
        /\ task[t].kind \in {"connect", "refresh"}
  BY EndEnds DEF EndList, Listed
<1>6. EndOp(t) =>
        /\ Ended(t) /\ task[t].at = "listed"
        /\ task[t].kind \in OpKinds
  BY EndEnds DEF EndOp, Listed, OpKinds
<1> QED
  BY <1>1, <1>2, <1>3, <1>4, <1>5, <1>6

-----------------------------------------------------------------------------
(* The rest of the state *)

WindowType ==
  /\ rows \in [Hosts -> Rows]
  /\ disk \in Settings /\ cfg \in Settings
  /\ \/ conn \in [state : {"connecting", "failed"}]
     \/ conn \in [state : {"connected"}, host : Hosts]
  /\ users \in [from : Hosts, rows : Rows]
  /\ loading \in BOOLEAN /\ pending \in BOOLEAN
  /\ form = NoForm \/ form \in [name : Names, data : Datas]
  /\ \/ dialog = NoDialog
     \/ dialog \in [target : Names, text : Names \cup {NoName}]
  /\ clicks \in 0..MaxClicks
  /\ fresh \in BOOLEAN /\ raced \in BOOLEAN /\ unsaved \in BOOLEAN

TypeInv == WindowType /\ AllTasks

LEMMA RowsHave ==
  ASSUME NEW r \in Rows
  PROVE  /\ DOMAIN r \subseteq Names
         /\ \A n \in DOMAIN r : r[n] \in Datas
BY DEF Rows

LEMMA ResultRows ==
  ASSUME NEW r \in Rows, NEW o, o.name \in Names,
         o.kind # "delete" => o.data \in Datas
  PROVE  Result(r, o) \in Rows
<1>1. PICK S \in SUBSET Names : r \in [S -> Datas]
  BY DEF Rows
<1>2. CASE o.kind = "delete"
  <2>1. Result(r, o) \in [S \ {o.name} -> Datas]
    BY <1>1, <1>2 DEF Result, Restrict
  <2> QED
    BY <2>1 DEF Rows
<1>3. CASE o.kind # "delete"
  <2>1. Result(r, o) \in [S \cup {o.name} -> Datas]
    BY <1>1, <1>3 DEF Result, Updated
  <2> QED
    BY <2>1 DEF Rows
<1> QED
  BY <1>2, <1>3

LEMMA TypeInit == Init => TypeInv
<1> SUFFICES ASSUME Init
             PROVE  TypeInv
  OBVIOUS
<1>1. disk \in Settings
  BY WindowAssumption DEF Init, Settings, Keys
<1>2. NoRows \in Rows
  BY DEF NoRows, Rows
<1>3. AllTasks
  BY <1>1, OpeningTasks DEF Init, AllTasks
<1>4. rows \in [Hosts -> Rows]
  BY WindowAssumption DEF Init
<1>5. users \in [from : Hosts, rows : Rows]
  BY <1>1, <1>2 DEF Init, Settings
<1>6. clicks \in 0..MaxClicks
  BY WindowAssumption DEF Init
<1> QED
  BY <1>1, <1>3, <1>4, <1>5, <1>6 DEF Init, TypeInv, WindowType
(* What the user's clicks spawn *)
JoinsAs(kind, at, host) ==
  /\ DOMAIN task' = Slots
  /\ fresh' = FALSE
  /\ \E t \in Slots :
       /\ Joins(t)
       /\ task'[t].kind = kind /\ task'[t].at = at /\ task'[t].host = host

LEMMA ConnHost ==
  ASSUME WindowType, Connected
  PROVE  conn.host \in Hosts
BY DEF WindowType, Connected

LEMMA OpJoins ==
  ASSUME TypeInv, Connected, NEW kind \in OpKinds, NEW n \in Names, NEW d,
         kind # "delete" => d \in Datas, Spawn(Op(kind, n, d))
  PROVE  JoinsAs(kind, "working", conn.host)
<1>1. conn.host \in Hosts
  BY ConnHost DEF TypeInv
<1>2. ASSUME NEW alone \in BOOLEAN
      PROVE  LET s == Updated(Op(kind, n, d), [alone |-> alone])
             IN  /\ IsTask(s) /\ s.kind = kind /\ s.at = "working"
                 /\ s.host = conn.host /\ s.alone = alone
  BY <1>1, NewOp
<1>3. /\ DOMAIN task' = Slots
      /\ fresh' = FALSE
      /\ \E t \in Slots, alone \in BOOLEAN :
           /\ Joins(t)
           /\ task'[t] = Updated(Op(kind, n, d), [alone |-> alone])
  BY <1>2, SpawnJoins DEF TypeInv
<1> QED
  BY <1>2, <1>3 DEF JoinsAs

LEMMA RefreshJoins ==
  ASSUME TypeInv, Refresh
  PROVE  JoinsAs("refresh", "listing", conn.host)
<1> DEFINE new == [kind |-> "refresh", at |-> "listing", host |-> conn.host]
<1>1. conn.host \in Hosts /\ Spawn(new)
  BY ConnHost DEF TypeInv, Refresh
<1>2. \A alone \in BOOLEAN :
        LET s == Updated(new, [alone |-> alone])
        IN  /\ IsTask(s) /\ s.kind = "refresh" /\ s.at = "listing"
            /\ s.host = conn.host /\ s.alone = alone
  BY <1>1, NewRefresh
<1> HIDE DEF new
<1>3. /\ DOMAIN task' = Slots
      /\ fresh' = FALSE
      /\ \E t \in Slots, alone \in BOOLEAN :
           /\ Joins(t)
           /\ task'[t] = Updated(new, [alone |-> alone])
  BY <1>1, <1>2, SpawnJoins DEF TypeInv
<1> QED
  BY <1>2, <1>3 DEF JoinsAs

LEMMA ConnectJoins ==
  ASSUME TypeInv, NEW settings \in Settings, Spawn(Connect(settings))
  PROVE  /\ DOMAIN task' = Slots
         /\ fresh' = FALSE
         /\ \E t \in Slots :
              /\ Joins(t)
              /\ task'[t].kind = "connect" /\ task'[t].at = "dialling"
              /\ task'[t].host = settings.host
              /\ task'[t].key = settings.key
<1>1. \A alone \in BOOLEAN :
        LET s == Updated(Connect(settings), [alone |-> alone])
        IN  /\ IsTask(s) /\ s.kind = "connect" /\ s.at = "dialling"
            /\ s.host = settings.host /\ s.key = settings.key
            /\ s.alone = alone
  BY NewConnect
<1>2. /\ DOMAIN task' = Slots
      /\ fresh' = FALSE
      /\ \E t \in Slots, alone \in BOOLEAN :
           /\ Joins(t)
           /\ task'[t] = Updated(Connect(settings), [alone |-> alone])
  BY <1>1, SpawnJoins DEF TypeInv
<1> QED
  BY <1>1, <1>2

LEMMA JoinedTasks ==
  ASSUME DOMAIN task' = Slots, NEW t \in Slots, Joins(t)
  PROVE  AllTasks'
BY DEF AllTasks, Joins

(* The clicks that spawn, one by one. *)
LEMMA SaveSpawns ==
  ASSUME TypeInv, Save
  PROVE  JoinsAs("save", "working", conn.host)
BY OpJoins DEF Save, SpawnOp, TypeInv, WindowType, OpKinds

LEMMA AddSpawns ==
  ASSUME TypeInv, NEW n \in Names, NEW d \in Datas, Add(n, d)
  PROVE  JoinsAs("add", "working", conn.host)
BY OpJoins DEF Add, SpawnOp, OpKinds

LEMMA DeleteSpawns ==
  ASSUME TypeInv, ConfirmDelete
  PROVE  \/ Connected /\ JoinsAs("delete", "working", conn.host)
         \/ ~Connected /\ UNCHANGED <<task, pending, clicks, fresh>>
<1>1. dialog.target \in Names
  BY DEF ConfirmDelete, TypeInv, WindowType
<1> QED
  BY <1>1, OpJoins DEF ConfirmDelete, SpawnOp, OpKinds

LEMMA UserTasks ==
  ASSUME TypeInv, User
  PROVE  AllTasks'
<1>1. ASSUME NEW kind, NEW at, NEW host, JoinsAs(kind, at, host)
      PROVE  AllTasks'
  BY <1>1, JoinedTasks DEF JoinsAs
<1>2. CASE Reopen
  <2>1. disk \in Settings /\ task' = Opening(disk)
    BY <1>2 DEF Reopen, TypeInv, WindowType
  <2> QED
    BY <2>1, OpeningTasks DEF AllTasks
<1>3. CASE UNCHANGED task
  BY <1>3 DEF TypeInv, AllTasks
<1>4. CASE Save \/ ConfirmDelete \/ Refresh
  BY <1>1, <1>3, <1>4, SaveSpawns, DeleteSpawns, RefreshJoins
<1>5. CASE \E n \in Names, d \in Datas : Add(n, d)
  BY <1>1, <1>5, AddSpawns
<1>6. ASSUME NEW h \in Hosts, NEW k \in {cfg.key, NoKey},
             SaveAndReconnect([host |-> h, key |-> k])
      PROVE  AllTasks'
  <2>1. [host |-> h, key |-> k] \in Settings
    BY DEF TypeInv, WindowType, Settings
  <2> QED
    BY <1>6, <2>1, ConnectJoins, JoinedTasks DEF SaveAndReconnect
<1> QED
  BY <1>2, <1>3, <1>4, <1>5, <1>6
  DEF User, Select, Type, Edit, AskDelete, CancelDelete
LEMMA UserKeepsType ==
  ASSUME TypeInv, User
  PROVE  TypeInv'
<1> USE DEF WindowType
<1>1. CASE Reopen
  <2>1. NoRows \in Rows
    BY DEF NoRows, Rows
  <2>2. disk.host \in Hosts
    BY DEF TypeInv, Settings
  <2>3. users' \in [from : Hosts, rows : Rows]
    BY <1>1, <2>1, <2>2 DEF Reopen
  <2>4. clicks' \in 0..MaxClicks
    BY <1>1, WindowAssumption DEF Reopen, TypeInv
  <2> QED
    BY <1>1, <2>3, <2>4, UserTasks DEF Reopen, TypeInv
<1>2. ASSUME NEW n \in Names, Select(n)
      PROVE  TypeInv'
  <2>1. users.rows[n] \in Datas
    BY <1>2, RowsHave DEF Select, TypeInv
  <2>2. form' \in [name : Names, data : Datas]
    BY <1>2, <2>1 DEF Select
  <2> QED
    BY <1>2, <2>2, UserTasks DEF Select, TypeInv, shared, history
<1>3. ASSUME NEW n \in Names, Type(n)
      PROVE  TypeInv'
  <2>1. dialog' \in [target : Names, text : Names \cup {NoName}]
    BY <1>3 DEF Type, TypeInv
  <2> QED
    BY <1>3, <2>1, UserTasks DEF Type, TypeInv, shared, history
<1>4. ASSUME NEW d \in Datas, Edit(d)
      PROVE  TypeInv'
  <2>1. form' \in [name : Names, data : Datas]
    BY <1>4 DEF Edit, TypeInv
  <2> QED
    BY <1>4, <2>1, UserTasks DEF Edit, TypeInv, shared, history
<1>5. ASSUME NEW new, Spawn(new)
      PROVE  clicks' \in 0..MaxClicks /\ fresh' \in BOOLEAN
  <2>1. clicks < MaxClicks /\ clicks' = clicks + 1 /\ fresh' = FALSE
    BY <1>5 DEF Spawn
  <2>2. clicks \in 0..MaxClicks
    BY DEF TypeInv
  <2>3. MaxClicks \in Nat
    BY WindowAssumption
  <2>4. clicks' \in 0..MaxClicks
    BY <2>1, <2>2, <2>3
  <2> QED
    BY <2>1, <2>4
<1>6. CASE Save
  BY <1>5, <1>6, UserTasks DEF Save, SpawnOp, TypeInv
<1>7. ASSUME NEW n \in Names, NEW d \in Datas, Add(n, d)
      PROVE  TypeInv'
  BY <1>5, <1>7, UserTasks DEF Add, SpawnOp, TypeInv
<1>8. CASE AskDelete
  <2>1. dialog' \in [target : Names, text : Names \cup {NoName}]
    BY <1>8 DEF AskDelete, TypeInv
  <2> QED
    BY <1>8, <2>1, UserTasks DEF AskDelete, TypeInv, shared, history
<1>9. CASE CancelDelete
  BY <1>9, UserTasks DEF CancelDelete, TypeInv, shared, history
<1>10. CASE ConfirmDelete
  <2>1. pending' \in BOOLEAN /\ clicks' \in 0..MaxClicks /\ fresh' \in BOOLEAN
    BY <1>5, <1>10 DEF ConfirmDelete, SpawnOp, TypeInv
  <2> QED
    BY <1>10, <2>1, UserTasks DEF ConfirmDelete, TypeInv
<1>11. CASE Refresh
  BY <1>5, <1>11, UserTasks DEF Refresh, TypeInv
<1>12. ASSUME NEW h \in Hosts, NEW k \in {cfg.key, NoKey},
              SaveAndReconnect([host |-> h, key |-> k])
       PROVE  TypeInv'
  <2>1. [host |-> h, key |-> k] \in Settings
    BY DEF TypeInv, Settings
  <2>2. cfg' \in Settings /\ disk' \in Settings
    BY <1>12, <2>1 DEF SaveAndReconnect, TypeInv
  <2>3. raced' \in BOOLEAN /\ unsaved' \in BOOLEAN
    BY <1>12 DEF SaveAndReconnect, TypeInv
  <2>4. clicks' \in 0..MaxClicks /\ fresh' \in BOOLEAN
    BY <1>5, <1>12 DEF SaveAndReconnect
  <2> QED
    BY <1>12, <2>2, <2>3, <2>4, UserTasks DEF SaveAndReconnect, TypeInv
<1> QED
  BY <1>1, <1>2, <1>3, <1>4, <1>6, <1>7, <1>8, <1>9, <1>10, <1>11, <1>12
  DEF User

LEMMA TasksKeepType ==
  ASSUME TypeInv, NEW t \in Slots, TaskStep(t)
  PROVE  TypeInv'
<1> USE DEF WindowType
<1>1. \A to : Goes(t, to) => AllTasks'
  BY DEF Goes, OthersStay, AllTasks, TypeInv
<1>2. Ended(t) => AllTasks'
  BY DEF Ended, OthersStay, AllTasks, TypeInv
<1>3. AllTasks'
  BY <1>1, <1>2, TaskMoves DEF TaskStep, TypeInv
<1>4. task[t] # Free => IsTask(task[t]) /\ task[t].host \in Hosts
  BY DEF TypeInv, AllTasks, IsTask
<1>5. CASE Dialled(t)
  <2>1. task[t].host \in Hosts
    BY <1>4, <1>5 DEF Dialled, Dialling
  <2>2. [host |-> task[t].host, key |-> KeyOf[task[t].host]] \in Settings
    BY <2>1 DEF Settings, Keys
  <2>3. disk' \in Settings /\ unsaved' \in BOOLEAN
    BY <1>5, <2>2 DEF Dialled, TypeInv
  <2>4. conn' \in [state : {"connected"}, host : Hosts]
    BY <1>5, <2>1 DEF Dialled
  <2> QED
    BY <1>3, <1>5, <2>3, <2>4 DEF Dialled, TypeInv, app
<1>6. CASE DialFails(t)
  BY <1>3, <1>6 DEF DialFails, TypeInv, app, history
<1>7. CASE Work(t)
  <2>1. /\ task[t].host \in Hosts
        /\ task[t].name \in Names
        /\ task[t].kind # "delete" => task[t].data \in Datas
    BY <1>4, <1>7 DEF Work, IsTask
  <2>2. Result(rows[task[t].host], task[t]) \in Rows
    BY <2>1, ResultRows DEF TypeInv
  <2>3. rows' \in [Hosts -> Rows]
    BY <1>7, <2>2 DEF Work, TypeInv
  <2> QED
    BY <1>3, <1>7, <2>3 DEF Work, TypeInv, shared, app, history
<1>8. CASE List(t)
  BY <1>3, <1>8 DEF List, TypeInv, shared, app, history
<1>9. CASE EndList(t) \/ EndOp(t)
  <2>1. /\ task[t].host \in Hosts /\ task[t].alone \in BOOLEAN
        /\ task[t].list \in Lists
    BY <1>4, <1>9 DEF EndList, EndOp, Listed, IsTask
  <2>2. task[t].list # NoList => task[t].list \in Rows
    BY <2>1 DEF Lists
  <2>3. users' \in [from : Hosts, rows : Rows] /\ fresh' \in BOOLEAN
    BY <1>9, <2>1, <2>2 DEF EndList, EndOp, Show, Keep, TypeInv
  <2> QED
    BY <1>3, <1>9, <2>3 DEF EndList, EndOp, TypeInv, app
<1> QED
  BY <1>5, <1>6, <1>7, <1>8, <1>9 DEF TaskStep

LEMMA TypeStep ==
  ASSUME TypeInv, [Next]_vars
  PROVE  TypeInv'
<1>1. CASE UNCHANGED vars
  BY <1>1 DEF TypeInv, WindowType, AllTasks, vars, shared, app, history
<1> QED
  BY <1>1, UserKeepsType, TasksKeepType DEF Next

LEMMA TypeInvariant == Spec => []TypeInv
BY TypeInit, TypeStep, PTL DEF Spec

(* The window's state, and that of its tasks, stays well-formed, however   *)
(* they overlap; in particular the delete dialog names a user as long as   *)
(* it is open.                                                             *)
THEOREM TypeCorrect == Spec => []TypeOK
<1>1. ASSUME NEW t \in Slots, task[t] = Free \/ IsTask(task[t])
      PROVE  TaskType(t)
  BY <1>1 DEF TaskType, IsTask, Lists, OpKinds
<1>2. TypeInv => TypeOK
  BY <1>1 DEF TypeInv, WindowType, AllTasks, TypeOK
<1> QED
  BY <1>2, TypeInvariant, PTL
-----------------------------------------------------------------------------
(* The signs: each has a task at work, which another's step leaves alone   *)
(* and whose own end clears it.                                            *)

LEMMA JoinKeepsBusy ==
  ASSUME AllTasks, NEW t \in Slots, Joins(t), NEW kinds, NEW steps,
         Busy(kinds, steps)
  PROVE  Busy(kinds, steps)'
<1>1. PICK u \in Slots :
        task[u] # Free /\ task[u].kind \in kinds /\ task[u].at \in steps
  BY DEF Busy, Used
<1>2. IsTask(task'[u]) /\ SameTask(task[u], task'[u])
  BY <1>1 DEF Joins
<1>3. task'[u] # Free
  BY <1>2, TaskIsNotFree
<1> QED
  BY <1>1, <1>2, <1>3 DEF SameTask, Busy, Used

LEMMA JoinIsBusy ==
  ASSUME NEW t \in Slots, Joins(t), NEW kinds, NEW steps,
         task'[t].kind \in kinds, task'[t].at \in steps
  PROVE  Busy(kinds, steps)'
<1>1. task'[t] # Free
  BY TaskIsNotFree DEF Joins
<1> QED
  BY <1>1 DEF Busy, Used

LEMMA GoesKeepsBusy ==
  ASSUME AllTasks, NEW t \in Slots, NEW to, Goes(t, to), NEW kinds, NEW steps,
         task[t].at \in steps => to \in steps,
         Busy(kinds, steps)
  PROVE  Busy(kinds, steps)'
<1>1. PICK u \in Slots :
        task[u] # Free /\ task[u].kind \in kinds /\ task[u].at \in steps
  BY DEF Busy, Used
<1>2. task'[t] # Free
  BY TaskIsNotFree DEF Goes
<1> QED
  BY <1>1, <1>2 DEF Goes, OthersStay, Busy, Used

LEMMA EndKeepsBusy ==
  ASSUME AllTasks, NEW t \in Slots, Ended(t), NEW kinds, NEW steps,
         ~(task[t].kind \in kinds /\ task[t].at \in steps),
         Busy(kinds, steps)
  PROVE  Busy(kinds, steps)'
BY DEF Ended, OthersStay, Busy, Used

Saving == Busy({"save", "add", "delete"}, {"working", "listing", "listed"})
Refreshing == Busy({"connect", "refresh"}, {"listing", "listed"})
Connecting == Busy({"connect"}, {"dialling"})

LEMMA JoinKeepsSigns ==
  ASSUME TypeInv, NEW t \in Slots, Joins(t)
  PROVE  /\ Saving => Saving'
         /\ Refreshing => Refreshing'
         /\ Connecting => Connecting'
BY JoinKeepsBusy DEF TypeInv, Saving, Refreshing, Connecting

LEMMA OpeningConnects ==
  ASSUME NEW settings \in Settings, task' = Opening(settings)
  PROVE  Connecting'
<1>1. /\ 1 \in Slots
      /\ task'[1] # Free
      /\ task'[1].kind = "connect" /\ task'[1].at = "dialling"
  BY OpeningTasks, TaskIsNotFree
<1> QED
  BY <1>1 DEF Connecting, Busy, Used

LEMMA SignsInit == Init => SignsHonest
<1> SUFFICES ASSUME Init
             PROVE  SignsHonest
  OBVIOUS
<1>1. disk \in Settings /\ task = Opening(disk)
  BY TypeInit DEF TypeInv, WindowType, Init
<1>2. /\ 1 \in Slots
      /\ task[1] # Free
      /\ task[1].kind = "connect" /\ task[1].at = "dialling"
  BY <1>1, OpeningTasks, TaskIsNotFree
<1> QED
  BY <1>2 DEF Init, SignsHonest, Busy, Used

LEMMA UserKeepsSigns ==
  ASSUME TypeInv, SignsHonest, User
  PROVE  SignsHonest'
<1> USE DEF SignsHonest, Saving, Refreshing, Connecting
<1>1. CASE Reopen
  <2>1. disk \in Settings /\ task' = Opening(disk)
    BY <1>1 DEF Reopen, TypeInv, WindowType
  <2> QED
    BY <1>1, <2>1, OpeningConnects DEF Reopen
<1>2. ASSUME UNCHANGED <<task, conn, loading, pending>>
      PROVE  SignsHonest'
  BY <1>2 DEF Busy, Used
<1>3. ASSUME NEW kind \in OpKinds, JoinsAs(kind, "working", conn.host),
             UNCHANGED <<conn, loading>>
      PROVE  SignsHonest'
  <2>1. PICK t \in Slots : /\ Joins(t) /\ task'[t].kind = kind
                           /\ task'[t].at = "working"
    BY <1>3 DEF JoinsAs
  <2>2. Saving'
    BY <2>1, JoinIsBusy DEF OpKinds
  <2> QED
    BY <1>3, <2>1, <2>2, JoinKeepsSigns
<1>4. CASE Save \/ ConfirmDelete
  BY <1>2, <1>3, <1>4, SaveSpawns, DeleteSpawns DEF Save, ConfirmDelete, OpKinds
<1>5. ASSUME NEW n \in Names, NEW d \in Datas, Add(n, d)
      PROVE  SignsHonest'
  BY <1>3, <1>5, AddSpawns DEF Add, OpKinds
<1>6. CASE Refresh
  <2>1. PICK t \in Slots : /\ Joins(t) /\ task'[t].kind = "refresh"
                           /\ task'[t].at = "listing"
    BY <1>6, RefreshJoins DEF JoinsAs
  <2>2. Refreshing'
    BY <2>1, JoinIsBusy
  <2> QED
    BY <1>6, <2>1, <2>2, JoinKeepsSigns DEF Refresh
<1>7. ASSUME NEW h \in Hosts, NEW k \in {cfg.key, NoKey},
             SaveAndReconnect([host |-> h, key |-> k])
      PROVE  SignsHonest'
  <2>1. [host |-> h, key |-> k] \in Settings
    BY DEF TypeInv, WindowType, Settings
  <2>2. PICK t \in Slots : /\ Joins(t) /\ task'[t].kind = "connect"
                           /\ task'[t].at = "dialling"
    BY <1>7, <2>1, ConnectJoins DEF SaveAndReconnect
  <2>3. Connecting'
    BY <2>2, JoinIsBusy
  <2> QED
    BY <1>7, <2>2, <2>3, JoinKeepsSigns DEF SaveAndReconnect
<1> QED
  BY <1>1, <1>2, <1>4, <1>5, <1>6, <1>7
  DEF User, Select, Type, Edit, AskDelete, CancelDelete, shared

LEMMA TasksKeepSigns ==
  ASSUME TypeInv, SignsHonest, NEW t \in Slots, TaskStep(t)
  PROVE  SignsHonest'
<1> USE DEF SignsHonest, Saving, Refreshing, Connecting
<1>1. AllTasks /\ rows \in [Hosts -> Rows]
  BY DEF TypeInv, WindowType
<1>2. CASE Dialled(t)
  <2>1. Goes(t, "listing") /\ task[t].at = "dialling"
    BY <1>1, <1>2, TaskMoves
  <2>2. Saving => Saving'
    BY <1>1, <2>1, GoesKeepsBusy
  <2>3. task[t].kind = "connect"
    BY <2>1 DEF Goes, IsTask
  <2>4. Refreshing'
    BY <2>1, <2>3, TaskIsNotFree DEF Goes, Busy, Used
  <2> QED
    BY <1>2, <2>2, <2>4 DEF Dialled
<1>3. CASE DialFails(t)
  <2>1. Ended(t) /\ task[t].at = "dialling"
    BY <1>1, <1>3, TaskMoves
  <2>2. (Saving => Saving') /\ (Refreshing => Refreshing')
    BY <1>1, <2>1, EndKeepsBusy
  <2> QED
    BY <1>3, <2>2 DEF DialFails
<1>4. CASE Work(t) \/ List(t)
  <2>1. PICK to \in {"listing", "listed"} :
          Goes(t, to) /\ task[t].at \in {"working", "listing"}
    BY <1>1, <1>4, TaskMoves
  <2>2. /\ Saving => Saving'
        /\ Refreshing => Refreshing'
        /\ Connecting => Connecting'
    BY <1>1, <2>1, GoesKeepsBusy
  <2> QED
    BY <1>4, <2>2 DEF Work, List, shared
<1>5. CASE EndList(t)
  <2>1. /\ Ended(t) /\ task[t].at = "listed"
        /\ task[t].kind \in {"connect", "refresh"}
    BY <1>1, <1>5, TaskMoves
  <2>2. (Saving => Saving') /\ (Connecting => Connecting')
    BY <1>1, <2>1, EndKeepsBusy
  <2> QED
    BY <1>5, <2>2 DEF EndList
<1>6. CASE EndOp(t)
  <2>1. /\ Ended(t) /\ task[t].at = "listed"
        /\ task[t].kind \in OpKinds
    BY <1>1, <1>6, TaskMoves
  <2>2. (Refreshing => Refreshing') /\ (Connecting => Connecting')
    BY <1>1, <2>1, EndKeepsBusy DEF OpKinds
  <2> QED
    BY <1>6, <2>2 DEF EndOp
<1> QED
  BY <1>2, <1>3, <1>4, <1>5, <1>6 DEF TaskStep

LEMMA SignsStep ==
  ASSUME TypeInv, SignsHonest, [Next]_vars
  PROVE  SignsHonest'
<1>1. CASE UNCHANGED vars
  BY <1>1 DEF SignsHonest, Busy, Used, vars, shared
<1> QED
  BY <1>1, UserKeepsSigns, TasksKeepSigns DEF Next

(* "Saving...", "Refreshing users..." and "Connecting..." are never left   *)
(* standing with nothing at work, whichever of two tasks ends first.       *)
THEOREM SignsAreHonest == Spec => []SignsHonest
BY SignsInit, SignsStep, TypeInvariant, PTL DEF Spec
-----------------------------------------------------------------------------
(* A task that has run alone so far is the only one, and has what the      *)
(* connected router has; once it has shown that, no task is left.          *)
Undisturbed(t) ==
  /\ \A u \in Slots \ {t} : task[u] = Free
  /\ task[t].at = "listed" => task[t].list \in {rows[task[t].host], NoList}
  /\ task[t].at # "dialling" /\ Connected => task[t].host = conn.host

AloneInv ==
  /\ fresh =>
       /\ \A t \in Slots : task[t] = Free
       /\ users.rows = rows[users.from]
       /\ Connected => users.from = conn.host
  /\ \A t \in Slots :
       task[t] # Free /\ task[t].alone = TRUE => Undisturbed(t)

(* While a task is at work nothing is fresh, and another is not alone.     *)
LEMMA AtWork ==
  ASSUME TypeInv, AloneInv, NEW t \in Slots, task[t] # Free
  PROVE  /\ fresh = FALSE
         /\ \A u \in Slots \ {t} : task[u] # Free => task[u].alone = FALSE
<1>1. fresh = FALSE
  BY DEF AloneInv, TypeInv, WindowType
<1>2. ASSUME NEW u \in Slots \ {t}, task[u] # Free
      PROVE  task[u].alone = FALSE
  <2>1. task[u].alone \in BOOLEAN
    BY <1>2 DEF TypeInv, AllTasks, IsTask
  <2>2. task[u].alone # TRUE
    BY <1>2 DEF AloneInv, Undisturbed
  <2> QED
    BY <2>1, <2>2
<1> QED
  BY <1>1, <1>2

LEMMA AloneInit == Init => AloneInv
<1> SUFFICES ASSUME Init
             PROVE  AloneInv
  OBVIOUS
<1>1. disk \in Settings /\ task = Opening(disk)
  BY TypeInit DEF TypeInv, WindowType, Init
<1>2. /\ task[1].at = "dialling"
      /\ \A t \in Slots \ {1} : task[t] = Free
  BY <1>1, OpeningTasks
<1> QED
  BY <1>2 DEF Init, AloneInv, Undisturbed

LEMMA JoinKeepsAlone ==
  ASSUME TypeInv, AloneInv, NEW t \in Slots, Joins(t),
         fresh' = FALSE, UNCHANGED rows,
         \/ task'[t].at = "dialling"
         \/ /\ task'[t].at \in {"working", "listing"}
            /\ task'[t].host = conn.host
            /\ UNCHANGED conn
  PROVE  AloneInv'
<1>1. ASSUME NEW u \in Slots, task'[u] # Free, task'[u].alone = TRUE
      PROVE  Undisturbed(u)'
  <2>1. u = t
    BY <1>1 DEF Joins
  <2>2. \A w \in Slots \ {t} : task'[w] = Free
    BY <1>1, <2>1 DEF Joins, Used
  <2> QED
    BY <2>1, <2>2 DEF Undisturbed, Connected
<1> QED
  BY <1>1 DEF AloneInv

LEMMA UserKeepsAlone ==
  ASSUME TypeInv, AloneInv, User
  PROVE  AloneInv'
<1>1. CASE Reopen
  <2>1. disk \in Settings /\ task' = Opening(disk) /\ fresh' = FALSE
    BY <1>1 DEF Reopen, TypeInv, WindowType
  <2>2. /\ task'[1].at = "dialling"
        /\ \A t \in Slots \ {1} : task'[t] = Free
    BY <2>1, OpeningTasks
  <2> QED
    BY <2>1, <2>2 DEF AloneInv, Undisturbed
<1>2. ASSUME UNCHANGED <<rows, task, conn, users, fresh>>
      PROVE  AloneInv'
  BY <1>2 DEF AloneInv, Undisturbed, Connected
<1>3. ASSUME NEW kind, NEW at \in {"working", "listing"},
             JoinsAs(kind, at, conn.host), UNCHANGED <<rows, conn>>
      PROVE  AloneInv'
  BY <1>3, JoinKeepsAlone DEF JoinsAs
<1>4. CASE Save \/ ConfirmDelete \/ Refresh
  BY <1>2, <1>3, <1>4, SaveSpawns, DeleteSpawns, RefreshJoins
  DEF Save, ConfirmDelete, Refresh
<1>5. ASSUME NEW n \in Names, NEW d \in Datas, Add(n, d)
      PROVE  AloneInv'
  BY <1>3, <1>5, AddSpawns DEF Add
<1>6. ASSUME NEW h \in Hosts, NEW k \in {cfg.key, NoKey},
             SaveAndReconnect([host |-> h, key |-> k])
      PROVE  AloneInv'
  <2>1. [host |-> h, key |-> k] \in Settings
    BY DEF TypeInv, WindowType, Settings
  <2> QED
    BY <1>6, <2>1, ConnectJoins, JoinKeepsAlone DEF SaveAndReconnect
<1> QED
  BY <1>1, <1>2, <1>4, <1>5, <1>6
  DEF User, Select, Type, Edit, AskDelete, CancelDelete, shared, history

LEMMA TasksKeepAlone ==
  ASSUME TypeInv, AloneInv, NEW t \in Slots, TaskStep(t)
  PROVE  AloneInv'
<1>1. AllTasks /\ rows \in [Hosts -> Rows]
  BY DEF TypeInv, WindowType
<1>2. task[t] # Free
  BY DEF TaskStep, Dialled, DialFails, Dialling, Work, List, EndList, EndOp,
         Listed
<1>3. /\ fresh = FALSE
      /\ \A u \in Slots \ {t} : task[u] # Free => task[u].alone = FALSE
  BY <1>2, AtWork
<1>4. task[t].alone = TRUE => Undisturbed(t)
  BY <1>2 DEF AloneInv
<1>5. ASSUME NEW to, Goes(t, to), fresh' = fresh,
             Undisturbed(t) => Undisturbed(t)'
      PROVE  AloneInv'
  BY <1>3, <1>4, <1>5 DEF Goes, OthersStay, AloneInv
<1>6. ASSUME Ended(t), fresh' = fresh
      PROVE  AloneInv'
  BY <1>3, <1>6 DEF Ended, OthersStay, AloneInv
<1>7. CASE Dialled(t)
  <2>1. Goes(t, "listing")
    BY <1>1, <1>7, TaskMoves
  <2>2. Undisturbed(t) => Undisturbed(t)'
    BY <1>7, <2>1 DEF Goes, OthersStay, Undisturbed, Dialled
  <2> QED
    BY <1>5, <1>7, <2>1, <2>2 DEF Dialled
<1>8. CASE DialFails(t)
  BY <1>1, <1>6, <1>8, TaskMoves DEF DialFails, history
<1>9. CASE Work(t)
  <2>1. Goes(t, "listing") /\ task[t].at = "working"
    BY <1>1, <1>9, TaskMoves
  <2>2. Undisturbed(t) => Undisturbed(t)'
    BY <1>9, <2>1 DEF Goes, OthersStay, Undisturbed, Connected, Work, shared
  <2> QED
    BY <1>5, <1>9, <2>1, <2>2 DEF Work, history
<1>10. CASE List(t)
  <2>1. /\ Goes(t, "listed") /\ task[t].at = "listing"
        /\ task'[t].list \in {rows[task[t].host], NoList}
    BY <1>1, <1>10, TaskMoves
  <2>2. Undisturbed(t) => Undisturbed(t)'
    BY <1>10, <2>1 DEF Goes, OthersStay, Undisturbed, Connected, List, shared
  <2> QED
    BY <1>5, <1>10, <2>1, <2>2 DEF List, history
<1>11. CASE EndList(t) \/ EndOp(t)
  <2>1. Ended(t) /\ task[t].at = "listed" /\ UNCHANGED <<rows, conn>>
    BY <1>1, <1>11, TaskMoves DEF EndList, EndOp
  <2>2. CASE Keep
    BY <1>6, <2>1, <2>2 DEF Keep
  <2>3. CASE Show(t) /\ task[t].list # NoList
    <3>1. /\ users'.from = task[t].host /\ users'.rows = task[t].list
          /\ fresh' = task[t].alone
      BY <2>3 DEF Show
    <3>2. task[t].alone \in BOOLEAN
      BY <2>1 DEF Ended, IsTask
    <3>3. CASE task[t].alone = FALSE
      BY <1>3, <2>1, <3>1, <3>3 DEF Ended, OthersStay, AloneInv
    <3>4. CASE task[t].alone = TRUE
      <4>1. \A u \in Slots : task'[u] = Free
        BY <1>4, <2>1, <3>4 DEF Ended, OthersStay, Undisturbed
      <4>2. users'.rows = rows'[users'.from]
        BY <1>4, <2>1, <2>3, <3>1, <3>4 DEF Undisturbed
      <4>3. Connected' => users'.from = conn'.host
        BY <1>4, <2>1, <3>1, <3>4 DEF Undisturbed, Connected
      <4> QED
        BY <4>1, <4>2, <4>3 DEF AloneInv
    <3> QED
      BY <3>2, <3>3, <3>4
  <2> QED
    BY <1>11, <2>2, <2>3 DEF EndList, EndOp
<1> QED
  BY <1>7, <1>8, <1>9, <1>10, <1>11 DEF TaskStep

LEMMA AloneStep ==
  ASSUME TypeInv, AloneInv, [Next]_vars
  PROVE  AloneInv'
<1>1. CASE UNCHANGED vars
  BY <1>1 DEF AloneInv, Undisturbed, Connected, vars, shared, history
<1> QED
  BY <1>1, UserKeepsAlone, TasksKeepAlone DEF Next

(* The list on the screen is the connected router's once a task that ran   *)
(* alone has shown it, until another is spawned, whatever fails on the way. *)
THEOREM ListShowsRouter == Spec => []ListIsCurrent
<1>1. AloneInv => ListIsCurrent
  BY DEF AloneInv, ListIsCurrent
<1> QED
  BY <1>1, AloneInit, AloneStep, TypeInvariant, PTL DEF Spec
-----------------------------------------------------------------------------
(* The only connection that is dialled is dialled with the settings, and   *)
(* with the key of the file.                                               *)
OneDialled == \A t, u \in Slots : Dialling(t) /\ Dialling(u) => t = u

Agreed ==
  /\ disk.host = cfg.host
  /\ \A t \in Slots :
       Dialling(t) => task[t].host = cfg.host /\ task[t].key = disk.key
  /\ Connected => conn.host = cfg.host /\ disk.key = KeyOf[cfg.host]

DialInv ==
  /\ ~raced => OneDialled
  /\ ~raced /\ ~unsaved => Agreed

(* A step after which nobody dials that did not before, with other         *)
(* settings.                                                               *)
NoneDials ==
  \A t \in Slots :
    Dialling(t)' => /\ Dialling(t)
                    /\ task'[t].host = task[t].host
                    /\ task'[t].key = task[t].key

LEMMA NoneDialsKeeps ==
  ASSUME DialInv, NoneDials, UNCHANGED <<disk, cfg, raced, unsaved>>,
         UNCHANGED conn \/ conn'.state = "failed"
  PROVE  DialInv'
BY DEF DialInv, OneDialled, Agreed, NoneDials, Connected

LEMMA JoinDials ==
  ASSUME NEW t \in Slots, Joins(t)
  PROVE  /\ task'[t].at # "dialling" => NoneDials
         /\ \A u \in Slots \ {t} : Dialling(u)' => Dialling(u)
BY DEF Joins, SameTask, NoneDials, Dialling

LEMMA OpeningAgrees ==
  ASSUME disk \in Settings, task' = Opening(disk),
         cfg' = disk, disk' = disk, conn'.state = "connecting"
  PROVE  DialInv'
<1>1. /\ task'[1].host = disk.host /\ task'[1].key = disk.key
      /\ \A t \in Slots \ {1} : task'[t] = Free
  BY OpeningTasks
<1> QED
  BY <1>1 DEF DialInv, OneDialled, Agreed, Dialling, Connected

LEMMA DialInit == Init => DialInv
<1> SUFFICES ASSUME Init
             PROVE  DialInv
  OBVIOUS
<1>1. disk \in Settings /\ task = Opening(disk)
  BY TypeInit DEF TypeInv, WindowType, Init
<1>2. /\ task[1].host = disk.host /\ task[1].key = disk.key
      /\ \A t \in Slots \ {1} : task[t] = Free
  BY <1>1, OpeningTasks
<1> QED
  BY <1>2 DEF Init, DialInv, OneDialled, Agreed, Dialling, Connected

LEMMA ReconnectAgrees ==
  ASSUME TypeInv, DialInv, NEW settings \in Settings,
         SaveAndReconnect(settings)
  PROVE  DialInv'
<1>1. PICK t \in Slots :
        /\ Joins(t)
        /\ task'[t].host = settings.host /\ task'[t].key = settings.key
  BY ConnectJoins DEF SaveAndReconnect
<1>2. /\ cfg' = settings /\ conn'.state = "connecting"
      /\ raced' = (\E u \in Slots : Dialling(u))
      /\ disk' = settings \/ unsaved' = TRUE
  BY DEF SaveAndReconnect
<1>3. ~raced' => \A u \in Slots : Dialling(u)' => u = t
  BY <1>1, <1>2, JoinDials
<1> QED
  BY <1>1, <1>2, <1>3 DEF DialInv, OneDialled, Agreed, Connected

LEMMA UserKeepsDial ==
  ASSUME TypeInv, DialInv, User
  PROVE  DialInv'
<1>1. CASE Reopen
  BY <1>1, OpeningAgrees DEF Reopen, TypeInv, WindowType
<1>2. ASSUME UNCHANGED <<disk, cfg, raced, unsaved, task, conn>>
      PROVE  DialInv'
  BY <1>2 DEF DialInv, OneDialled, Agreed, Dialling, Connected
<1>3. ASSUME NEW kind, NEW at \in {"working", "listing"},
             JoinsAs(kind, at, conn.host),
             UNCHANGED <<disk, cfg, raced, unsaved, conn>>
      PROVE  DialInv'
  <2>1. NoneDials
    BY <1>3, JoinDials DEF JoinsAs
  <2> QED
    BY <1>3, <2>1, NoneDialsKeeps
<1>4. CASE Save \/ ConfirmDelete \/ Refresh
  BY <1>2, <1>3, <1>4, SaveSpawns, DeleteSpawns, RefreshJoins
  DEF Save, ConfirmDelete, Refresh
<1>5. ASSUME NEW n \in Names, NEW d \in Datas, Add(n, d)
      PROVE  DialInv'
  BY <1>3, <1>5, AddSpawns DEF Add
<1>6. ASSUME NEW h \in Hosts, NEW k \in {cfg.key, NoKey},
             SaveAndReconnect([host |-> h, key |-> k])
      PROVE  DialInv'
  <2>1. [host |-> h, key |-> k] \in Settings
    BY DEF TypeInv, WindowType, Settings
  <2> QED
    BY <1>6, <2>1, ReconnectAgrees
<1> QED
  BY <1>1, <1>2, <1>4, <1>5, <1>6
  DEF User, Select, Type, Edit, AskDelete, CancelDelete, shared, history

LEMMA TasksKeepDial ==
  ASSUME TypeInv, DialInv, NEW t \in Slots, TaskStep(t)
  PROVE  DialInv'
<1>1. AllTasks /\ rows \in [Hosts -> Rows]
  BY DEF TypeInv, WindowType
<1>2. ASSUME Ended(t) \/ \E to \in {"listing", "listed"} : Goes(t, to)
      PROVE  NoneDials /\ ~Dialling(t)'
  BY <1>2 DEF Ended, Goes, OthersStay, NoneDials, Dialling
<1>3. NoneDials /\ ~Dialling(t)'
  BY <1>1, <1>2, TaskMoves DEF TaskStep
<1>4. CASE Dialled(t)
  <2>1. /\ Dialling(t)
        /\ conn'.host = task[t].host
        /\ cfg' = cfg /\ raced' = raced
        /\ task[t].key \in {NoKey, KeyOf[task[t].host]}
        /\ IF task[t].key = NoKey
           THEN \/ /\ disk' = [host |-> task[t].host,
                              key |-> KeyOf[task[t].host]]
                   /\ unsaved' = unsaved
                \/ unsaved' = TRUE
           ELSE disk' = disk /\ unsaved' = unsaved
    BY <1>4 DEF Dialled, app
  <2>2. ASSUME ~raced', ~unsaved'
        PROVE  Agreed'
    <3>1. Agreed /\ \A u \in Slots : ~Dialling(u)'
      BY <1>3, <2>1, <2>2 DEF DialInv, OneDialled, NoneDials
    <3>2. task[t].host = cfg.host /\ task[t].key = disk.key
      BY <2>1, <3>1 DEF Agreed
    <3>3. disk'.host = cfg.host /\ disk'.key = KeyOf[cfg.host]
      BY <2>1, <2>2, <3>1, <3>2 DEF Agreed
    <3> QED
      BY <2>1, <3>1, <3>2, <3>3 DEF Agreed
  <2>3. ~raced' => OneDialled'
    BY <1>3, <2>1 DEF DialInv, OneDialled, NoneDials
  <2> QED
    BY <2>2, <2>3 DEF DialInv
<1>5. CASE DialFails(t)
  BY <1>3, <1>5, NoneDialsKeeps DEF DialFails, app, history
<1>6. CASE Work(t) \/ List(t) \/ EndList(t) \/ EndOp(t)
  BY <1>3, <1>6, NoneDialsKeeps
  DEF Work, List, EndList, EndOp, app, shared, history
<1> QED
  BY <1>4, <1>5, <1>6 DEF TaskStep

LEMMA DialStep ==
  ASSUME TypeInv, DialInv, [Next]_vars
  PROVE  DialInv'
<1>1. CASE UNCHANGED vars
  BY <1>1
  DEF DialInv, OneDialled, Agreed, Dialling, Connected, vars, shared, app,
      history
<1> QED
  BY <1>1, UserKeepsDial, TasksKeepDial DEF Next

(* Settings, file and connection name one router, and the file has its key *)
(* once connected, unless a save failed or two connections were dialled at *)
(* once.                                                                   *)
THEOREM SettingsStayInStep == Spec => []SettingsAgree
<1>1. DialInv => SettingsAgree
  BY DEF DialInv, Agreed, SettingsAgree
<1> QED
  BY <1>1, DialInit, DialStep, TypeInvariant, PTL DEF Spec
=============================================================================
