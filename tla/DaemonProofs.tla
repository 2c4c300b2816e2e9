----------------------------- MODULE DaemonProofs -----------------------------
(***************************************************************************)
(* For any number of processes, saves, clicks and notifications: for its   *)
(* watcher a process starts at most one replacement, because RELAUNCH_BUSY *)
(* counts those launches (BusyCounts); and a process that is out of date   *)
(* has been told, because a notice is dropped only while an earlier one is *)
(* on its way (Told).  And there is always a daemon, because a process     *)
(* starts another before it sets ControlFlow::Exit for one (Replaced).     *)
(***************************************************************************)
EXTENDS Daemon, SequenceTheorems, TLAPS

BusyCounts ==
  /\ busy \in [Procs -> BOOLEAN]
  /\ launches \in [Procs -> [watcher : {0, 1}, menu : Nat]]
  /\ \A p \in Procs : launches[p].watcher = 1 => busy[p]

LEMMA BusyCountsInit == Init => BusyCounts
BY DEF Init, BusyCounts

LEMMA BusyCountsStep ==
  ASSUME BusyCounts, [Next]_vars
  PROVE  BusyCounts'
<1> USE DEF BusyCounts
<1>1. CASE UNCHANGED <<busy, launches>>
  BY <1>1
<1>2. CASE \E p \in Procs : HandleChanged(p)
  <2> PICK p \in Procs : HandleChanged(p)
    BY <1>2
  <2>1. CASE busy[p]
    BY <2>1 DEF HandleChanged
  <2>2. CASE ~busy[p]
    <3>1. launches[p].watcher = 0
      BY <2>2
    <3>2. /\ launches' = [launches EXCEPT ![p].watcher = @ + 1]
          /\ busy' = [busy EXCEPT ![p] = TRUE]
      BY <2>2 DEF HandleChanged, Relaunch
    <3> QED BY <3>1, <3>2
  <2> QED BY <2>1, <2>2
<1>3. CASE \E p \in Procs : HandleToggle(p)
  <2> PICK p \in Procs : HandleToggle(p)
    BY <1>3
  <2>1. busy' = busy
    BY DEF HandleToggle
  <2>2. CASE launches' = launches
    BY <2>1, <2>2
  <2>3. CASE launches' = [launches EXCEPT ![p].menu = @ + 1]
    BY <2>1, <2>3
  <2> QED BY <2>2, <2>3 DEF HandleToggle, Relaunch
<1>4. CASE \E p \in Procs : HandleQuit(p)
  BY <1>4 DEF HandleQuit
<1> QED
  BY <1>1, <1>2, <1>3, <1>4
  DEF Next, vars, loopVars, history, Save, Load, Watch, WatchFails, Receive,
      Lapse, Click, Loop, Wake, HandleOther, Exit

(* One replacement per process, however often its watcher fires. *)
THEOREM AtMostOneReplacement == Spec => []OneReplacement
<1>1. BusyCounts => OneReplacement
  BY DEF BusyCounts, OneReplacement
<1> QED BY <1>1, BusyCountsInit, BusyCountsStep, PTL DEF Spec

-----------------------------------------------------------------------------
(* p has a ConfigChanged to handle, or has handled one. *)
Underway(p) == queue[p] > 0 \/ turn[p] = "drainChanged" \/ exiting[p]

Phases == {"free", "starting", "loaded", "running", "gone"}

Told ==
  /\ watches \in [Procs -> BOOLEAN]
  /\ notices \in [Procs -> Nat]
  /\ queue \in [Procs -> Nat]
  /\ turn \in [Procs -> Turns]
  /\ exiting \in [Procs -> BOOLEAN]
  /\ quiet \in [Procs -> BOOLEAN]
  /\ phase \in [Procs -> Phases]
  /\ cfg \in [Procs -> Nat]
  /\ saved \in Nat
  /\ missed \in [Procs -> BOOLEAN]
  /\ \A p \in Procs :
       /\ turn[p] # "wait" => phase[p] = "running"
       /\ phase[p] = "loaded" => cfg[p] = saved \/ missed[p]
       /\ quiet[p] => Underway(p)
       /\ busy[p] => exiting[p]
       /\ phase[p] = "running" /\ watches[p] /\ cfg[p] # saved /\ ~missed[p] =>
            notices[p] > 0 \/ Underway(p)

LEMMA ToldInit == Init => Told
BY DaemonAssumption DEF Init, Told, Underway, Turns, Phases

(* A save, by a writer or by the menu. *)
LEMMA ToldOfWrite ==
  ASSUME Told, WriteConfig
  PROVE  /\ saved' = saved + 1
         /\ notices' \in [Procs -> Nat]
         /\ missed' \in [Procs -> BOOLEAN]
         /\ watches' = watches
         /\ \A p \in Procs :
              /\ phase[p] = "loaded" => missed'[p]
              /\ phase[p] = "running" /\ watches[p] => notices'[p] > 0
<1>1. PICK n \in 1..EventsPerSave :
        notices' = [p \in Procs |-> IF phase[p] = "running" /\ watches[p]
                                   THEN notices[p] + n ELSE notices[p]]
  BY DEF WriteConfig
<1>2. n \in Nat /\ n > 0
  BY DaemonAssumption
<1>3. /\ notices' \in [Procs -> Nat]
      /\ \A p \in Procs : phase[p] = "running" /\ watches[p] => notices'[p] > 0
  BY <1>1, <1>2 DEF Told
<1>4. missed' = [p \in Procs |-> CASE phase[p] = "loaded" -> TRUE
                                  [] phase[p] = "running" /\ watches[p] -> FALSE
                                  [] OTHER -> missed[p]]
  BY DEF WriteConfig
<1>5. ASSUME NEW p \in Procs
      PROVE  /\ (CASE phase[p] = "loaded" -> TRUE
                   [] phase[p] = "running" /\ watches[p] -> FALSE
                   [] OTHER -> missed[p]) \in BOOLEAN
             /\ phase[p] = "loaded" =>
                  (CASE phase[p] = "loaded" -> TRUE
                     [] phase[p] = "running" /\ watches[p] -> FALSE
                     [] OTHER -> missed[p])
  BY Zenon DEF Told
<1>6. /\ missed' \in [Procs -> BOOLEAN]
      /\ \A p \in Procs : phase[p] = "loaded" => missed'[p]
  BY <1>4, <1>5, Zenon
<1> QED BY <1>3, <1>6 DEF WriteConfig

LEMMA ToldStep ==
  ASSUME Told, [Next]_vars
  PROVE  Told'
<1> USE DEF Told, Turns, Phases
<1>1. CASE Save
  <2>1. /\ WriteConfig
        /\ UNCHANGED <<phase, cfg, quiet, queue, turn, exiting, busy>>
    BY <1>1 DEF Save, loopVars
  <2> QED BY <2>1, ToldOfWrite DEF Underway
<1>2. ASSUME NEW p \in Procs, Load(p) PROVE Told'
  BY <1>2 DEF Load, watchVars, loopVars, history, Underway
<1>3. ASSUME NEW p \in Procs, Watch(p) \/ WatchFails(p) PROVE Told'
  <2>1. /\ phase[p] = "loaded"
        /\ phase' = [phase EXCEPT ![p] = "running"]
        /\ watches' = watches \/ watches' = [watches EXCEPT ![p] = TRUE]
        /\ UNCHANGED <<saved, cfg, notices, quiet, queue, turn, exiting, busy,
                       missed>>
    BY <1>3 DEF Watch, WatchFails, watchVars, loopVars, history
  <2>2. /\ phase' \in [Procs -> Phases]
        /\ watches' \in [Procs -> BOOLEAN]
        /\ phase'[p] = "running"
        /\ \A q \in Procs \ {p} : /\ phase'[q] = phase[q]
                                  /\ watches'[q] = watches[q]
    BY <2>1
  <2>3. \A q \in Procs : Underway(q)' = Underway(q)
    BY <2>1 DEF Underway
  <2> QED
    BY <2>1, <2>2, <2>3
<1>4. ASSUME NEW p \in Procs, Receive(p) PROVE Told'
  <2>1. /\ notices' = [notices EXCEPT ![p] = @ - 1]
        /\ notices[p] > 0
        /\ quiet' = [quiet EXCEPT ![p] = TRUE]
        /\ queue' = [queue EXCEPT ![p] = IF quiet[p] THEN @ ELSE @ + 1]
        /\ UNCHANGED <<saved, phase, cfg, watches, turn, exiting, busy, missed>>
    BY <1>4 DEF Receive, history
  <2>2. Underway(p)'
    BY <2>1 DEF Underway
  <2>3. notices' \in [Procs -> Nat] /\ queue' \in [Procs -> Nat]
    BY <2>1
  <2>4. \A q \in Procs \ {p} : /\ notices'[q] = notices[q]
                               /\ quiet'[q] = quiet[q]
                               /\ Underway(q)' = Underway(q)
    BY <2>1 DEF Underway
  <2> QED BY <2>1, <2>2, <2>3, <2>4
<1>5. ASSUME NEW p \in Procs, Lapse(p) PROVE Told'
  BY <1>5 DEF Lapse, loopVars, history, Underway
<1>6. ASSUME NEW p \in Procs, Wake(p) PROVE Told'
  <2>1. /\ turn[p] = "wait"
        /\ phase[p] = "running"
        /\ UNCHANGED <<saved, phase, cfg, watches, notices, quiet, exiting,
                       busy, missed>>
    BY <1>6 DEF Wake, watchVars, history
  <2>2. CASE /\ queue[p] > 0
             /\ queue' = [queue EXCEPT ![p] = @ - 1]
             /\ turn' = [turn EXCEPT ![p] = "drainChanged"]
    BY <2>1, <2>2 DEF Underway
  <2>3. CASE turn' = [turn EXCEPT ![p] = "drain"] /\ queue' = queue
    BY <2>1, <2>3 DEF Underway
  <2> QED BY <1>6, <2>2, <2>3 DEF Wake
<1>7. ASSUME NEW p \in Procs, HandleQuit(p) PROVE Told'
  <2>1. /\ exiting' = [exiting EXCEPT ![p] = TRUE]
        /\ UNCHANGED <<saved, phase, cfg, watches, notices, quiet, queue, turn,
                       busy, missed>>
    BY <1>7 DEF HandleQuit, watchVars
  <2> QED BY <2>1 DEF Underway
<1>8. ASSUME NEW p \in Procs, HandleToggle(p) PROVE Told'
  <2>1. UNCHANGED <<cfg, quiet, queue, turn, busy>> /\ turn[p] # "wait"
    BY <1>8 DEF HandleToggle
  <2>2. CASE UNCHANGED <<saved, watches, notices, missed, phase, exiting>>
    BY <2>1, <2>2 DEF Underway
  <2>3. CASE /\ WriteConfig
             /\ Relaunch(p, "menu")
             /\ exiting' = [exiting EXCEPT ![p] = TRUE]
    <3>1. /\ phase' \in [Procs -> Phases]
          /\ \A q \in Procs : phase'[q] = phase[q]
                              \/ (phase[q] = "free" /\ phase'[q] = "starting")
      BY <2>3 DEF Relaunch
    <3>2. /\ exiting' \in [Procs -> BOOLEAN]
          /\ \A q \in Procs : exiting[q] => exiting'[q]
      BY <2>3
    <3>3. /\ saved' = saved + 1
          /\ notices' \in [Procs -> Nat]
          /\ missed' \in [Procs -> BOOLEAN]
          /\ watches' = watches
          /\ \A q \in Procs :
               /\ phase[q] = "loaded" => missed'[q]
               /\ phase[q] = "running" /\ watches[q] => notices'[q] > 0
      BY <2>3, ToldOfWrite
    <3>4. ASSUME NEW q \in Procs
          PROVE  /\ turn'[q] # "wait" => phase'[q] = "running"
                 /\ phase'[q] = "loaded" => missed'[q]
                 /\ phase'[q] = "running" /\ watches'[q] => notices'[q] > 0
                 /\ quiet'[q] => Underway(q)'
                 /\ busy'[q] => exiting'[q]
      <4>1. Underway(q) => Underway(q)'
        BY <2>1, <3>2 DEF Underway
      <4> QED BY <2>1, <3>1, <3>2, <3>3, <4>1
    <3> QED BY <2>1, <3>1, <3>2, <3>3, <3>4
  <2> QED BY <1>8, <2>2, <2>3 DEF HandleToggle
<1>9. ASSUME NEW p \in Procs, HandleOther(p) PROVE Told'
  <2>1. /\ turn[p] = "drain"
        /\ turn' = [turn EXCEPT ![p] = "wait"]
        /\ UNCHANGED <<saved, phase, cfg, watches, notices, quiet, queue,
                       exiting, busy, missed>>
    BY <1>9 DEF HandleOther, watchVars, history
  <2> QED BY <2>1 DEF Underway
<1>10. ASSUME NEW p \in Procs, HandleChanged(p) PROVE Told'
  <2>1. /\ turn' = [turn EXCEPT ![p] = "wait"]
        /\ UNCHANGED <<saved, cfg, watches, notices, quiet, queue, missed>>
    BY <1>10 DEF HandleChanged, watchVars
  <2>2. CASE busy[p]
    BY <1>10, <2>1, <2>2 DEF HandleChanged, Underway
  <2>3. CASE ~busy[p]
    <3>1. /\ busy' = [busy EXCEPT ![p] = TRUE]
          /\ exiting' = [exiting EXCEPT ![p] = TRUE]
      BY <1>10, <2>3 DEF HandleChanged
    <3>2. /\ phase' \in [Procs -> Phases]
          /\ \A q \in Procs : phase'[q] = phase[q]
                              \/ (phase[q] = "free" /\ phase'[q] = "starting")
      BY <1>10, <2>3, ZenonT(30) DEF HandleChanged, Relaunch
    <3>3. exiting'[p] /\ \A q \in Procs \ {p} : /\ Underway(q)' = Underway(q)
                                               /\ busy'[q] = busy[q]
                                               /\ turn'[q] = turn[q]
      BY <2>1, <3>1 DEF Underway
    <3>4. Underway(p)' /\ turn'[p] = "wait"
      BY <2>1, <3>3 DEF Underway
    <3>5. /\ turn' \in [Procs -> Turns]
          /\ exiting' \in [Procs -> BOOLEAN]
      BY <2>1, <3>1
    <3>6. ASSUME NEW q \in Procs
          PROVE  /\ turn'[q] # "wait" => phase'[q] = "running"
                 /\ phase'[q] = "loaded" => cfg'[q] = saved' \/ missed'[q]
                 /\ quiet'[q] => Underway(q)'
                 /\ busy'[q] => exiting'[q]
                 /\ phase'[q] = "running" /\ watches'[q] /\ cfg'[q] # saved'
                    /\ ~missed'[q] => notices'[q] > 0 \/ Underway(q)'
      <4>1. CASE q = p
        BY <2>1, <3>2, <3>3, <3>4, <4>1
      <4>2. CASE q # p
        <5>1. Underway(q) => Underway(q)'
          BY <3>3, <4>2
        <5>2. busy'[q] => exiting'[q]
          BY <3>1, <3>3, <4>2
        <5> QED BY <2>1, <3>2, <3>3, <4>2, <5>1, <5>2
      <4> QED BY <4>1, <4>2
    <3> QED BY <2>1, <3>2, <3>5, <3>6
  <2> QED BY <2>2, <2>3
<1>11. ASSUME NEW p \in Procs, Exit(p) PROVE Told'
  BY <1>11 DEF Exit, watchVars, loopVars, history, Underway
<1>12. CASE \E p \in Procs, row \in Rows : Click(p, row)
  BY <1>12 DEF Click, watchVars, history, Underway
<1>13. CASE UNCHANGED vars
  BY <1>13 DEF vars, watchVars, loopVars, history, Underway
<1> QED
  BY <1>1, <1>2, <1>3, <1>4, <1>5, <1>6, <1>7, <1>8, <1>9, <1>10, <1>11,
     <1>12, <1>13
  DEF Next, Loop

(* An edit made while the daemon watches is never overlooked. *)
THEOREM NoEditOverlooked == Spec => []StaleIsTold
<1>1. Told => StaleIsTold
  BY DEF Told, StaleIsTold, Underway
<1> QED BY <1>1, ToldInit, ToldStep, PTL DEF Spec
-----------------------------------------------------------------------------
LEMMA TypeInit == Init => TypeOK
<1>1. Init => menu \in [Procs -> Seq(Rows)]
  BY EmptySeq DEF Init
<1>2. Init => launches \in [Procs -> [watcher : Nat, menu : Nat]]
  BY DEF Init
<1>3. Init => saved \in 0..MaxSaves /\ clicks \in 0..MaxClicks
  BY DaemonAssumption DEF Init
<1>4. Init => cfg \in [Procs -> 0..MaxSaves]
  BY DaemonAssumption DEF Init
<1>5. Init => phase \in [Procs -> Phases] /\ turn \in [Procs -> Turns]
  BY DEF Init, Phases, Turns
<1>6. Init => /\ watches \in [Procs -> BOOLEAN]
              /\ notices \in [Procs -> Nat]
              /\ queue \in [Procs -> Nat]
  BY DEF Init
<1>7. Init => /\ quiet \in [Procs -> BOOLEAN]
              /\ exiting \in [Procs -> BOOLEAN]
              /\ busy \in [Procs -> BOOLEAN]
              /\ quit \in [Procs -> BOOLEAN]
              /\ missed \in [Procs -> BOOLEAN]
              /\ failed \in BOOLEAN
  BY ZenonT(30) DEF Init
<1> QED
  BY <1>1, <1>2, <1>3, <1>4, <1>5, <1>6, <1>7 DEF TypeOK, Phases

(* What a write, by a writer or by the menu, makes of the counters. *)
LEMMA TypeOfWrite ==
  ASSUME TypeOK, Told, WriteConfig
  PROVE  /\ saved' \in 0..MaxSaves
         /\ watches' = watches
         /\ notices' \in [Procs -> Nat]
         /\ missed' \in [Procs -> BOOLEAN]
<1>1. saved' \in 0..MaxSaves
  BY DaemonAssumption DEF TypeOK, WriteConfig
<1> QED
  BY <1>1, ToldOfWrite

(* What a relaunch makes of the phases and the launches. *)
LEMMA TypeOfRelaunch ==
  ASSUME TypeOK, NEW p \in Procs, NEW row \in {"watcher", "menu"},
         Relaunch(p, row)
  PROVE  /\ phase' \in [Procs -> Phases]
         /\ launches' \in [Procs -> [watcher : Nat, menu : Nat]]
         /\ failed' \in BOOLEAN
<1>1. launches' \in [Procs -> [watcher : Nat, menu : Nat]]
  <2>1. launches' = [launches EXCEPT ![p][row] = @ + 1]
    BY DEF Relaunch
  <2>2. launches[p] \in [watcher : Nat, menu : Nat]
    BY DEF TypeOK
  <2>3. [launches[p] EXCEPT ![row] = @ + 1] \in [watcher : Nat, menu : Nat]
    BY <2>2
  <2> QED
    BY <2>1, <2>3 DEF TypeOK
<1> QED
  BY <1>1 DEF Relaunch, TypeOK, Phases

LEMMA TypeStep ==
  ASSUME TypeOK, Told, [Next]_vars
  PROVE  TypeOK'
<1> USE DaemonAssumption DEF TypeOK, Turns
<1>1. CASE Save
  BY <1>1, TypeOfWrite DEF Save, loopVars
<1>2. ASSUME NEW p \in Procs, Load(p) PROVE TypeOK'
  BY <1>2 DEF Load, watchVars, loopVars, history
<1>3. ASSUME NEW p \in Procs, Watch(p) \/ WatchFails(p) PROVE TypeOK'
  BY <1>3 DEF Watch, WatchFails, watchVars, loopVars, history
<1>4. ASSUME NEW p \in Procs, Receive(p) PROVE TypeOK'
  <2>1. notices' \in [Procs -> Nat] /\ queue' \in [Procs -> Nat]
    BY <1>4, SMTT(30) DEF Receive
  <2>2. quiet' \in [Procs -> BOOLEAN]
    BY <1>4 DEF Receive
  <2> QED
    BY <1>4, <2>1, <2>2 DEF Receive, history
<1>5. ASSUME NEW p \in Procs, Lapse(p) PROVE TypeOK'
  BY <1>5 DEF Lapse, loopVars, history
<1>6. ASSUME NEW p \in Procs, Wake(p) PROVE TypeOK'
  <2>1. queue' \in [Procs -> Nat] /\ turn' \in [Procs -> Turns]
    <3>1. queue[p] \in Nat
      OBVIOUS
    <3>2. CASE /\ queue[p] > 0
               /\ queue' = [queue EXCEPT ![p] = @ - 1]
               /\ turn' = [turn EXCEPT ![p] = "drainChanged"]
      BY <3>1, <3>2, SMTT(30)
    <3>3. CASE turn' = [turn EXCEPT ![p] = "drain"] /\ UNCHANGED queue
      BY <3>3
    <3> QED
      BY <1>6, <3>2, <3>3 DEF Wake
  <2>2. UNCHANGED <<saved, clicks, phase, cfg, watchVars, menu, exiting, busy,
                    history>>
    BY <1>6 DEF Wake
  <2> QED
    BY <2>1, <2>2 DEF watchVars, history
<1>7. ASSUME NEW p \in Procs, NEW row \in Rows, Click(p, row) PROVE TypeOK'
  <2>1. menu' \in [Procs -> Seq(Rows)]
    <3>1. Append(menu[p], row) \in Seq(Rows)
      BY AppendProperties
    <3> QED
      BY <1>7, <3>1 DEF Click
  <2>2. clicks' \in 0..MaxClicks
    BY <1>7 DEF Click
  <2> QED
    BY <1>7, <2>1, <2>2 DEF Click, watchVars, history
<1>8. ASSUME NEW p \in Procs, menu[p] # <<>> PROVE Tail(menu[p]) \in Seq(Rows)
  BY <1>8, HeadTailProperties
<1>9. ASSUME NEW p \in Procs, HandleQuit(p) PROVE TypeOK'
  BY <1>8, <1>9 DEF HandleQuit, watchVars
<1>10. ASSUME NEW p \in Procs, HandleToggle(p) PROVE TypeOK'
  <2>1. menu' \in [Procs -> Seq(Rows)]
    BY <1>8, <1>10 DEF HandleToggle
  <2>2. CASE /\ WriteConfig
             /\ Relaunch(p, "menu")
             /\ exiting' = [exiting EXCEPT ![p] = TRUE]
    <3>1. /\ phase' \in [Procs -> Phases]
          /\ launches' \in [Procs -> [watcher : Nat, menu : Nat]]
          /\ failed' \in BOOLEAN
      BY <2>2, TypeOfRelaunch
    <3> QED
      BY <1>10, <2>1, <2>2, <3>1, TypeOfWrite DEF HandleToggle, Phases
  <2>3. CASE UNCHANGED <<saved, watches, notices, missed, phase, launches,
                         failed, exiting>>
    BY <1>10, <2>1, <2>3 DEF HandleToggle
  <2> QED
    BY <1>10, <2>2, <2>3 DEF HandleToggle
<1>11. ASSUME NEW p \in Procs, HandleOther(p) PROVE TypeOK'
  BY <1>11 DEF HandleOther, watchVars, history
<1>12. ASSUME NEW p \in Procs, HandleChanged(p) PROVE TypeOK'
  <2>1. CASE busy[p]
    BY <1>12, <2>1 DEF HandleChanged, watchVars
  <2>2. CASE ~busy[p]
    <3>1. /\ busy' = [busy EXCEPT ![p] = TRUE]
          /\ Relaunch(p, "watcher")
          /\ exiting' = [exiting EXCEPT ![p] = TRUE]
      BY <1>12, <2>2 DEF HandleChanged
    <3>2. /\ phase' \in [Procs -> Phases]
          /\ launches' \in [Procs -> [watcher : Nat, menu : Nat]]
          /\ failed' \in BOOLEAN
      BY <3>1, TypeOfRelaunch
    <3> QED
      BY <1>12, <3>1, <3>2 DEF HandleChanged, watchVars, Phases
  <2> QED
    BY <2>1, <2>2
<1>13. ASSUME NEW p \in Procs, Exit(p) PROVE TypeOK'
  BY <1>13 DEF Exit, watchVars, loopVars, history
<1>14. CASE UNCHANGED vars
  BY <1>14 DEF vars, watchVars, loopVars, history
<1> QED
  BY <1>1, <1>2, <1>3, <1>4, <1>5, <1>6, <1>7, <1>9, <1>10, <1>11, <1>12,
     <1>13, <1>14
  DEF Next, Loop

LEMMA ToldInvariant == Spec => []Told
BY ToldInit, ToldStep, PTL DEF Spec

(* The state of the daemon's processes stays well-formed; the saves and    *)
(* the clicks stay within the bounds their guards set.                     *)
THEOREM TypeCorrect == Spec => []TypeOK
BY TypeInit, TypeStep, ToldInvariant, PTL DEF Spec

-----------------------------------------------------------------------------
(* Some process is not on its way out, unless the user quit one or `open`  *)
(* failed: whoever sets ControlFlow::Exit for a change has first started   *)
(* one that has not.                                                       *)
Staying(p) == phase[p] \in {"starting", "loaded", "running"} /\ ~exiting[p]

Replaced ==
  /\ \A p \in Procs : exiting[p] => phase[p] \in {"running", "gone"}
  /\ (\A p \in Procs : ~quit[p]) /\ ~failed => \E p \in Procs : Staying(p)

LEMMA ReplacedInit == Init => Replaced
BY DaemonAssumption DEF Init, Replaced, Staying

(* A relaunch starts a process that stays, or is known to have failed. *)
LEMMA RelaunchReplaces ==
  ASSUME TypeOK, Replaced, NEW p \in Procs, phase[p] = "running",
         NEW row, Relaunch(p, row),
         exiting' = [exiting EXCEPT ![p] = TRUE]
  PROVE  Replaced'
<1>1. CASE failed' = TRUE /\ UNCHANGED phase
  BY <1>1 DEF TypeOK, Replaced
<1>2. ASSUME NEW new \in Procs, phase[new] = "free",
             phase' = [phase EXCEPT ![new] = "starting"]
      PROVE  Replaced'
  <2>1. new # p /\ ~exiting[new]
    BY <1>2 DEF Replaced
  <2>2. Staying(new)'
    BY <1>2, <2>1 DEF TypeOK, Staying
  <2>3. \A q \in Procs : exiting'[q] => phase'[q] \in {"running", "gone"}
    BY <1>2, <2>1 DEF TypeOK, Replaced
  <2> QED
    BY <2>2, <2>3 DEF Replaced
<1> QED
  BY <1>1, <1>2 DEF Relaunch

LEMMA ReplacedStep ==
  ASSUME TypeOK, Told, Replaced, [Next]_vars
  PROVE  Replaced'
<1>0. \A p \in Procs : turn[p] # "wait" => phase[p] = "running"
  BY DEF Told
<1>1. CASE UNCHANGED <<phase, exiting, quit, failed>>
  BY <1>1 DEF Replaced, Staying
<1>2. ASSUME NEW p \in Procs, Load(p) \/ Watch(p) \/ WatchFails(p)
      PROVE  Replaced'
  <2>1. /\ \A q \in Procs :
             phase'[q] = phase[q]
             \/ /\ phase[q] \in {"starting", "loaded"}
                /\ phase'[q] \in {"loaded", "running"}
        /\ UNCHANGED <<exiting, quit, failed>>
    BY <1>2 DEF Load, Watch, WatchFails, loopVars, history, TypeOK
  <2>2. \A q \in Procs : Staying(q) => Staying(q)'
    BY <2>1 DEF Staying
  <2> QED
    BY <2>1, <2>2 DEF Replaced
<1>3. ASSUME NEW p \in Procs, HandleQuit(p) PROVE Replaced'
  <2>1. quit'[p]
    BY <1>3 DEF HandleQuit, TypeOK
  <2>2. phase[p] = "running"
    BY <1>0, <1>3 DEF HandleQuit
  <2> QED
    BY <1>3, <2>1, <2>2 DEF HandleQuit, Replaced, TypeOK
<1>4. ASSUME NEW p \in Procs, HandleToggle(p) PROVE Replaced'
  BY <1>0, <1>1, <1>4, RelaunchReplaces DEF HandleToggle
<1>5. ASSUME NEW p \in Procs, HandleChanged(p) PROVE Replaced'
  BY <1>0, <1>1, <1>5, RelaunchReplaces DEF HandleChanged
<1>6. ASSUME NEW p \in Procs, Exit(p) PROVE Replaced'
  <2>1. /\ phase' = [phase EXCEPT ![p] = "gone"]
        /\ exiting[p]
        /\ UNCHANGED <<exiting, quit, failed>>
    BY <1>6 DEF Exit, loopVars, history
  <2>2. \A q \in Procs : Staying(q) => Staying(q)'
    BY <2>1 DEF Staying, TypeOK
  <2>3. \A q \in Procs : exiting'[q] => phase'[q] \in {"running", "gone"}
    BY <2>1 DEF Replaced, TypeOK
  <2> QED
    BY <2>1, <2>2, <2>3 DEF Replaced
<1> QED
  BY <1>1, <1>2, <1>3, <1>4, <1>5, <1>6
  DEF Next, vars, loopVars, history, Save, Receive, Lapse, Click, Loop, Wake,
      HandleOther

(* Between an edit and the new daemon, however often the watcher fires and *)
(* the rows are clicked, there is a daemon, unless the user quit one or    *)
(* `open -n` failed.                                                       *)
THEOREM NeverNoDaemon == Spec => []ThereIsADaemon
<1>1. Replaced => ThereIsADaemon
  BY DEF Replaced, Staying, ThereIsADaemon, Alive
<1>2. Spec => []TypeOK
  BY TypeCorrect
<1> QED
  BY <1>1, <1>2, ToldInvariant, ReplacedInit, ReplacedStep, PTL DEF Spec
=============================================================================
