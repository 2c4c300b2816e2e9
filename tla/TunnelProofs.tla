---------------------------- MODULE TunnelProofs ----------------------------
(***************************************************************************)
(* What TLC checks of module Tunnel for three flips and a back-off of at   *)
(* most three seconds, proved for every value of the constants.            *)
(***************************************************************************)
EXTENDS Tunnel, TLAPS

LEMMA InitIInv == Init => IInv
<1> SUFFICES ASSUME Init PROVE IInv
  OBVIOUS
<1>1. CountersOK /\ BackoffInRange
  BY TunnelAssumption DEF Init, CountersOK, BackoffInRange, Subscribe
<1>2. StatesOK
  BY DEF Init, StatesOK, PC, Status
<1> QED
  BY <1>1, <1>2
  DEF Init, IInv, TypeOK, FlipsCaught, NoLostEnable, StatusHonest, SessionInv,
      SignalHasCause, BindFailureIsolated, HttpWithinSession, LinkUp, Serving

(* The product of the backoff and a multiplier above one is at least the   *)
(* backoff, so the cap keeps the next sleep within the profile's bounds.   *)
LEMMA NextBackoffInRange ==
  ASSUME NEW b \in InitialBackoff..MaxBackoff
  PROVE  NextBackoff(b) \in InitialBackoff..MaxBackoff
<1>1. b \in Nat /\ b >= 1 /\ b * Multiplier \in Nat
  BY TunnelAssumption
<1>2. b * Multiplier >= b
  <2>1. Multiplier - 1 \in Nat /\ b * (Multiplier - 1) \in Nat
    BY <1>1, TunnelAssumption
  <2>2. b * Multiplier = b * (Multiplier - 1) + b
    BY <1>1, TunnelAssumption
  <2> QED
    BY <1>1, <2>1, <2>2
<1> QED
  BY <1>1, <1>2, TunnelAssumption DEF NextBackoff

LEMMA CountersStep ==
  CountersOK /\ BackoffInRange /\ [Next]_vars => CountersOK' /\ BackoffInRange'
<1> SUFFICES ASSUME CountersOK, BackoffInRange, [Next]_vars
             PROVE  CountersOK' /\ BackoffInRange'
  OBVIOUS
<1> USE TunnelAssumption DEF CountersOK, BackoffInRange, ctlVars, supVars, wdVars
<1>1. CASE Toggle
  BY <1>1 DEF Toggle, SetEnabled
<1>2. CASE SshCloses
  BY <1>2 DEF SshCloses
<1>3. CASE Supervisor
  <2>1. CASE TopDisabled
    BY <2>1 DEF TopDisabled
  <2>2. CASE TopEnabled
    BY <2>2 DEF TopEnabled
  <2>3. CASE DisabledCheck
    BY <2>3 DEF DisabledCheck
  <2>4. CASE DisabledWait
    BY <2>4 DEF DisabledWait
  <2>5. CASE Dialing
    BY <2>5 DEF Dialing, ConnectFails, HostKeyRefused, Connected, SessionFails
  <2>6. CASE Authenticating
    BY <2>6 DEF Authenticating, AuthFails, Authenticated, SessionFails
  <2>7. CASE StartSession
    BY <2>7 DEF StartSession, Subscribe
  <2>8. CASE Teardown
    BY <2>8 DEF Teardown, Subscribe
  <2>9. CASE Report
    BY <2>9 DEF Report
  <2>10. CASE Recheck
    BY <2>10 DEF Recheck
  <2>11. CASE SleepElapses
    BY <2>11, NextBackoffInRange DEF SleepElapses
  <2>12. CASE SleepCut
    BY <2>12, NextBackoffInRange DEF SleepCut
  <2> QED
    BY <1>3, <2>1, <2>2, <2>3, <2>4, <2>5, <2>6, <2>7, <2>8, <2>9, <2>10,
       <2>11, <2>12 DEF Supervisor
<1>4. CASE Socks
  BY <1>4 DEF Socks, SocksBinds, SocksBindFails, SocksAccepts, SocksRearms,
              SocksStops, SocksUnparks, SocksGoes, SocksReturns
<1>5. CASE Http
  BY <1>5 DEF Http, HttpBinds, HttpParks, HttpAccepts, HttpRearms, HttpStops,
              HttpGoes
<1>6. CASE Watchdog
  BY <1>6 DEF Watchdog, WdTick, WdChanged, WdNotify, WdGoes
<1>7. CASE UNCHANGED vars
  BY <1>7 DEF vars
<1> QED
  BY <1>1, <1>2, <1>3, <1>4, <1>5, <1>6, <1>7 DEF Next

LEMMA StatesStep ==
  StatesOK /\ SessionInv /\ [Next]_vars => StatesOK'
<1> SUFFICES ASSUME StatesOK, SessionInv, [Next]_vars
             PROVE  StatesOK'
  OBVIOUS
<1> USE DEF StatesOK, ctlVars, supVars, statusVars, wdVars, httpVars
<1>1. CASE Toggle
  BY <1>1 DEF Toggle, SetEnabled
<1>2. CASE SshCloses
  BY <1>2 DEF SshCloses
<1>3. CASE Supervisor
  <2>1. CASE TopDisabled
    BY <2>1 DEF TopDisabled, SendStatus, PC, Status
  <2>2. CASE TopEnabled
    BY <2>2 DEF TopEnabled, SendStatus, PC, Status
  <2>3. CASE DisabledCheck
    BY <2>3 DEF DisabledCheck, PC
  <2>4. CASE DisabledWait
    BY <2>4 DEF DisabledWait, PC
  <2>5. CASE Dialing
    BY <2>5 DEF Dialing, ConnectFails, HostKeyRefused, Connected,
                SessionFails, PC, Disconnected
  <2>6. CASE Authenticating
    BY <2>6 DEF Authenticating, AuthFails, Authenticated, SessionFails, PC,
                Disconnected
  <2>7. CASE StartSession
    BY <2>7 DEF StartSession, SendStatus, PC, LinkUp, Serving, Status
  <2>8. CASE Teardown
    BY <2>8 DEF Teardown, PC
  <2>9. CASE Report
    BY <2>9 DEF Report, SendStatus, SessionInv, PC, Status
  <2>10. CASE Recheck
    BY <2>10 DEF Recheck, PC
  <2>11. CASE SleepElapses
    BY <2>11 DEF SleepElapses, PC
  <2>12. CASE SleepCut
    BY <2>12 DEF SleepCut, PC
  <2> QED
    BY <1>3, <2>1, <2>2, <2>3, <2>4, <2>5, <2>6, <2>7, <2>8, <2>9, <2>10,
       <2>11, <2>12 DEF Supervisor
<1>4. CASE Socks
  <2>1. pc' \in LinkUp /\ fired' = FALSE /\ outcome' \in Disconnected \cup {"none"}
    BY <1>4 DEF Socks, SocksBinds, SocksBindFails, SocksAccepts, SocksRearms,
                SocksStops, SocksUnparks, SocksGoes, SocksReturns, LinkUp,
                Serving, Disconnected
  <2>2. UNCHANGED <<enabled, statusVars, ssh, wd, httpVars, doomed>>
    BY <1>4 DEF Socks, SocksBinds, SocksBindFails, SocksAccepts, SocksRearms,
                SocksStops, SocksUnparks, SocksGoes, SocksReturns
  <2> QED
    BY <2>1, <2>2 DEF PC
<1>5. CASE Http
  BY <1>5, ZenonT(30)
  DEF Http, HttpBinds, HttpParks, HttpAccepts, HttpRearms, HttpStops, HttpGoes
<1>6. CASE Watchdog
  BY <1>6, ZenonT(30)
  DEF Watchdog, WdTick, WdChanged, WdNotify, WdGoes, Armed, HttpArmed
<1>7. CASE UNCHANGED vars
  BY <1>7 DEF vars
<1> QED
  BY <1>1, <1>2, <1>3, <1>4, <1>5, <1>6, <1>7 DEF Next

LEMMA FlipsStep ==
  IInv /\ [Next]_vars => FlipsCaught'
<1> SUFFICES ASSUME IInv, [Next]_vars
             PROVE  FlipsCaught'
  OBVIOUS
<1> USE DEF IInv, TypeOK, CountersOK, FlipsCaught, NoLostEnable, StatusHonest,
            SessionInv, Changed, ctlVars, supVars, statusVars
<1>1. CASE Toggle
  BY <1>1 DEF Toggle, SetEnabled
<1>2. CASE SshCloses
  BY <1>2 DEF SshCloses
<1>3. CASE Supervisor
  <2>1. CASE TopDisabled
    BY <2>1 DEF TopDisabled, SendStatus
  <2>2. CASE TopEnabled
    BY <2>2 DEF TopEnabled, SendStatus
  <2>3. CASE DisabledCheck
    BY <2>3 DEF DisabledCheck
  <2>4. CASE DisabledWait
    BY <2>4 DEF DisabledWait
  <2>5. CASE Dialing
    BY <2>5 DEF Dialing, ConnectFails, HostKeyRefused, Connected, SessionFails
  <2>6. CASE Authenticating
    BY <2>6 DEF Authenticating, AuthFails, Authenticated, SessionFails
  <2>7. CASE StartSession
    BY <2>7 DEF StartSession, SendStatus
  <2>8. CASE Teardown
    BY <2>8 DEF Teardown
  <2>9. CASE Report
    <3>1. pc' = "Recheck" /\ enabled' = enabled
      BY <2>9 DEF Report
    <3>2. CASE enabled
      <4>1. status' \in Disconnected
        BY <2>9, <3>2 DEF Report, SendStatus
      <4> QED
        BY <3>1, <4>1
    <3>3. CASE ~enabled
      BY <3>1, <3>3
    <3> QED
      BY <3>2, <3>3
  <2>10. CASE Recheck
    BY <2>10 DEF Recheck
  <2>11. CASE SleepElapses
    BY <2>11 DEF SleepElapses
  <2>12. CASE SleepCut
    BY <2>12 DEF SleepCut
  <2> QED
    BY <1>3, <2>1, <2>2, <2>3, <2>4, <2>5, <2>6, <2>7, <2>8, <2>9, <2>10,
       <2>11, <2>12 DEF Supervisor
<1>4. CASE Socks
  BY <1>4 DEF Socks, SocksBinds, SocksBindFails, SocksAccepts, SocksRearms,
              SocksStops, SocksUnparks, SocksGoes, SocksReturns
<1>5. CASE Http
  BY <1>5 DEF Http, HttpBinds, HttpParks, HttpAccepts, HttpRearms, HttpStops,
              HttpGoes
<1>6. CASE Watchdog
  BY <1>6 DEF Watchdog, WdTick, WdChanged, WdNotify, WdGoes
<1>7. CASE UNCHANGED vars
  BY <1>7 DEF vars
<1> QED
  BY <1>1, <1>2, <1>3, <1>4, <1>5, <1>6, <1>7 DEF Next

(* A session starts with nobody woken, and doomed if the switch is off.    *)
LEMMA SessionStarts ==
  ASSUME SessionInv, StartSession
  PROVE  SessionInv'
<1>1. ~(fired \/ httpFired)
  BY DEF StartSession, SessionInv, LinkUp, Serving
<1>2. pc' = "Bind" /\ wd' = "polling" /\ http' = "start"
  BY DEF StartSession
<1>3. ~(fired' \/ httpFired')
  BY <1>1 DEF StartSession
<1>4. ~enabled' => doomed'
  BY DEF StartSession, ctlVars
<1> QED
  BY <1>2, <1>3, <1>4
  DEF SessionInv, SignalHasCause, BindFailureIsolated, HttpWithinSession,
      LinkUp, Serving, Armed, HttpArmed

LEMMA SessionStep ==
  StatesOK /\ SessionInv /\ [Next]_vars => SessionInv'
<1> SUFFICES ASSUME StatesOK, SessionInv, [Next]_vars
             PROVE  SessionInv'
  OBVIOUS
<1> USE DEF StatesOK, SessionInv, SignalHasCause, BindFailureIsolated,
            HttpWithinSession, ctlVars, supVars, statusVars, wdVars, httpVars,
            LinkUp, Serving, Disconnected, Armed, HttpArmed
<1>1. CASE Toggle
  BY <1>1 DEF Toggle, SetEnabled
<1>2. CASE SshCloses
  BY <1>2 DEF SshCloses
<1>3. CASE Supervisor
  <2>1. CASE TopDisabled
    BY <2>1 DEF TopDisabled, SendStatus
  <2>2. CASE TopEnabled
    BY <2>2 DEF TopEnabled, SendStatus
  <2>3. CASE DisabledCheck
    BY <2>3 DEF DisabledCheck
  <2>4. CASE DisabledWait
    BY <2>4 DEF DisabledWait
  <2>5. CASE Dialing
    BY <2>5 DEF Dialing, ConnectFails, HostKeyRefused, Connected, SessionFails
  <2>6. CASE Authenticating
    BY <2>6 DEF Authenticating, AuthFails, Authenticated, SessionFails
  <2>7. CASE StartSession
    BY <2>7, SessionStarts
  <2>8. CASE Teardown
    BY <2>8 DEF Teardown
  <2>9. CASE Report
    BY <2>9 DEF Report, SendStatus
  <2>10. CASE Recheck
    BY <2>10 DEF Recheck
  <2>11. CASE SleepElapses
    BY <2>11 DEF SleepElapses
  <2>12. CASE SleepCut
    BY <2>12 DEF SleepCut
  <2> QED
    BY <1>3, <2>1, <2>2, <2>3, <2>4, <2>5, <2>6, <2>7, <2>8, <2>9, <2>10,
       <2>11, <2>12 DEF Supervisor
<1>4. CASE Socks
  BY <1>4 DEF Socks, SocksBinds, SocksBindFails, SocksAccepts, SocksRearms,
              SocksStops, SocksUnparks, SocksGoes, SocksReturns
<1>5. CASE Http
  BY <1>5 DEF Http, HttpBinds, HttpParks, HttpAccepts, HttpRearms, HttpStops,
              HttpGoes
<1>6. CASE Watchdog
  BY <1>6 DEF Watchdog, WdTick, WdChanged, WdNotify, WdGoes
<1>7. CASE UNCHANGED vars
  BY <1>7 DEF vars
<1> QED
  BY <1>1, <1>2, <1>3, <1>4, <1>5, <1>6, <1>7 DEF Next
-----------------------------------------------------------------------------
LEMMA InductiveInvariant == Spec => []IInv
<1>1. IInv /\ [Next]_vars => IInv'
  BY CountersStep, StatesStep, FlipsStep, SessionStep DEF IInv, TypeOK
<1> QED
  BY InitIInv, <1>1, PTL DEF Spec, SafeSpec

(* Type correctness. *)
THEOREM TypeCorrect == Spec => []TypeOK
<1>1. IInv => TypeOK
  BY DEF IInv
<1> QED
  BY <1>1, InductiveInvariant, PTL

(* However the switch is flipped around the two waits of run_forever, no   *)
(* flip is slept through.                                                  *)
THEOREM NoFlipIsLost == Spec => [](NoLostEnable /\ StatusHonest)
<1>1. IInv => NoLostEnable /\ StatusHonest
  BY DEF IInv, FlipsCaught
<1> QED
  BY <1>1, InductiveInvariant, PTL

(* In the reconnect sleep the menu says Disconnected, unless an unseen     *)
(* flip of the switch cuts the sleep at once (tunnel.rs 111-146).          *)
THEOREM StatusIsHonest == Spec => []StatusHonest
<1> QED
  BY NoFlipIsLost, PTL

(* The reconnect sleep keeps within the profile's bounds. *)
THEOREM BackoffBounded == Spec => []BackoffInRange
<1>1. IInv => BackoffInRange
  BY DEF IInv
<1> QED
  BY <1>1, InductiveInvariant, PTL

(* The watchdog signals only a doomed session, and nothing but its signal  *)
(* ends a proxy or a session: a failed bind does not.                      *)
THEOREM OnlyDoomedSessionsEnd ==
  Spec => [](SignalHasCause /\ BindFailureIsolated /\ HttpWithinSession)
<1>1. IInv => SignalHasCause /\ BindFailureIsolated /\ HttpWithinSession
  BY DEF IInv, SessionInv
<1> QED
  BY <1>1, InductiveInvariant, PTL

-----------------------------------------------------------------------------
(* The supervisor implements LinkPromise, fairness aside: a step of Tunnel *)
(* is a step of LinkPromise or leaves its three variables alone.           *)

(* Where the supervisor is decides the phase. *)
LEMMA PhaseOf ==
  /\ pc \in {"DisabledCheck", "DisabledWait"} => Phase = "off"
  /\ pc \in {"Connect", "Auth", "Authed"} => Phase = "dialing"
  /\ pc \in LinkUp => Phase = "up"
  /\ pc \in {"Top", "Report", "Recheck", "Sleep"} => Phase = "down"
BY DEF Phase, LinkUp, Serving

LEMMA PhaseOfNext ==
  /\ pc' \in {"DisabledCheck", "DisabledWait"} => Phase' = "off"
  /\ pc' \in {"Connect", "Auth", "Authed"} => Phase' = "dialing"
  /\ pc' \in LinkUp => Phase' = "up"
  /\ pc' \in {"Top", "Report", "Recheck", "Sleep"} => Phase' = "down"
BY DEF Phase, LinkUp, Serving

LEMMA InitPromises == Init => Promise!Init
<1> SUFFICES ASSUME Init PROVE Promise!Init
  OBVIOUS
<1>1. enabled = TRUE /\ pc = "Top"
  BY DEF Init
<1>2. Cause = FALSE
  BY <1>1 DEF Cause, LinkUp, Serving
<1>3. Phase = "down"
  BY <1>1, PhaseOf
<1> QED
  BY <1>1, <1>2, <1>3 DEF Promise!Init

LEMMA CauseOf ==
  /\ pc \notin LinkUp => Cause = FALSE
  /\ pc' \notin LinkUp => Cause' = FALSE
BY DEF Cause

(* Steps between attempts, within an attempt, and within a session.        *)
LEMMA QuietStep ==
  ASSUME enabled' = enabled,
         \/ /\ pc \in {"DisabledCheck", "DisabledWait"}
            /\ pc' \in {"DisabledCheck", "DisabledWait"}
         \/ /\ pc \in {"Connect", "Auth", "Authed"}
            /\ pc' \in {"Connect", "Auth", "Authed"}
         \/ /\ pc \in {"Top", "Report", "Recheck", "Sleep"}
            /\ pc' \in {"Top", "Report", "Recheck", "Sleep"}
         \/ /\ pc \in LinkUp
            /\ pc' \in LinkUp
            /\ UNCHANGED <<doomed, ssh>>
         \/ UNCHANGED <<pc, doomed, ssh>>
  PROVE  UNCHANGED Promise!vars
<1>1. Phase' = Phase
  <2>1. CASE pc' = pc
    BY <2>1 DEF Phase
  <2>2. CASE pc' # pc
    BY <2>2, PhaseOf, PhaseOfNext
  <2> QED
    BY <2>1, <2>2
<1>2. Cause' = Cause
  <2>1. CASE pc \in LinkUp /\ pc' \in LinkUp /\ UNCHANGED <<doomed, ssh>>
    BY <2>1 DEF Cause
  <2>2. CASE UNCHANGED <<pc, doomed, ssh>>
    BY <2>2 DEF Cause
  <2>3. CASE pc \notin LinkUp /\ pc' \notin LinkUp
    BY <2>3, CauseOf
  <2> QED
    BY <2>1, <2>2, <2>3 DEF LinkUp, Serving
<1> QED
  BY <1>1, <1>2 DEF Promise!vars

(* An attempt that fails. *)
LEMMA FailingStep ==
  ASSUME enabled' = enabled,
         pc \in {"Connect", "Auth", "Authed"},
         pc' = "Report"
  PROVE  Promise!Fail
<1>1. Phase = "dialing" /\ Phase' = "down"
  BY PhaseOf, PhaseOfNext
<1>2. Cause' = Cause
  BY CauseOf DEF LinkUp, Serving
<1> QED
  BY <1>1, <1>2 DEF Promise!Fail

LEMMA ToggleFlips ==
  ASSUME StatesOK, Toggle
  PROVE  Promise!Flip
<1>1. enabled' = ~enabled /\ UNCHANGED <<pc, ssh>>
  BY DEF Toggle, SetEnabled, supVars
<1>2. doomed' = (doomed \/ (pc \in LinkUp /\ enabled))
  BY DEF Toggle
<1>3. Phase' = Phase
  BY <1>1 DEF Phase
<1>4. Phase = "up" <=> pc \in LinkUp
  <2>1. pc \in PC
    BY DEF StatesOK
  <2> QED
    BY <2>1, PhaseOf DEF PC
<1>5. Cause' = (Cause \/ (Phase = "up" /\ enabled))
  BY <1>1, <1>2, <1>4 DEF Cause
<1> QED
  BY <1>1, <1>3, <1>5 DEF Promise!Flip

LEMMA SshClosesLoses ==
  ASSUME SshCloses
  PROVE  Promise!Lose \/ UNCHANGED Promise!vars
<1>1. UNCHANGED <<pc, enabled, doomed>> /\ ssh' = "closed"
  BY DEF SshCloses, supVars, ctlVars
<1>2. Phase' = Phase
  BY <1>1 DEF Phase
<1>3. CASE pc \in LinkUp
  <2>1. Phase = "up"
    BY <1>3, PhaseOf
  <2>2. Cause' = TRUE
    BY <1>1, <1>3 DEF Cause
  <2> QED
    BY <1>1, <1>2, <2>1, <2>2 DEF Promise!Lose
<1>4. CASE pc \notin LinkUp
  <2>1. Cause' = Cause
    BY <1>1, <1>4, CauseOf
  <2> QED
    BY <1>1, <1>2, <2>1 DEF Promise!vars
<1> QED
  BY <1>3, <1>4

LEMMA StartSessionEstablishes ==
  ASSUME StatesOK, StartSession
  PROVE  Promise!Establish
<1>1. pc = "Authed" /\ pc' = "Bind" /\ enabled' = enabled
  BY DEF StartSession, ctlVars
<1>2. Phase = "dialing" /\ Phase' = "up"
  BY <1>1, PhaseOf, PhaseOfNext DEF LinkUp, Serving
<1>3. Cause' = (doomed' \/ ssh' = "closed")
  BY <1>1 DEF Cause, LinkUp, Serving
<1>4. doomed' = ~enabled
  BY DEF StartSession
<1>5. Cause' \in {~enabled, TRUE}
  BY <1>3, <1>4
<1> QED
  BY <1>1, <1>2, <1>5 DEF Promise!Establish

(* The one step that needs the invariant: only a doomed or closed session  *)
(* is torn down.                                                           *)
LEMMA TeardownHangsUp ==
  ASSUME SessionInv, Teardown
  PROVE  Promise!HangUp
<1>1. pc = "Teardown" /\ pc' = "Report" /\ enabled' = enabled
  BY DEF Teardown, ctlVars
<1>2. Phase = "up" /\ Phase' = "down"
  BY <1>1, PhaseOf, PhaseOfNext DEF LinkUp
<1>3. Cause
  BY <1>1 DEF Cause, LinkUp, SessionInv, SignalHasCause, BindFailureIsolated
<1>4. Cause' = FALSE
  BY <1>1, CauseOf DEF LinkUp, Serving
<1> QED
  BY <1>1, <1>2, <1>3, <1>4 DEF Promise!HangUp

LEMMA PromiseStep ==
  IInv /\ [Next]_vars => [Promise!Next]_(Promise!vars)
<1> SUFFICES ASSUME StatesOK, SessionInv, [Next]_vars
             PROVE  Promise!Next \/ UNCHANGED Promise!vars
  BY DEF IInv, TypeOK
<1>1. CASE Toggle
  BY <1>1, ToggleFlips DEF Promise!Next
<1>2. CASE SshCloses
  BY <1>2, SshClosesLoses DEF Promise!Next
<1>3. CASE Supervisor
  <2>1. CASE TopDisabled
    <3>1. pc = "Top" /\ pc' = "DisabledCheck" /\ ~enabled /\ enabled' = enabled
      BY <2>1 DEF TopDisabled, ctlVars
    <3>2. Phase = "down" /\ Phase' = "off" /\ Cause' = Cause
      BY <3>1, PhaseOf, PhaseOfNext, CauseOf DEF LinkUp, Serving
    <3> QED
      BY <3>1, <3>2 DEF Promise!Next, Promise!Rest
  <2>2. CASE TopEnabled
    <3>1. pc = "Top" /\ pc' = "Connect" /\ enabled /\ enabled' = enabled
      BY <2>2 DEF TopEnabled, ctlVars
    <3>2. Phase = "down" /\ Phase' = "dialing" /\ Cause' = Cause
      BY <3>1, PhaseOf, PhaseOfNext, CauseOf DEF LinkUp, Serving
    <3> QED
      BY <3>1, <3>2 DEF Promise!Next, Promise!Dial
  <2>3. CASE DisabledCheck
    <3>1. pc = "DisabledCheck" /\ enabled' = enabled
      BY <2>3 DEF DisabledCheck, ctlVars
    <3>2. CASE enabled
      <4>1. pc' = "Top"
        BY <2>3, <3>2 DEF DisabledCheck
      <4>2. Phase = "off" /\ Phase' = "down" /\ Cause' = Cause
        BY <3>1, <4>1, PhaseOf, PhaseOfNext, CauseOf DEF LinkUp, Serving
      <4> QED
        BY <3>1, <3>2, <4>2 DEF Promise!Next, Promise!Resume
    <3>3. CASE ~enabled
      <4>1. pc' = "DisabledWait"
        BY <2>3, <3>3 DEF DisabledCheck
      <4> QED
        BY <3>1, <4>1, QuietStep
    <3> QED
      BY <3>2, <3>3
  <2>4. CASE DisabledWait
    BY <2>4, QuietStep DEF DisabledWait, ctlVars
  <2>5. CASE Dialing
    <3>1. pc = "Connect" /\ pc' \in {"Report", "Auth"} /\ enabled' = enabled
      BY <2>5 DEF Dialing, ConnectFails, HostKeyRefused, Connected,
                  SessionFails, ctlVars
    <3> QED
      BY <3>1, FailingStep, QuietStep DEF Promise!Next
  <2>6. CASE Authenticating
    <3>1. pc = "Auth" /\ pc' \in {"Report", "Authed"} /\ enabled' = enabled
      BY <2>6 DEF Authenticating, AuthFails, Authenticated, SessionFails, ctlVars
    <3> QED
      BY <3>1, FailingStep, QuietStep DEF Promise!Next
  <2>7. CASE StartSession
    BY <2>7, StartSessionEstablishes DEF Promise!Next
  <2>8. CASE Teardown
    BY <2>8, TeardownHangsUp DEF Promise!Next
  <2>9. CASE Report \/ Recheck \/ SleepElapses \/ SleepCut
    <3>1. /\ pc \in {"Report", "Recheck", "Sleep"}
          /\ pc' \in {"Top", "Recheck", "Sleep"}
          /\ enabled' = enabled
      BY <2>9 DEF Report, Recheck, SleepElapses, SleepCut, ctlVars
    <3> QED
      BY <3>1, QuietStep
  <2> QED
    BY <1>3, <2>1, <2>2, <2>3, <2>4, <2>5, <2>6, <2>7, <2>8, <2>9
    DEF Supervisor
<1>4. CASE Socks
  <2>1. pc \in LinkUp /\ pc' \in LinkUp /\ UNCHANGED <<enabled, doomed, ssh>>
    BY <1>4 DEF Socks, SocksBinds, SocksBindFails, SocksAccepts, SocksRearms,
                SocksStops, SocksUnparks, SocksGoes, SocksReturns, ctlVars,
                LinkUp, Serving
  <2> QED
    BY <2>1, QuietStep
<1>5. CASE Http
  <2>1. UNCHANGED <<pc, enabled, doomed, ssh>>
    BY <1>5 DEF Http, HttpBinds, HttpParks, HttpAccepts, HttpRearms, HttpStops,
                HttpGoes, ctlVars, supVars
  <2> QED
    BY <2>1, QuietStep
<1>6. CASE Watchdog
  <2>1. UNCHANGED <<pc, enabled, doomed, ssh>>
    BY <1>6 DEF Watchdog, WdTick, WdChanged, WdNotify, WdGoes, ctlVars, supVars
  <2> QED
    BY <2>1, QuietStep
<1>7. CASE UNCHANGED vars
  <2>1. UNCHANGED <<pc, enabled, doomed, ssh>>
    BY <1>7 DEF vars, ctlVars, supVars
  <2> QED
    BY <2>1, QuietStep
<1> QED
  BY <1>1, <1>2, <1>3, <1>4, <1>5, <1>6, <1>7 DEF Next

(* The safety half of KeepsPromise: the tunnel dials only while the switch *)
(* is on, and hangs up only a link that was lost or switched off.          *)
THEOREM ImplementsPromise == Spec => Promise!SafeSpec
<1> QED
  BY InitPromises, PromiseStep, InductiveInvariant, PTL
  DEF Spec, SafeSpec, Promise!SafeSpec
=============================================================================
