------------------------------- MODULE Tunnel -------------------------------
(***************************************************************************)
(* The reconnect supervisor of app/src/tunnel.rs (run_forever), one SSH    *)
(* session at a time (run_one_session), with the four concurrent actors of *)
(* a session:                                                              *)
(*                                                                         *)
(*   - the supervisor task itself, which runs socks::serve inline;         *)
(*   - the watchdog task, which decides that the session is over;          *)
(*   - the HTTP proxy task (http::serve);                                  *)
(*   - the menu-bar thread, which flips the tunnel switch (Control).       *)
(*                                                                         *)
(* The tasks run in parallel: the supervisor on the thread that called     *)
(* block_on, the others on the workers of a multi-threaded runtime         *)
(* (main.rs 91-97, 142-157).                                               *)
(*                                                                         *)
(* Two tokio primitives carry the coordination and are modelled by what    *)
(* they do.  `watch` keeps a value and a version; a receiver remembers the *)
(* version it has seen, changed() returns as soon as that is not the       *)
(* current one, borrow() does not move it, and a clone inherits it.        *)
(* `Notify::notify_waiters` wakes the Notified futures that exist at that  *)
(* moment and stores nothing for those created later.                      *)
(***************************************************************************)
EXTENDS Naturals

CONSTANTS
  InitialBackoff,  \* reconnect.initial_backoff_secs
  MaxBackoff,      \* reconnect.max_backoff_secs
  Multiplier,      \* reconnect.backoff_multiplier, a whole number here
  Pinned,          \* does the profile carry a host_key_fingerprint?
  HttpEnabled,     \* http.enabled
  MaxFlips         \* bound on how often the user flips the switch

(* What ConfigFile::validate demands of a profile it lets through. *)
ASSUME TunnelAssumption ==
  /\ InitialBackoff \in Nat \ {0}
  /\ MaxBackoff \in Nat
  /\ MaxBackoff >= InitialBackoff
  /\ Multiplier \in Nat
  /\ Multiplier > 1
  /\ Pinned \in BOOLEAN
  /\ HttpEnabled \in BOOLEAN
  /\ MaxFlips \in Nat

VARIABLES
  enabled,       \* Control: the value in the watch channel
  version,       \* Control: its version
  seenMain,      \* the version run_forever's ctl_rx has seen
  seenWd,        \* the version the watchdog's ctl_rx has seen
  pc,            \* where the supervisor task is
  outcome,       \* how the session just ended, until it is reported
  backoff,       \* run_forever's backoff, in seconds
  status,        \* the value in the status watch channel
  statusUnseen,  \* has the status receiver a version it has not seen?
  ssh,           \* the SSH handle: "none", "open" or "closed"
  wd,            \* where the watchdog task is
  fired,         \* the supervisor's live Notified future has been woken
  http,          \* where the HTTP task is
  httpFired,     \* the HTTP task's live Notified future has been woken
  doomed         \* history: switched off at some time since the link is up

ctlVars == <<enabled, version>>
supVars == <<pc, outcome, backoff, seenMain>>
statusVars == <<status, statusUnseen>>
wdVars == <<wd, seenWd>>
httpVars == <<http, httpFired>>

vars == <<ctlVars, supVars, statusVars, ssh, wdVars, fired, httpVars, doomed>>

-----------------------------------------------------------------------------
(* Status::Disconnected(msg), told apart by its message: a session that    *)
(* ended Ok, one that failed, one refused for its host key.                *)
Disconnected == {"Ended", "Failed", "Mismatch"}

Status == {"Connecting", "Connected", "Disabled"} \cup Disconnected

(* Inside socks::serve: binding, in the accept loop's select!, in the body *)
(* of its accept arm, or parked after a failed bind.                       *)
Serving == {"Bind", "Select", "Accepted", "Parked"}

(* The link is up from the Connected status until the tear-down is done.   *)
LinkUp == Serving \cup {"Teardown"}

PC ==
  {"Top", "DisabledCheck", "DisabledWait", "Connect", "Auth", "Authed",
   "Report", "Recheck", "Sleep"} \cup LinkUp

(* A Notified future of the supervisor, or of the HTTP task, exists.       *)
Armed == pc \in {"Select", "Parked"}
HttpArmed == http \in {"select", "parked"}

-----------------------------------------------------------------------------
(* Control *)

(* Mutant: switching on wakes nobody. *)
SetEnabledSilently(on) ==
  /\ on # enabled
  /\ enabled' = on
  /\ version' = IF on THEN version ELSE version + 1

(* send_if_modified: no new version when the value is already `on`. *)
SetEnabled(on) ==
  /\ on # enabled
  /\ enabled' = on
  /\ version' = version + 1

(* A click on the status row.  The menu thread is the only writer. *)
Toggle ==
  /\ version < MaxFlips
  /\ SetEnabled(~enabled)
  /\ doomed' = (doomed \/ (pc \in LinkUp /\ enabled))
  /\ UNCHANGED <<supVars, statusVars, ssh, wdVars, fired, httpVars>>

(* watch::Receiver::changed() returns for a receiver that has seen `seen`. *)
Changed(seen) == seen # version

(* Mutant: a new receiver already counts the next version as seen. *)
SubscribeAhead == version + 1

(* Receiver::clone inherits the seen version of Control.rx, which nothing  *)
(* ever advances: is_enabled() only borrows.                               *)
Subscribe == 0

SendStatus(s) ==
  /\ status' = s
  /\ statusUnseen' = TRUE

-----------------------------------------------------------------------------
(* run_forever *)

Init ==
  /\ enabled = TRUE
  /\ version = 0
  /\ seenMain = Subscribe
  /\ seenWd = Subscribe
  /\ pc = "Top"
  /\ outcome = "none"
  /\ backoff = InitialBackoff
  /\ status = "Connecting"
  /\ statusUnseen = FALSE
  /\ ssh = "none"
  /\ wd = "off"
  /\ fired = FALSE
  /\ http = "off"
  /\ httpFired = FALSE
  /\ doomed = FALSE

TopDisabled ==
  /\ pc = "Top"
  /\ ~enabled
  /\ SendStatus("Disabled")
  /\ pc' = "DisabledCheck"
  /\ UNCHANGED <<ctlVars, outcome, backoff, seenMain, ssh, wdVars, fired,
                 httpVars, doomed>>

DisabledCheck ==
  /\ pc = "DisabledCheck"
  /\ IF enabled
     THEN pc' = "Top" /\ backoff' = InitialBackoff
     ELSE pc' = "DisabledWait" /\ UNCHANGED backoff
  /\ UNCHANGED <<ctlVars, outcome, seenMain, statusVars, ssh, wdVars, fired,
                 httpVars, doomed>>

DisabledWait ==
  /\ pc = "DisabledWait"
  /\ Changed(seenMain)
  /\ seenMain' = version
  /\ pc' = "DisabledCheck"
  /\ UNCHANGED <<ctlVars, outcome, backoff, statusVars, ssh, wdVars, fired,
                 httpVars, doomed>>

TopEnabled ==
  /\ pc = "Top"
  /\ enabled
  /\ SendStatus("Connecting")
  /\ pc' = "Connect"
  /\ UNCHANGED <<ctlVars, outcome, backoff, seenMain, ssh, wdVars, fired,
                 httpVars, doomed>>

(* Mutant: a session that ended Ok reports nothing. *)
ReportOnlyErrors ==
  /\ pc = "Report"
  /\ backoff' = IF outcome = "Ended" THEN InitialBackoff ELSE backoff
  /\ IF enabled /\ outcome # "Ended"
     THEN SendStatus(outcome)
     ELSE UNCHANGED statusVars
  /\ outcome' = "none"
  /\ pc' = "Recheck"
  /\ UNCHANGED <<ctlVars, seenMain, ssh, wdVars, fired, httpVars, doomed>>

(* The match on run_one_session's result: only Ok resets the backoff, and  *)
(* the status is sent only if the switch reads on.                         *)
Report ==
  /\ pc = "Report"
  /\ backoff' = IF outcome = "Ended" THEN InitialBackoff ELSE backoff
  /\ IF enabled THEN SendStatus(outcome) ELSE UNCHANGED statusVars
  /\ outcome' = "none"
  /\ pc' = "Recheck"
  /\ UNCHANGED <<ctlVars, seenMain, ssh, wdVars, fired, httpVars, doomed>>

(* The second read of the switch, which may have been flipped since. *)
Recheck ==
  /\ pc = "Recheck"
  /\ pc' = IF enabled THEN "Sleep" ELSE "Top"
  /\ UNCHANGED <<ctlVars, outcome, backoff, seenMain, statusVars, ssh, wdVars,
                 fired, httpVars, doomed>>

(* Mutant: the product is not capped. *)
NextBackoffUncapped(b) == b * Multiplier

NextBackoff(b) ==
  IF b * Multiplier < MaxBackoff THEN b * Multiplier ELSE MaxBackoff

(* The reconnect sleep ends on its timer, or at once on an unseen flip;    *)
(* the backoff grows either way.                                           *)
SleepElapses ==
  /\ pc = "Sleep"
  /\ backoff' = NextBackoff(backoff)
  /\ pc' = "Top"
  /\ UNCHANGED <<ctlVars, outcome, seenMain, statusVars, ssh, wdVars, fired,
                 httpVars, doomed>>

SleepCut ==
  /\ pc = "Sleep"
  /\ Changed(seenMain)
  /\ seenMain' = version
  /\ backoff' = NextBackoff(backoff)
  /\ pc' = "Top"
  /\ UNCHANGED <<ctlVars, outcome, statusVars, ssh, wdVars, fired, httpVars,
                 doomed>>

-----------------------------------------------------------------------------
(* run_one_session *)

(* An early `return Err` or bail!: the handle is dropped. *)
SessionFails(o) ==
  /\ outcome' = o
  /\ ssh' = "none"
  /\ pc' = "Report"
  /\ UNCHANGED <<ctlVars, backoff, seenMain, statusVars, wdVars, fired,
                 httpVars, doomed>>

ConnectFails ==
  /\ pc = "Connect"
  /\ SessionFails("Failed")

(* check_server_key refuses only when a fingerprint is pinned. *)
HostKeyRefused ==
  /\ pc = "Connect"
  /\ Pinned
  /\ SessionFails("Mismatch")

Connected ==
  /\ pc = "Connect"
  /\ ssh' = "open"
  /\ pc' = "Auth"
  /\ UNCHANGED <<ctlVars, outcome, backoff, seenMain, statusVars, wdVars,
                 fired, httpVars, doomed>>

(* Unreadable key, transport error, or the server says no. *)
AuthFails ==
  /\ pc = "Auth"
  /\ SessionFails("Failed")

Authenticated ==
  /\ pc = "Auth"
  /\ ssh = "open"
  /\ pc' = "Authed"
  /\ UNCHANGED <<ctlVars, outcome, backoff, seenMain, statusVars, ssh, wdVars,
                 fired, httpVars, doomed>>

(* After the TOFU writeback, whose failure is only logged: announce the    *)
(* session, spawn the watchdog and the HTTP task, enter socks::serve.      *)
StartSession ==
  /\ pc = "Authed"
  /\ SendStatus("Connected")
  /\ wd' = "polling"
  /\ seenWd' = Subscribe
  /\ http' = "start"
  /\ pc' = "Bind"
  /\ doomed' = ~enabled
  /\ UNCHANGED <<ctlVars, outcome, backoff, seenMain, ssh, fired, httpFired>>

(* Mutant: the HTTP task is left running. *)
TeardownKeepsHttp ==
  /\ pc = "Teardown"
  /\ wd' = "off"
  /\ seenWd' = Subscribe
  /\ ssh' = "none"
  /\ doomed' = FALSE
  /\ pc' = "Report"
  /\ UNCHANGED <<ctlVars, outcome, backoff, seenMain, statusVars, fired,
                 httpVars>>

(* socks::serve returned: abort both tasks, disconnect, hand back the      *)
(* result.  Aborting a task that holds a port frees it a little later; the *)
(* next bind may therefore fail, as any bind may.                          *)
Teardown ==
  /\ pc = "Teardown"
  /\ http' = "off"
  /\ httpFired' = FALSE
  /\ wd' = "off"
  /\ seenWd' = Subscribe
  /\ ssh' = "none"
  /\ doomed' = FALSE
  /\ pc' = "Report"
  /\ UNCHANGED <<ctlVars, outcome, backoff, seenMain, statusVars, fired>>

-----------------------------------------------------------------------------
(* socks::serve, run by the supervisor task *)

SocksGoes(from, to) ==
  /\ pc = from
  /\ pc' = to
  /\ UNCHANGED <<ctlVars, outcome, backoff, seenMain, statusVars, ssh, wdVars,
                 httpVars, doomed>>

(* Entering select!, or parking, creates a Notified future: it knows       *)
(* nothing of a notification sent before.                                  *)
SocksBinds ==
  /\ SocksGoes("Bind", "Select")
  /\ fired' = FALSE

(* Mutant: a bind failure propagates and ends the session. *)
SocksBindPropagates ==
  /\ SocksGoes("Bind", "Teardown")
  /\ fired' = FALSE

SocksBindFails ==
  /\ SocksGoes("Bind", "Parked")
  /\ fired' = FALSE

(* The accept arm wins the select!, even against a woken Notified (the     *)
(* branches are polled in random order), and drops that future.  Its body  *)
(* spawns a connection task, or backs off 100 ms after an accept error.    *)
SocksAccepts ==
  /\ SocksGoes("Select", "Accepted")
  /\ fired' = FALSE

SocksRearms ==
  /\ SocksGoes("Accepted", "Select")
  /\ fired' = FALSE

SocksReturns(from, result) ==
  /\ fired
  /\ pc = from
  /\ pc' = "Teardown"
  /\ fired' = FALSE
  /\ outcome' = result
  /\ UNCHANGED <<ctlVars, backoff, seenMain, statusVars, ssh, wdVars, httpVars,
                 doomed>>

(* The accept loop returns Err("SSH session closed") ... *)
SocksStops == SocksReturns("Select", "Failed")

(* ... while a server that never bound returns Ok. *)
SocksUnparks == SocksReturns("Parked", "Ended")

-----------------------------------------------------------------------------
(* http::serve *)

HttpGoes(from, to) ==
  /\ http = from
  /\ http' = to
  /\ httpFired' = FALSE
  /\ UNCHANGED <<ctlVars, supVars, statusVars, ssh, wdVars, fired, doomed>>

HttpBinds ==
  /\ HttpEnabled
  /\ HttpGoes("start", "select")

(* Mutant: the HTTP server returns on a failed bind instead of parking. *)
HttpGivesUp == HttpGoes("start", "ended")

(* Disabled, or the bind failed: park on `dead`. *)
HttpParks == HttpGoes("start", "parked")

HttpAccepts == HttpGoes("select", "accepted")

HttpRearms == HttpGoes("accepted", "select")

HttpStops ==
  /\ httpFired
  /\ \E from \in {"select", "parked"} : HttpGoes(from, "ended")

-----------------------------------------------------------------------------
(* The watchdog *)

WdGoes(to) ==
  /\ wd' = to
  /\ UNCHANGED <<ctlVars, supVars, statusVars, ssh, fired, httpVars, doomed>>

(* The one-second arm: the handle is closed, or the switch is off. *)
WdTick ==
  /\ wd = "polling"
  /\ ssh = "closed" \/ ~enabled
  /\ WdGoes("firing")
  /\ UNCHANGED seenWd

(* Mutant: any flip is taken for a flip to off. *)
WdChangedBlind ==
  /\ wd = "polling"
  /\ Changed(seenWd)
  /\ seenWd' = version
  /\ WdGoes("firing")

WdChanged ==
  /\ wd = "polling"
  /\ Changed(seenWd)
  /\ seenWd' = version
  /\ WdGoes(IF enabled THEN "polling" ELSE "firing")

(* notify_waiters, once, and the task is over. *)
WdNotify ==
  /\ wd = "firing"
  /\ wd' = "gone"
  /\ fired' = (fired \/ Armed)
  /\ httpFired' = (httpFired \/ HttpArmed)
  /\ UNCHANGED <<ctlVars, supVars, statusVars, ssh, seenWd, http, doomed>>

-----------------------------------------------------------------------------
(* The environment: the server, the network or a keepalive time-out closes *)
(* the SSH session.                                                        *)
SshCloses ==
  /\ ssh = "open"
  /\ ssh' = "closed"
  /\ UNCHANGED <<ctlVars, supVars, statusVars, wdVars, fired, httpVars, doomed>>

Dialing == ConnectFails \/ HostKeyRefused \/ Connected

Authenticating == AuthFails \/ Authenticated

Supervisor ==
  \/ TopDisabled
  \/ TopEnabled
  \/ DisabledCheck
  \/ DisabledWait
  \/ Dialing
  \/ Authenticating
  \/ StartSession
  \/ Teardown
  \/ Report
  \/ Recheck
  \/ SleepElapses
  \/ SleepCut

Socks ==
  \/ SocksBinds
  \/ SocksBindFails
  \/ SocksAccepts
  \/ SocksRearms
  \/ SocksStops
  \/ SocksUnparks

Http ==
  \/ HttpBinds
  \/ HttpParks
  \/ HttpAccepts
  \/ HttpRearms
  \/ HttpStops

Watchdog == WdTick \/ WdChanged \/ WdNotify

Next ==
  \/ Toggle
  \/ SshCloses
  \/ Supervisor
  \/ Socks
  \/ Http
  \/ Watchdog

(* The runtime polls every task that can move, timers fire, connect and    *)
(* authenticate return (TCP and keepalive time-outs bound them).  Nothing  *)
(* is assumed of the user, the network, or of clients connecting.          *)
Fairness ==
  /\ WF_vars(Supervisor)
  /\ WF_vars(SocksBinds \/ SocksBindFails)
  /\ WF_vars(SocksRearms)
  /\ WF_vars(SocksStops)
  /\ WF_vars(SocksUnparks)
  /\ WF_vars(HttpBinds \/ HttpParks)
  /\ WF_vars(HttpRearms)
  /\ WF_vars(HttpStops)
  /\ WF_vars(WdTick)
  /\ WF_vars(WdChanged)
  /\ WF_vars(WdNotify)

SafeSpec == Init /\ [][Next]_vars

Spec == SafeSpec /\ Fairness

-----------------------------------------------------------------------------
(* Properties *)

CountersOK ==
  /\ version \in 0..MaxFlips
  /\ seenMain \in 0..version
  /\ seenWd \in 0..version
  /\ backoff \in Nat

StatesOK ==
  /\ enabled \in BOOLEAN
  /\ pc \in PC
  /\ outcome \in Disconnected \cup {"none"}
  /\ status \in Status
  /\ statusUnseen \in BOOLEAN
  /\ ssh \in {"none", "open", "closed"}
  /\ wd \in {"off", "polling", "firing", "gone"}
  /\ fired \in BOOLEAN
  /\ http \in {"off", "start", "select", "accepted", "parked", "ended"}
  /\ httpFired \in BOOLEAN
  /\ doomed \in BOOLEAN

TypeOK == CountersOK /\ StatesOK

(* A supervisor waiting for the switch to come back on never sleeps        *)
(* through it: if the switch is on, the wait has an unseen version to      *)
(* return for.  This is what the comment on Control claims of `watch` over *)
(* the earlier Notify design (tunnel.rs 21-25).                            *)
NoLostEnable ==
  pc = "DisabledWait" /\ enabled => Changed(seenMain)

(* The menu does not lie for the length of a reconnect sleep (tunnel.rs    *)
(* 111-113): between sessions the status says Disconnected, unless the     *)
(* switch was flipped around the report, and then the sleep is cut at once *)
(* by the unseen flip.  The two reads of the switch (114, 124) are what    *)
(* could break it.                                                         *)
StatusHonest ==
  pc = "Sleep" => status \in Disconnected \/ Changed(seenMain)

(* The sleep stays between the bounds of the profile, whatever the order   *)
(* of failures, cuts, resets and disabled spells.                          *)
BackoffInRange == backoff \in InitialBackoff..MaxBackoff

(* The watchdog never signals a healthy session: the SSH handle is closed, *)
(* or the switch has been off since the session came up, even when it is   *)
(* back on by the time the signal is sent (tunnel.rs 293-311).             *)
SignalHasCause == wd \in {"firing", "gone"} => doomed \/ ssh = "closed"

(* A proxy that cannot bind takes down neither the other one nor the       *)
(* session (tunnel.rs 317-322, socks.rs 28-38, http.rs 48-61): a server    *)
(* that has ended during a session, ended after the watchdog's signal.     *)
BindFailureIsolated ==
  http = "ended" \/ pc = "Teardown" => wd = "gone"

(* The HTTP task does not outlive its session (tunnel.rs 322, 336). *)
HttpWithinSession == http # "off" => pc \in LinkUp

(* What makes them inductive.  Between the two reads of the switch the     *)
(* status may be stale only if the switch is off or has moved.             *)
FlipsCaught ==
  /\ NoLostEnable
  /\ StatusHonest
  /\ pc = "Recheck" =>
       status \in Disconnected \/ ~enabled \/ Changed(seenMain)

(* A switch that is off dooms the session; the watchdog lives within one;  *)
(* a live future is woken by it alone; a session that is over has an       *)
(* outcome to report.                                                      *)
SessionInv ==
  /\ pc \in {"Report", "Teardown"} => outcome \in Disconnected
  /\ pc \in LinkUp /\ ~enabled => doomed
  /\ SignalHasCause
  /\ wd # "off" => pc \in LinkUp
  /\ fired => Armed /\ wd = "gone"
  /\ httpFired => HttpArmed /\ wd = "gone"
  /\ BindFailureIsolated
  /\ HttpWithinSession

IInv == TypeOK /\ BackoffInRange /\ FlipsCaught /\ SessionInv

(* What the comment in run_one_session concludes (tunnel.rs 320-321) and   *)
(* README.md 55-56 promises: socks::serve returns when the user disables   *)
(* the tunnel, and when the server closes the session, even with the       *)
(* accept loop running and the watchdog still polling by then.             *)
DoomedSessionEnds ==
  /\ (pc \in Serving /\ ~enabled) ~> (pc \notin Serving \/ enabled)
  /\ (pc = "Select" /\ wd = "polling" /\ ssh = "closed") ~> (pc \notin Serving)

-----------------------------------------------------------------------------
(* The supervisor implements LinkPromise. *)

Phase ==
  CASE pc \in {"DisabledCheck", "DisabledWait"} -> "off"
    [] pc \in {"Connect", "Auth", "Authed"} -> "dialing"
    [] pc \in LinkUp -> "up"
    [] OTHER -> "down"

Cause == pc \in LinkUp /\ (doomed \/ ssh = "closed")

Promise == INSTANCE LinkPromise WITH on <- enabled, phase <- Phase,
                                     cause <- Cause

(* No healthy link is hung up, none is dialled while the switch is off,    *)
(* and no attempt is left undone while it is on.                           *)
KeepsPromise == Promise!Spec
=============================================================================
