---------------------------- MODULE LinkPromise ----------------------------
(***************************************************************************)
(* What the tunnel promises the person behind the menu bar, with none of   *)
(* its machinery: a switch that can be flipped at any time, and a link     *)
(* that is dialled only while the switch is on, and that is hung up only   *)
(* for a cause.  Tunnel implements this specification.                     *)
(***************************************************************************)

VARIABLES
  on,     \* the switch, as the user last left it
  phase,  \* "off", "down" (between attempts), "dialing" or "up"
  cause   \* while up: has anything happened that justifies hanging up?

vars == <<on, phase, cause>>

TypeOK ==
  /\ on \in BOOLEAN
  /\ phase \in {"off", "down", "dialing", "up"}
  /\ cause \in BOOLEAN

Init ==
  /\ on = TRUE
  /\ phase = "down"
  /\ cause = FALSE

(* The user flips the switch; switching off a live link is a cause. *)
Flip ==
  /\ on' = ~on
  /\ cause' = (cause \/ (phase = "up" /\ on))
  /\ UNCHANGED phase

(* The server or the network drops a live link. *)
Lose ==
  /\ phase = "up"
  /\ cause' = TRUE
  /\ UNCHANGED <<on, phase>>

(* The tunnel notices the switch is off, and comes back once it is on. *)
Rest ==
  /\ phase = "down"
  /\ ~on
  /\ phase' = "off"
  /\ UNCHANGED <<on, cause>>

Resume ==
  /\ phase = "off"
  /\ on
  /\ phase' = "down"
  /\ UNCHANGED <<on, cause>>

Dial ==
  /\ phase = "down"
  /\ on
  /\ phase' = "dialing"
  /\ UNCHANGED <<on, cause>>

Fail ==
  /\ phase = "dialing"
  /\ phase' = "down"
  /\ UNCHANGED <<on, cause>>

(* A link can already be doomed when it comes up: switched off, or lost,   *)
(* while it was being dialled.                                             *)
Establish ==
  /\ phase = "dialing"
  /\ phase' = "up"
  /\ cause' \in {~on, TRUE}
  /\ UNCHANGED on

(* A healthy link is never hung up. *)
HangUp ==
  /\ phase = "up"
  /\ cause
  /\ phase' = "down"
  /\ cause' = FALSE
  /\ UNCHANGED on

Next ==
  \/ Flip
  \/ Lose
  \/ Rest
  \/ Resume
  \/ Dial
  \/ Fail
  \/ Establish
  \/ HangUp

SafeSpec == Init /\ [][Next]_vars

(* The link does not stay down, or off, while the switch stays on, and an  *)
(* attempt ends one way or the other.  Nothing is promised about HangUp:   *)
(* see DoomedSessionEnds in module Tunnel.                                 *)
Fairness ==
  /\ WF_vars(Rest)
  /\ WF_vars(Resume)
  /\ WF_vars(Dial)
  /\ WF_vars(Fail \/ Establish)

Spec == SafeSpec /\ Fairness
=============================================================================
