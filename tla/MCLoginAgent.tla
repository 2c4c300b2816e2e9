----------------------------- MODULE MCLoginAgent -----------------------------
(* The daemon's life and its Firefox menu: two places for the bundle, two  *)
(* processes of the daemon at once, and two install threads in each.       *)
EXTENDS FirefoxManager, TLC

CONSTANTS here, there, p1, p2, t1, t2

Symmetry ==
  Permutations(Places) \cup Permutations(Procs) \cup Permutations(Threads)

(* Bound: no install while one of the switches for launch at login is at   *)
(* work or shows in what the daemons and launchd still believe, and no use *)
(* of a switch after an install that left something or went through.       *)
FirefoxUnused ==
  ~Working(Procs) /\ ~dmg /\ ~left /\ ~removing /\ ~ready /\ ~disturbed

SwitchesUnused ==
  /\ editor = "closed"
  /\ \A p \in Procs : menu[p] = "idle"
  /\ others = {}
  /\ loggedIn => loaded = plist

OneAtATime == FirefoxUnused \/ SwitchesUnused
=============================================================================
