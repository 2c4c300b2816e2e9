------------------------------- MODULE MCDaemon -------------------------------
(* Daemon with a handful of processes. *)
EXTENDS Daemon

CONSTANTS p1, p2, p3
=============================================================================
