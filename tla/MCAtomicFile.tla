---------------------------- MODULE MCAtomicFile ----------------------------
(***************************************************************************)
(* AtomicFile with the writers that exist: the menu thread and the tunnel  *)
(* thread of the daemon, and the configuration editor, a process of its    *)
(* own.                                                                    *)
(***************************************************************************)
EXTENDS AtomicFile, TLC

CONSTANTS menu, tunnel, editor, daemon, gui, i1, i2, i3, i4, i5, i6, c1, c2

OneWriterEach == (editor :> gui) @@ (menu :> daemon)

DaemonThreads == (menu :> daemon) @@ (tunnel :> daemon)

Symmetry == Permutations({i1, i2, i3, i4, i5, i6}) \cup Permutations({c1, c2})
=============================================================================
