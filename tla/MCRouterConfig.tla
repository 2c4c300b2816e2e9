---------------------------- MODULE MCRouterConfig ----------------------------
(* RouterConfig with a handful of operations and users. *)
EXTENDS RouterConfig, TLC

CONSTANTS o1, o2, olga, pasha

(* Nothing tells operations, or users, apart. *)
Symmetric == Permutations(Ops) \cup Permutations(Names)
=============================================================================
