---------------------------- MODULE MCUsersWindow ----------------------------
(* Two routers that have the same user with different data. *)
EXTENDS UsersWindow, TLC

CONSTANTS r1, r2, olga, tunnel, shell, k1, k2

MCKeyOf == (r1 :> k1) @@ (r2 :> k2)

MCRouters == {(r1 :> (olga :> tunnel)) @@ (r2 :> (olga :> shell))}

=============================================================================
