--------------------------- MODULE MCConfigStore ---------------------------
(* ConfigStore with two profiles and two hosts. *)
EXTENDS ConfigStore

CONSTANTS n1, n2, h1, h2
=============================================================================
