-------------------------------- MODULE MCProxy --------------------------------
(* Proxy with two pieces of data each way. *)
EXTENDS Proxy

TwoPieces == <<"one", "two">>
=============================================================================
