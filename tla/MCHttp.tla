-------------------------------- MODULE MCHttp --------------------------------
(***************************************************************************)
(* Instance of HttpServer for TLC: two connections compete for one slot;   *)
(* with three requests one of them is reused while the other waits.        *)
(***************************************************************************)
EXTENDS HttpServer

CONSTANTS c1, c2

MCConns == {c1, c2}

=============================================================================
