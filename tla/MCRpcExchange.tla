--------------------------- MODULE MCRpcExchange ---------------------------
(***************************************************************************)
(* RpcExchange with two calls at a time.                                   *)
(***************************************************************************)
EXTENDS RpcExchange

CONSTANTS c1, c2

OneCall == {c1}
TwoCalls == {c1, c2}
=============================================================================
