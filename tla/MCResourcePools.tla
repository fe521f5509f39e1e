--------------------------- MODULE MCResourcePools --------------------------
(***************************************************************************)
(* A small instance of ResourcePools for TLC: each user owns one VPS.      *)
(***************************************************************************)
EXTENDS ResourcePools

CONSTANTS u1, u2, c1, c2

Owners == (c1 :> u1) @@ (c2 :> u2)

=============================================================================
