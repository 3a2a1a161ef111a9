------------------------------ MODULE MCLimiter ------------------------------
(***************************************************************************)
(* Limiter with more IPs than it tracks and a refill of half a token.      *)
(***************************************************************************)
EXTENDS Limiter
=============================================================================
