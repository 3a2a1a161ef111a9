---------------------------- MODULE MCAuthServer ----------------------------
(***************************************************************************)
(* AuthServer on small instances.                                          *)
(***************************************************************************)
EXTENDS AuthServer, TLC

\* Nonces are drawn at random, IPs and paths are names: none is special.
Symmetry == Permutations(Nonces) \cup Permutations(Ips) \cup Permutations(Paths)
=============================================================================
