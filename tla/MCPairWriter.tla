---------------------------- MODULE MCPairWriter ----------------------------
(***************************************************************************)
(* PairWriter on small instances.                                          *)
(***************************************************************************)
EXTENDS PairWriter, TLC

CONSTANTS c1, c2, c3, k1, k2

\* c3 renews c2 and keeps its key (certbot --reuse-key).
Issued == (c1 :> k1) @@ (c2 :> k2) @@ (c3 :> k2)

Symmetry == Permutations(Writers)
=============================================================================
