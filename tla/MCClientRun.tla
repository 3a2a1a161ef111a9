----------------------------- MODULE MCClientRun -----------------------------
(***************************************************************************)
(* ClientRun on small instances.                                           *)
(***************************************************************************)
EXTENDS ClientRun, TLC

CONSTANTS c1, c2, k1, k2

\* Every renewal makes a new key.
Renewed == (c1 :> k1) @@ (c2 :> k2)
=============================================================================
