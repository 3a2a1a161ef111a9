--------------------------- MODULE MCNonceMemory ---------------------------
(***************************************************************************)
(* NonceMemory with one nonce more than the set holds, and one to spare.   *)
(***************************************************************************)
EXTENDS NonceMemory, TLC

\* Nonces are random bytes: none is special.
Symmetry == Permutations(Nonces)
=============================================================================
