--------------------------- MODULE MCProvisioning ---------------------------
(***************************************************************************)
(* Provisioning with a trusted proxy and an address that clients share.    *)
(***************************************************************************)
EXTENDS Provisioning
=============================================================================
