---------------------------- MODULE MCTransport ----------------------------
(***************************************************************************)
(* Transport, and with it ServerLife, on a small instance.                 *)
(***************************************************************************)
EXTENDS Transport, TLC

CONSTANTS c1, c2, k1, k2

\* Every renewal makes a new key.
KeyOfEach == (c1 :> k1) @@ (c2 :> k2)

\* The client's CAs vouch for the server's certificates, not for the other's.
VouchedFor == Certs \cup {OwnCert}
=============================================================================
