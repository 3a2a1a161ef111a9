---------------------------- MODULE ServedFiles ----------------------------
(***************************************************************************)
(* The two files the server is configured with, fullchain and privkey, as  *)
(* a renewal leaves them: a certificate is issued with its key, and the    *)
(* files are replaced one after the other, in either order, by a program   *)
(* that is not part of sslpv.                                              *)
(***************************************************************************)
EXTENDS Naturals

CONSTANTS
    Certs, Keys,        \* PEM contents
    KeyOf,              \* certificate -> the key it goes with
    MaxRenewals         \* bound: renewals

VARIABLES
    issued,             \* the certificate last issued to the server
    fullchain, privkey, \* the server's files, which lag behind it
    renewals

InitFiles ==
    /\ issued \in Certs
    /\ fullchain = issued
    /\ privkey = KeyOf[issued]
    /\ renewals = 0

Renewing == fullchain # issued \/ privkey # KeyOf[issued]

Renew ==
    /\ renewals < MaxRenewals
    /\ ~Renewing
    /\ issued' \in Certs \ {issued}
    /\ renewals' = renewals + 1
    /\ UNCHANGED <<fullchain, privkey>>

PublishCert ==
    /\ fullchain # issued
    /\ fullchain' = issued
    /\ UNCHANGED <<issued, privkey, renewals>>

PublishKey ==
    /\ privkey # KeyOf[issued]
    /\ privkey' = KeyOf[issued]
    /\ UNCHANGED <<issued, fullchain, renewals>>

FilesTypeOK ==
    /\ {issued, fullchain} \subseteq Certs
    /\ privkey \in Keys
    /\ renewals \in 0 .. MaxRenewals

\* get_cert and get_privkey: each request reads its file afresh.
Served == [cert |-> fullchain, key |-> privkey]
=============================================================================
