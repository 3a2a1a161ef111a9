----------------------------- MODULE Transport -----------------------------
(***************************************************************************)
(* The client's side of TLS, against a server that keeps the certificate   *)
(* it was started with: what the opener of build_opener accepts, where the *)
(* token goes when a request is redirected, and what becomes of a          *)
(* fingerprint once the server's files are renewed and it is restarted.    *)
(***************************************************************************)
EXTENDS ServerLife

CONSTANTS
    OtherCert,          \* presented by the host a request is redirected to
    Chains,             \* certificates the client's CAs vouch for, whether
                        \* the system's or those of --ca-cert
    NoUrl               \* no request is in progress

ASSUME TransportAssumption ==
    /\ Chains \subseteq Certs \cup {OwnCert, OtherCert}
    /\ OtherCert \notin Certs \cup {OwnCert, Unset}

VARIABLES
    expired,            \* certificates past their last day
    insecure,           \* --insecure
    pin,                \* --pin-sha256: the certificate it was taken of
    url,                \* where the request in progress goes next
    told,               \* who last got the token, and how: [scheme, cert]
    relaunched,         \* history: the server was launched since the pin was
                        \* taken
    superseded          \* history: its files were renewed since it started
                        \* to run with the certificate that was pinned

request_vars == <<url, told>>
pin_vars == <<pin, relaunched, superseded>>
vars == <<life_vars, expired, insecure, request_vars, pin_vars>>

Urls == [scheme : {"http", "https"}, host : {"server", "other"}]

Told == [scheme : {"http", "https"}, cert : Certs \cup {OwnCert, OtherCert, Unset}]

Nobody == [scheme |-> "https", cert |-> Unset]

Init ==
    /\ InitLife
    /\ expired = {}
    /\ insecure \in BOOLEAN
    /\ pin = Unset
    /\ url = NoUrl
    /\ told = Nobody
    /\ relaunched = FALSE
    /\ superseded = FALSE

-----------------------------------------------------------------------------
\* build_opener: a pin takes the place of verification, and of --insecure.
Accepts(cert) ==
    IF pin # Unset
    THEN cert = pin
    ELSE insecure \/ cert \in Chains \ expired

Presents(host) == IF host = "server" THEN loaded.cert ELSE OtherCert

Answers(host) == host = "server" => phase = "up"

\* validate_server_url: run_client goes on with an https URL only.  Without a
\* server to connect to, it fails at once.
Submit(u) ==
    /\ url = NoUrl
    /\ u.host = "server" /\ Answers(u.host)
    /\ u.scheme = "https"
    /\ url' = u
    /\ told' = Nobody
    /\ UNCHANGED <<life_vars, expired, insecure, pin_vars>>

\* A mistake: urllib's own handler, which follows a redirect to http.
FollowAnything(u) == url' = u

\* _SafeRedirectHandler
Follow(u) == url' = IF u.scheme = "https" THEN u ELSE NoUrl

\* The token is sent, and comes with the request wherever it is redirected.
Connects ==
    /\ told' = [scheme |-> url.scheme,
                cert |-> IF url.scheme = "https" THEN Presents(url.host) ELSE Unset]
    /\ url' = NoUrl \/ \E u \in Urls : Follow(u)

\* The connection, which the opener makes and checks anew for each hop.
Hop ==
    /\ url # NoUrl
    /\ LET fit == Answers(url.host) /\ (url.scheme = "https" => Accepts(Presents(url.host)))
       IN  \/ fit /\ Connects
           \/ ~fit /\ url' = NoUrl /\ UNCHANGED told
    /\ UNCHANGED <<life_vars, expired, insecure, pin_vars>>

\* The operator takes the fingerprint of the certificate the server presents.
TakePin ==
    /\ phase = "up"
    /\ url = NoUrl
    /\ pin' = loaded.cert
    /\ relaunched' = FALSE
    /\ superseded' = outrun
    /\ told' = Nobody
    /\ UNCHANGED <<life_vars, expired, insecure, url>>

\* A certificate's last day passes; a renewal does not bring it back.
Expire(c) ==
    /\ expired' = expired \cup {c}
    /\ UNCHANGED <<life_vars, insecure, request_vars, pin_vars>>

ServerStep ==
    /\ LifeStep
    /\ issued' = issued \/ issued' \notin expired
    /\ relaunched' = (relaunched \/ (phase = "down" /\ phase' = "checking"))
    /\ superseded' = (superseded \/ issued' # issued)
    /\ UNCHANGED <<expired, insecure, request_vars, pin>>

Next ==
    \/ ServerStep
    \/ \E u \in Urls : Submit(u)
    \/ Hop
    \/ TakePin
    \/ \E c \in Chains : Expire(c)

Spec == Init /\ [][Next]_vars

-----------------------------------------------------------------------------
TypeOK ==
    /\ LifeTypeOK
    /\ expired \subseteq Chains
    /\ insecure \in BOOLEAN
    /\ pin \in Certs \cup {OwnCert, Unset}
    /\ url \in Urls \cup {NoUrl}
    /\ told \in Told
    /\ {relaunched, superseded} \subseteq BOOLEAN

\* Wherever redirects lead, the token goes over https, and only to a host the
\* opener was told to trust: the pinned one if there is a pin, else one that
\* a CA vouches for, unless --insecure.
TokenOnlyToTrusted ==
    told # Nobody =>
        /\ told.scheme = "https"
        /\ pin # Unset => told.cert = pin
        /\ pin = Unset /\ ~insecure => told.cert \in Chains

\* A fingerprint taken from the server keeps working until the server is
\* started again after a renewal; with a certificate of its own, for ever.
PinBreaksOnlyByRestart ==
    pin # Unset /\ phase = "up" /\ loaded.cert # pin =>
        server_certfile = Unset /\ relaunched /\ superseded

\* A client that verifies the chain is turned away by a server that is up only
\* if the certificate issued last has run out, or is of no CA it trusts, or the
\* server was started before that one was in place, and so presents an older
\* one; a certificate of its own has to be vouched for.
RefusedOnlyForCause ==
    phase = "up" /\ loaded.cert \notin Chains \ expired =>
        \/ server_certfile = Unset /\ (outrun \/ issued \notin Chains \ expired)
        \/ server_certfile # Unset /\ OwnCert \notin Chains \ expired
=============================================================================
