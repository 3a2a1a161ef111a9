---------------------------- MODULE Provisioning ----------------------------
(***************************************************************************)
(* Clients that fetch the pair from one server, over a network that loses, *)
(* delays and repeats requests, day after day: fetch_encrypted_pem and     *)
(* run_client of sslpv.services.client against the routes of               *)
(* sslpv.routers.certs.                                                    *)
(*                                                                         *)
(* Each side is seen through what its own module shows.  The limiter is    *)
(* TokenBuckets with whole tokens and room for every address; the          *)
(* authentication is AuthServer, where a challenge is good while it is     *)
(* young and of the running process, and is accepted once.  The records a  *)
(* spent set drops early, and a clock set back, are left to AuthServer.    *)
(***************************************************************************)
EXTENDS Integers, FiniteSets

CONSTANTS
    Clients,            \* the machines that run sslpv client
    Peers,              \* the hosts that connect to the server for them
    TrustedProxies,     \* config.trusted_proxies
    Capacity,           \* RateLimiter: capacity, in tokens
    Rate,               \* RateLimiter: rate, in tokens per unit of time
    Serials,            \* bound: challenges of a client known at one time
    NoNonce,
    MaxMishaps          \* bound: messages lost or repeated, and other failures

ASSUME ProvisioningAssumption ==
    /\ TrustedProxies \subseteq Peers
    /\ IsFiniteSet(Clients)
    /\ Clients \cap Peers = {}
    /\ Capacity \in Nat
    /\ Rate \in Nat
    /\ Serials \subseteq Nat
    /\ NoNonce \notin Clients \X Serials
    /\ MaxMishaps \in Nat

VARIABLES
    via,                \* the peer through which each client connects
    tokens,             \* app.state.rate_limiter, by address
    valid,              \* challenges of this process, not expired
    spent,              \* app.state.spent_nonces
    net,                \* protected requests on their way
    stage,              \* where each client's run is
    path,               \* the endpoint it is fetching
    nonce,              \* the challenge it holds
    outcome,            \* how the day's run ended
    hit,                \* history: clients struck by a mishap today
    strays,             \* history: requests metered today, by address, that
                        \* no client was waiting for
    mishaps

server_vars == <<tokens, valid, spent>>
client_vars == <<stage, path, nonce, outcome>>
history == <<hit, strays, mishaps>>
vars == <<via, server_vars, net, client_vars, history>>

Paths == {"/cert", "/privkey"}

\* What os.urandom(32) returns: nonces that differ.  Each is named by whom it
\* is drawn for, and which of that client's it is; the server cannot tell.
Nonces == Clients \X Serials

Message == [client : Clients, path : Paths, nonce : Nonces]

Addresses == Clients \cup Peers

\* A mistake: X-Forwarded-For is never read.
PeerAddress(c) == via[c]

\* _get_client_ip, and the same lines of get_challenge: a trusted proxy is
\* believed when it names the client, any other peer stands for itself.
Address(c) == IF via[c] \in TrustedProxies THEN c ELSE via[c]

FullBuckets == [a \in Addresses |-> Capacity]

Init ==
    /\ via \in [Clients -> Peers]
    /\ tokens = FullBuckets
    /\ valid = {}
    /\ spent = {}
    /\ net = {}
    /\ stage = [c \in Clients |-> "ask"]
    /\ path = [c \in Clients |-> "/cert"]
    /\ nonce = [c \in Clients |-> NoNonce]
    /\ outcome = [c \in Clients |-> "none"]
    /\ hit = {}
    /\ strays = [a \in Addresses |-> 0]
    /\ mishaps = 0

-----------------------------------------------------------------------------
\* The server.

Allowed(c) == tokens[Address(c)] > 0

\* A mistake: a refused request is charged too.
MeterAll(c) == tokens' = [tokens EXCEPT ![Address(c)] = @ - 1]

\* allow: every request but a refused one costs its address a token.
Meter(c) ==
    tokens' = [tokens EXCEPT ![Address(c)] = IF @ > 0 THEN @ - 1 ELSE 0]

\* verify_auth, past the limiter.
Authentic(m) == m.nonce \in valid \ spent

\* get_cert and get_privkey: the nonce is spent, then the file is read.
Status(m, readable) ==
    CASE ~Allowed(m.client) -> 429
      [] Allowed(m.client) /\ ~Authentic(m) -> 401
      [] Allowed(m.client) /\ Authentic(m) /\ ~readable -> 500
      [] OTHER -> 200

Serve(m) ==
    /\ Meter(m.client)
    /\ spent' = IF Allowed(m.client) /\ Authentic(m) THEN spent \cup {m.nonce} ELSE spent
    /\ UNCHANGED valid

-----------------------------------------------------------------------------
\* A client's run.

AtStage(c, s) == stage[c] = s

MovesTo(c, s) == stage' = [stage EXCEPT ![c] = s]

Ends(c, how) ==
    /\ MovesTo(c, "exited")
    /\ path' = [path EXCEPT ![c] = "/cert"]
    /\ nonce' = [nonce EXCEPT ![c] = NoNonce]
    /\ outcome' = [outcome EXCEPT ![c] = how]

Undrawn(c) == {i \in Serials : /\ <<c, i>> \notin valid \cup spent
                               /\ nonce[c] # <<c, i>>
                               /\ \A m \in net : m.nonce # <<c, i>>}

Request(c, n) == [client |-> c, path |-> path[c], nonce |-> n]

\* GET /challenge and its answer: 429 ends the run, a challenge is answered
\* with the request for the PEM, whose proof is for the path.
Ask(c) ==
    /\ AtStage(c, "ask")
    /\ Meter(c)
    /\ \/ /\ ~Allowed(c)
          /\ Ends(c, "refused")
          /\ UNCHANGED <<valid, net>>
       \/ /\ Allowed(c)
          /\ \E i \in Undrawn(c) :
                /\ \A j \in Undrawn(c) : i <= j
                /\ valid' = valid \cup {<<c, i>>}
                /\ nonce' = [nonce EXCEPT ![c] = <<c, i>>]
                /\ net' = net \cup {Request(c, <<c, i>>)}
          /\ MovesTo(c, "wait")
          /\ UNCHANGED <<path, outcome>>
    /\ UNCHANGED <<via, spent, history>>

Awaited(m) ==
    /\ AtStage(m.client, "wait")
    /\ m.path = path[m.client]
    /\ m.nonce = nonce[m.client]

\* fetch_json and run_client: any status but 200 ends the run, nothing is
\* retried; the second fetch has a challenge of its own.
Take(c, status) ==
    IF status = 200 /\ path[c] = "/cert"
    THEN /\ MovesTo(c, "ask")
         /\ path' = [path EXCEPT ![c] = "/privkey"]
         /\ nonce' = [nonce EXCEPT ![c] = NoNonce]
         /\ UNCHANGED outcome
    ELSE Ends(c, IF status = 200 THEN "done" ELSE IF status = 429 THEN "refused" ELSE "failed")

\* A request nobody waits to be answered is remembered.
Stray(m) == strays' = [strays EXCEPT ![Address(m.client)] = @ + 1]

StrayUnlessAwaited(m) == IF Awaited(m) THEN UNCHANGED strays ELSE Stray(m)

\* A mistake: the challenge of /cert is used for /privkey too.
DeliverReusing(m) ==
    /\ Serve(m)
    /\ StrayUnlessAwaited(m)
    /\ IF Awaited(m) /\ Status(m, TRUE) = 200 /\ m.path = "/cert"
       THEN /\ path' = [path EXCEPT ![m.client] = "/privkey"]
            /\ net' = (net \ {m}) \cup {[m EXCEPT !.path = "/privkey"]}
            /\ UNCHANGED <<stage, nonce, outcome>>
       ELSE /\ net' = net \ {m}
            /\ IF Awaited(m) THEN Take(m.client, Status(m, TRUE)) ELSE UNCHANGED client_vars
    /\ UNCHANGED <<via, hit, mishaps>>

\* A request reaches the server, and the answer the client if it still waits.
Deliver(m) ==
    /\ Serve(m)
    /\ StrayUnlessAwaited(m)
    /\ net' = net \ {m}
    /\ IF Awaited(m) THEN Take(m.client, Status(m, TRUE)) ELSE UNCHANGED client_vars
    /\ UNCHANGED <<via, hit, mishaps>>

\* A mistake: requests are made without a timeout.
GiveUpNever(c) ==
    /\ FALSE
    /\ Ends(c, "failed")
    /\ UNCHANGED <<via, server_vars, net, history>>

\* --timeout: no answer is coming.
GiveUp(c) ==
    /\ AtStage(c, "wait")
    /\ Request(c, nonce[c]) \notin net
    /\ Ends(c, "failed")
    /\ UNCHANGED <<via, server_vars, net, history>>

-----------------------------------------------------------------------------
\* Mishaps.

Mishap(struck) ==
    /\ mishaps < MaxMishaps
    /\ mishaps' = mishaps + 1
    /\ hit' = hit \cup struck

Holders(ns) == {c \in Clients : nonce[c] \in ns}

\* GET /challenge is lost, or its answer is, with the challenge it carries.
LoseChallenge(c) ==
    /\ AtStage(c, "ask")
    /\ Mishap({c})
    /\ Ends(c, "failed")
    /\ UNCHANGED tokens \/ Meter(c)
    /\ UNCHANGED <<via, valid, spent, net, strays>>

LoseRequest(m) ==
    /\ Mishap({m.client})
    /\ net' = net \ {m}
    /\ UNCHANGED <<via, server_vars, client_vars, strays>>

LoseAnswer(m) ==
    /\ Mishap({m.client})
    /\ net' = net \ {m}
    /\ Serve(m)
    /\ StrayUnlessAwaited(m)
    /\ UNCHANGED <<via, client_vars>>

\* A proxy that got no answer passes the request on again.
Repeat(m) ==
    /\ Mishap({m.client})
    /\ Serve(m)
    /\ Stray(m)
    /\ UNCHANGED <<via, net, client_vars>>

\* The PEM file cannot be read, just now: 500.
FailToRead(m) ==
    /\ Awaited(m)
    /\ Mishap({m.client})
    /\ Serve(m)
    /\ net' = net \ {m}
    /\ Take(m.client, Status(m, FALSE))
    /\ UNCHANGED <<via, strays>>

\* The answer is later than the client's timeout; the request lives on.
TimeOut(m) ==
    /\ Awaited(m)
    /\ Mishap({m.client})
    /\ Ends(m.client, "failed")
    /\ UNCHANGED <<via, server_vars, net, strays>>

\* TTL seconds pass before a challenge is used.
Expire(n) ==
    /\ Mishap(Holders({n}))
    /\ valid' = valid \ {n}
    /\ UNCHANGED <<via, tokens, spent, net, client_vars, strays>>

\* create_app again: a new secret, and nothing remembered.
Restart ==
    /\ Mishap(Holders(Nonces))
    /\ tokens' = FullBuckets
    /\ valid' = {}
    /\ spent' = {}
    /\ UNCHANGED <<via, net, client_vars, strays>>

-----------------------------------------------------------------------------
Refill ==
    /\ tokens' = [a \in Addresses |->
                    IF tokens[a] + Rate <= Capacity THEN tokens[a] + Rate ELSE Capacity]
    /\ UNCHANGED <<via, valid, spent, net, client_vars, history>>

\* The next day, on which cron starts every client again: buckets have filled
\* up, and every challenge is too old, so that what the spent set still holds
\* is of no consequence.  A request may still be on its way.
NewDay ==
    /\ \A c \in Clients : AtStage(c, "exited")
    /\ tokens' = FullBuckets
    /\ valid' = {}
    /\ spent' = {}
    /\ stage' = [c \in Clients |-> "ask"]
    /\ outcome' = [c \in Clients |-> "none"]
    /\ hit' = {}
    /\ strays' = [a \in Addresses |-> 0]
    /\ UNCHANGED <<via, net, path, nonce, mishaps>>

Progress(c) ==
    \/ Ask(c)
    \/ \E m \in net : m.client = c /\ Awaited(m) /\ Deliver(m)
    \/ GiveUp(c)

Trouble ==
    \/ \E c \in Clients : LoseChallenge(c)
    \/ \E m \in net : \/ LoseRequest(m)
                      \/ LoseAnswer(m)
                      \/ Repeat(m)
                      \/ FailToRead(m)
                      \/ TimeOut(m)
    \/ \E n \in valid \ spent : Expire(n)
    \/ Restart

Next ==
    \/ \E c \in Clients : Progress(c)
    \/ \E m \in net : ~Awaited(m) /\ Deliver(m)
    \/ Trouble
    \/ Refill
    \/ NewDay

\* Each run goes on, because a request is answered or times out; cron starts
\* the run of the day, and another day comes.  Mishaps are not fair, and few.
Fairness ==
    /\ \A c \in Clients : WF_vars(Progress(c))
    /\ WF_vars(NewDay)

Spec == Init /\ [][Next]_vars /\ Fairness

-----------------------------------------------------------------------------
TypeOK ==
    /\ via \in [Clients -> Peers]
    /\ tokens \in [Addresses -> 0 .. Capacity]
    /\ valid \subseteq Nonces
    /\ spent \subseteq Nonces
    /\ net \subseteq Message
    /\ stage \in [Clients -> {"exited", "ask", "wait"}]
    /\ path \in [Clients -> Paths]
    /\ nonce \in [Clients -> Nonces \cup {NoNonce}]
    /\ outcome \in [Clients -> {"none", "done", "refused", "failed"}]
    /\ hit \subseteq Clients
    /\ strays \in [Addresses -> Nat]
    /\ mishaps \in 0 .. MaxMishaps

\* A run fails only for a mishap of its own day and of its own client: no
\* other client's run, no request left over from an earlier run and no order
\* of arrival makes the server turn down what an undisturbed client asks.
FailsOnlyForMishap ==
    \A c \in Clients : outcome[c] = "failed" => c \in hit

\* Runs are refused only when their address is crowded: a run takes four
\* tokens, three if its last request is the one refused, and a day starts with
\* a full bucket.  So if any run is refused, the address has more runs, and
\* repeated or late requests, than its bucket has tokens.
Here(a) == {c \in Clients :
              \/ c = a /\ via[c] \in TrustedProxies
              \/ via[c] = a /\ a \notin TrustedProxies}

RefusedOnlyWhenCrowded ==
    \A a \in Addresses :
        LET refused == {c \in Here(a) : outcome[c] = "refused"}
        IN  refused # {} =>
               Capacity + Cardinality(refused) <= 4 * Cardinality(Here(a)) + strays[a]

\* Once mishaps have ceased, a client whose address is not crowded is served
\* again and again, whatever became of its earlier runs.
ServedIfItFits(c) ==
    4 * Cardinality({d \in Clients : Address(d) = Address(c)}) <= Capacity
        => outcome[c] = "done"

EveryClientServed == \A c \in Clients : []<>ServedIfItFits(c)
=============================================================================
