----------------------------- MODULE AuthServer -----------------------------
(***************************************************************************)
(* The challenge/response authentication of the sslpv server: GET          *)
(* /challenge and the verify_auth dependency of GET /cert and              *)
(* GET /privkey, over the state create_app gives the application: the      *)
(* server secret, the SpentNonceSet and the RateLimiter.                   *)
(*                                                                         *)
(* One event loop runs every handler and none of them awaits, so handlers  *)
(* do not interleave with each other.  Time does not wait for them:        *)
(* verify_auth reads the wall clock to judge freshness and                 *)
(* SpentNonceSet.contains reads it again, so the handler is two actions    *)
(* with clock steps possible between them.  The process may be restarted   *)
(* at any point, with a new secret and nothing remembered.                 *)
(*                                                                         *)
(* A challenge, once issued, may be presented any number of times and      *)
(* after any delay: by its client, by a retry, by a duplicate delivery.    *)
(***************************************************************************)
EXTENDS SpentNonceSet, RateLimiter

CONSTANTS
    Ips,                \* client addresses, as _get_client_ip determines them
    Nonces,             \* what os.urandom(32) may return
    Paths,              \* the protected endpoints: /cert and /privkey
    ApiKeys,            \* config.apikeys
    ClientKeys,         \* the keys clients present, configured or not
    NoKey,              \* None: no configured key matched
    NoRequest,          \* no handler is running
    Unparsable,         \* a request whose headers do not parse
    TTL,                \* seconds a challenge is good for
    ClockSkew,          \* _CLOCK_SKEW
    MaxWall,            \* bound: last wall-clock second
    MaxUptime,          \* bound: last second of a process
    MaxJumps,           \* bound: times the wall clock is set
    MaxRestarts         \* bound: restarts of the process

ASSUME AuthServerAssumption ==
    /\ TTL \in Nat
    /\ ClockSkew \in Nat
    /\ {MaxWall, MaxUptime, MaxJumps, MaxRestarts} \subseteq Nat
    /\ ApiKeys \subseteq ClientKeys
    /\ NoKey \notin ClientKeys
    /\ IsFiniteSet(Ips)

VARIABLES
    wall,               \* int(time.time())
    uptime,             \* time.monotonic(), since the process started
    jumps,              \* times the wall clock was set
    secret,             \* app.state.server_secret: one per process
    issued,             \* the challenges handed out, by signature
    spent,              \* app.state.spent_nonces
    buckets,            \* app.state.rate_limiter
    handling,           \* the request verify_auth found fresh, or NoRequest
    times,              \* history: the requests accepted with each nonce
    forgotten           \* history: the nonces whose record a running process dropped

clocks == <<wall, uptime, jumps>>
history == <<times, forgotten>>
vars == <<clocks, secret, issued, spent, buckets, handling, history>>

-----------------------------------------------------------------------------
\* Tokens.  HMACs are injective and only their key's holder computes them, so
\* a signature or a proof is represented by the message it covers.

Secrets == 0 .. MaxRestarts

IssueTimes == 0 .. MaxWall

Signature == [secret : Secrets, nonce : Nonces, issue_ts : IssueTimes]

Proof == [apikey : ClientKeys, path : Paths, nonce : Nonces, issue_ts : Nat]

Request == [path : Paths, nonce : Nonces, issue_ts : Nat, sig : Signature, proof : Proof]

SignChallenge(key, nonce, issue_ts) ==
    [secret |-> key, nonce |-> nonce, issue_ts |-> issue_ts]

VerifyChallenge(key, nonce, issue_ts, sig) ==
    sig = SignChallenge(key, nonce, issue_ts)

ComputeProof(apikey, path, nonce, issue_ts) ==
    [apikey |-> apikey, path |-> path, nonce |-> nonce, issue_ts |-> issue_ts]

Matching(proof, path, nonce, issue_ts) ==
    {k \in ApiKeys : proof = ComputeProof(k, path, nonce, issue_ts)}

VerifyProof(proof, path, nonce, issue_ts) ==
    LET matching == Matching(proof, path, nonce, issue_ts)
    IN  IF matching = {} THEN NoKey ELSE CHOOSE k \in matching : TRUE

\* The requests that can be made with the challenges handed out: the issue
\* time may have been altered by a second, the proof may be for the other
\* path or under a key that is not configured.
RequestsFrom(challenges) ==
    {[path |-> p, nonce |-> c.nonce, issue_ts |-> c.issue_ts + d, sig |-> c,
      proof |-> ComputeProof(k, q, c.nonce, c.issue_ts + d)] :
        p \in Paths, q \in Paths, d \in {0, 1}, k \in ClientKeys, c \in challenges}

-----------------------------------------------------------------------------
Init ==
    /\ wall = 0
    /\ uptime = 0
    /\ jumps = 0
    /\ secret = 0
    /\ issued = {}
    /\ spent = EmptyDict
    /\ buckets = EmptyDict
    /\ handling = NoRequest
    /\ times = [n \in Nonces |-> 0]
    /\ forgotten = {}

\* Step a of every handler: the request is metered before anything else.
Meter(ip) == buckets' = AfterAllow(buckets, ip, uptime)

\* A mistake: /challenge answers without asking the limiter.
GetChallengeUnmetered(ip) ==
    /\ handling = NoRequest
    /\ \E nonce \in Nonces \ {c.nonce : c \in issued} :
          issued' = issued \cup {SignChallenge(secret, nonce, wall)}
    /\ UNCHANGED <<clocks, secret, spent, buckets, handling, history>>

\* GET /challenge: 429, or a nonce never drawn before, signed with the time.
GetChallenge(ip) ==
    /\ handling = NoRequest
    /\ Meter(ip)
    /\ \/ /\ ~Allowed(buckets, ip, uptime)
          /\ UNCHANGED issued
       \/ /\ Allowed(buckets, ip, uptime)
          /\ \E nonce \in Nonces \ {c.nonce : c \in issued} :
                issued' = issued \cup {SignChallenge(secret, nonce, wall)}
    /\ UNCHANGED <<clocks, secret, spent, handling, history>>

Fresh(issue_ts, now) ==
    /\ now - issue_ts <= TTL
    /\ issue_ts <= now + ClockSkew

\* Steps b to d: the headers parse, the signature is this process's, and the
\* first reading of the clock finds the challenge fresh.
PassesChallenge(request) ==
    /\ request # Unparsable
    /\ VerifyChallenge(secret, request.nonce, request.issue_ts, request.sig)
    /\ Fresh(request.issue_ts, wall)

\* A mistake: verify_auth asks the limiter only about headers that do not parse.
BeginAuthUnmetered(ip, request) ==
    /\ handling = NoRequest
    /\ PassesChallenge(request)
    /\ handling' = request
    /\ UNCHANGED <<clocks, secret, issued, spent, buckets, history>>

\* verify_auth, steps a to d: 429, 400 or 401, or on to step e.
BeginAuth(ip, request) ==
    /\ handling = NoRequest
    /\ Meter(ip)
    /\ \/ /\ Allowed(buckets, ip, uptime) /\ PassesChallenge(request)
          /\ handling' = request
       \/ /\ ~(Allowed(buckets, ip, uptime) /\ PassesChallenge(request))
          /\ UNCHANGED handling
    /\ UNCHANGED <<clocks, secret, issued, spent, history>>

ProofHolds(request) ==
    VerifyProof(request.proof, request.path, request.nonce, request.issue_ts) # NoKey

\* The spent set after step e, contains(nonce), which may delete the record.
AfterCheck(request) == AfterContains(spent, request.nonce, wall)

\* A mistake: nobody asks whether the nonce was spent.
AcceptUnchecked(request) ==
    /\ ProofHolds(request)
    /\ spent' = Add(spent, request.nonce, request.issue_ts + TTL)
    /\ times' = [times EXCEPT ![request.nonce] = @ + 1]

\* Steps f and g: the proof holds, the nonce is marked spent.
Accept(request) ==
    /\ ~Contains(spent, request.nonce, wall)
    /\ ProofHolds(request)
    /\ spent' = Add(AfterCheck(request), request.nonce, request.issue_ts + TTL)
    /\ times' = [times EXCEPT ![request.nonce] = @ + 1]

\* A mistake: the nonce is marked spent before its proof is verified.
RefuseAndSpend(request) ==
    /\ Contains(spent, request.nonce, wall) \/ ~ProofHolds(request)
    /\ spent' = Add(AfterCheck(request), request.nonce, request.issue_ts + TTL)
    /\ UNCHANGED times

\* 401: the nonce was spent, or the proof does not hold and spends nothing.
Refuse(request) ==
    /\ Contains(spent, request.nonce, wall) \/ ~ProofHolds(request)
    /\ spent' = AfterCheck(request)
    /\ UNCHANGED times

\* The records dropped by this step, whether or not one is written anew.
Dropped(request) ==
    (Keys(spent) \ Keys(AfterCheck(request))) \cup (Keys(spent) \ Keys(spent'))

\* verify_auth, steps e to g, on the clock's second reading.
FinishAuth ==
    /\ handling # NoRequest
    /\ Accept(handling) \/ Refuse(handling)
    /\ forgotten' = forgotten \cup Dropped(handling)
    /\ handling' = NoRequest
    /\ UNCHANGED <<clocks, secret, issued, buckets>>

-----------------------------------------------------------------------------
\* A second passes.
Tick ==
    /\ wall < MaxWall
    /\ uptime < MaxUptime
    /\ wall' = wall + 1
    /\ uptime' = uptime + 1
    /\ UNCHANGED <<jumps, secret, issued, spent, buckets, handling, history>>

\* The wall clock is set, forwards or backwards; the monotonic one is not.
SetClock ==
    /\ jumps < MaxJumps
    /\ jumps' = jumps + 1
    /\ wall' \in IssueTimes \ {wall}
    /\ UNCHANGED <<uptime, secret, issued, spent, buckets, handling, history>>

\* A mistake: the secret survives a restart, the spent nonces do not.
RestartKeepingSecret ==
    /\ secret < MaxRestarts
    /\ uptime' = 0
    /\ spent' = EmptyDict
    /\ buckets' = EmptyDict
    /\ handling' = NoRequest
    /\ UNCHANGED <<wall, jumps, secret, issued, history>>

\* The process dies, whatever it was doing, and create_app runs again.
\* Clients keep the challenges they hold.
Restart ==
    /\ secret < MaxRestarts
    /\ secret' = secret + 1
    /\ uptime' = 0
    /\ spent' = EmptyDict
    /\ buckets' = EmptyDict
    /\ handling' = NoRequest
    /\ UNCHANGED <<wall, jumps, issued, history>>

Next ==
    \/ \E ip \in Ips : GetChallenge(ip)
    \/ \E ip \in Ips, request \in RequestsFrom(issued) \cup {Unparsable} :
          BeginAuth(ip, request)
    \/ FinishAuth
    \/ Tick
    \/ SetClock
    \/ Restart

Spec == Init /\ [][Next]_vars

-----------------------------------------------------------------------------
Bucket == [tokens : 0 .. Full, last : 0 .. MaxUptime]

\* The nonces a request was accepted with, and those accepted more than once.
used == {n \in Nonces : times[n] >= 1}
reused == {n \in Nonces : times[n] >= 2}

TypeOK ==
    /\ wall \in IssueTimes
    /\ uptime \in 0 .. MaxUptime
    /\ jumps \in 0 .. MaxJumps
    /\ secret \in Secrets
    /\ issued \subseteq Signature
    /\ IsDict(spent, Nonces, Nat)
    /\ IsDict(buckets, Ips, Bucket)
    /\ handling \in Request \cup {NoRequest}
    /\ times \in [Nonces -> Nat]
    /\ forgotten \subseteq used

\* A nonce is accepted a second time only if the running process had dropped
\* its record: neither a retry, nor a delayed or duplicated request, nor the
\* other path, nor a restart, nor a clock set back makes verify_auth accept it.
ReuseOnlyIfForgotten == reused \subseteq forgotten

\* What README.md promises of verify_auth, "one-time use", with no exception.
OneTimeUse == reused = {}

\* A running process drops a record in two cases only: add() evicts the oldest
\* of a full set, or contains() deletes the record of the very nonce being
\* checked, because its last second ended after verify_auth judged it fresh.
\* The clock being set, and any order of requests, drop nothing else.
DropsOnlyOldestOrEnded ==
    [][\A n \in Keys(spent) :
          (n \notin Keys(spent') \/ n \in forgotten' \ forgotten) =>
            \/ Size(spent) >= MaxSize /\ n = Oldest(spent)
            \/ handling # NoRequest /\ n = handling.nonce
                 /\ wall > handling.issue_ts + TTL
            \/ secret' # secret]_vars

\* The spent set is exactly what was accepted: each record is of a nonce that
\* was accepted under the present secret and expires when its challenge does
\* (a refused request spends nothing), and every nonce so accepted that was
\* not dropped is still there.
RecordsWhatWasAccepted ==
    /\ \A n \in Keys(spent) :
          n \in used /\ \E c \in issued : /\ c.nonce = n
                                          /\ c.secret = secret
                                          /\ Get(spent, n) = c.issue_ts + TTL
    /\ \A c \in issued :
          c.secret = secret /\ c.nonce \in used \ forgotten => c.nonce \in Keys(spent)

\* The challenges of one process are tickets, live until the wall clock passes
\* their last second, and its spent set is the record of those accepted.
Current == {c \in issued : c.secret = secret}

Ledger == INSTANCE Tickets WITH
    good <- {c.nonce : c \in Current},
    live <- {c.nonce : c \in {d \in Current : wall <= d.issue_ts + TTL}},
    taken <- Keys(spent),
    Room <- MaxSize

\* Whatever is presented, before and after restarts and at any setting of the
\* clock, verify_auth lets a request through only with a challenge its own
\* process handed out, and with one whose acceptance is on record only when
\* its time was over at the second reading of the clock; and it loses a record
\* only when the challenge's time is over, or one to make room for another.
ImplementsTickets == Ledger!Spec

\* A set large enough for the request rate the limiter admits evicts only
\* records that have expired.  A record is live for at most TTL seconds; the
\* MaxSize + 1 requests accepted between its writing and its eviction, and
\* their challenges, were all metered within 2 * TTL seconds.  (With the clock
\* never set: SetClock may bring an expired record's time back.)
LargeEnough ==
    /\ Cardinality(Ips) <= MaxIps
    /\ 2 * Grain * (MaxSize + 1) > Cardinality(Ips) * (Full + 2 * TTL * Rate)

EvictsOnlyExpired ==
    [][\A n \in Keys(spent) \ Keys(spent') :
          LargeEnough /\ MaxJumps = 0 /\ secret' = secret => wall > Get(spent, n)]_vars

\* The limiter bounds what one process hands out, however requests are spread:
\* as long as every IP can be tracked, the challenges issued fit the bursts and
\* the refills of the IPs.
IssuedWithinBudget ==
    Cardinality(Ips) <= MaxIps =>
        Cardinality(Current) * Grain
            <= Cardinality(Ips) * (Full + Rate * uptime)
=============================================================================
