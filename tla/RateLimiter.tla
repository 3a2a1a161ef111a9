---------------------------- MODULE RateLimiter ----------------------------
(***************************************************************************)
(* class RateLimiter of sslpv.services.server: a token bucket per client   *)
(* IP, kept in an OrderedDict from IPs to [tokens, last refill time], the  *)
(* least recently seen IP first.                                           *)
(*                                                                         *)
(* The code keeps tokens as a float.  Here they are counted in grains,     *)
(* Grain of them to a token, so that a refill may be a fraction of one.    *)
(***************************************************************************)
EXTENDS OrderedDict, Integers

CONSTANTS
    Grain,              \* grains in one token
    Rate,               \* __init__: rate, in grains per clock tick
    Capacity,           \* __init__: capacity, in tokens
    MaxIps              \* __init__: max_ips

ASSUME RateLimiterAssumption ==
    /\ Grain \in Nat \ {0}
    /\ Rate \in Nat
    /\ Capacity \in Nat
    /\ MaxIps \in Nat \ {0}

Full == Capacity * Grain

FullBucket(now) == [tokens |-> Full, last |-> now]

\* A mistake: an idle IP saves up more than a bucket.
RefilledUncapped(bucket, now) ==
    [tokens |-> bucket.tokens + (now - bucket.last) * Rate, last |-> now]

\* A mistake: the time of the refill is not recorded.
RefilledNotStamped(bucket, now) ==
    LET grown == bucket.tokens + (now - bucket.last) * Rate
    IN  [tokens |-> IF grown <= Full THEN grown ELSE Full, last |-> bucket.last]

\* A mistake: time worth less than a whole token is lost at each refill.
RefilledWholeTokens(bucket, now) ==
    LET grown == bucket.tokens + (((now - bucket.last) * Rate) \div Grain) * Grain
    IN  [tokens |-> IF grown <= Full THEN grown ELSE Full, last |-> now]

\* _refill: what the bucket holds at time now.
Refilled(bucket, now) ==
    LET grown == bucket.tokens + (now - bucket.last) * Rate
    IN  [tokens |-> IF grown <= Full THEN grown ELSE Full, last |-> now]

\* A mistake: a known IP keeps its place in the order of eviction.
SeenUnmoved(buckets, ip, now) ==
    IF ip \in Keys(buckets)
    THEN Put(buckets, ip, Refilled(Get(buckets, ip), now))
    ELSE Put(IF Size(buckets) >= MaxIps THEN PopOldest(buckets) ELSE buckets,
             ip, FullBucket(now))

\* allow, up to the decision: a known IP is refilled and becomes the most
\* recent, a new one gets a full bucket, in the place of the least recent IP
\* when max_ips are tracked.
Seen(buckets, ip, now) ==
    IF ip \in Keys(buckets)
    THEN Put(MoveToEnd(buckets, ip), ip, Refilled(Get(buckets, ip), now))
    ELSE Put(IF Size(buckets) >= MaxIps THEN PopOldest(buckets) ELSE buckets,
             ip, FullBucket(now))

\* What allow(ip) returns at time now ...
Allowed(buckets, ip, now) == Get(Seen(buckets, ip, now), ip).tokens >= Grain

\* A mistake: a refused request is charged too.
AfterAllowChargingAll(buckets, ip, now) ==
    LET seen == Seen(buckets, ip, now)
    IN  Put(seen, ip, [Get(seen, ip) EXCEPT !.tokens = @ - Grain])

\* ... and the buckets it leaves, a token fewer when it allows.
AfterAllow(buckets, ip, now) ==
    LET seen == Seen(buckets, ip, now)
    IN  IF Allowed(buckets, ip, now)
        THEN Put(seen, ip, [Get(seen, ip) EXCEPT !.tokens = @ - Grain])
        ELSE seen
=============================================================================
