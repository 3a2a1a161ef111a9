------------------------------ MODULE Limiter ------------------------------
(***************************************************************************)
(* The RateLimiter of one server process at work: requests from any IP,    *)
(* clients that come back after any pause, more IPs than are tracked.      *)
(* Buckets are refilled lazily, when their IP is seen; Limiter shows that  *)
(* nobody can tell (it implements TokenBuckets), and bounds what any IP is *)
(* granted in any window of time.                                          *)
(***************************************************************************)
EXTENDS RateLimiter

CONSTANTS
    Ips,                \* client addresses
    MaxClock            \* bound: last second of time.monotonic()

ASSUME LimiterAssumption == MaxClock \in Nat

VARIABLES
    clock,              \* time.monotonic()
    buckets,            \* RateLimiter._buckets
    verdict,            \* what allow last returned, and to whom
    window              \* history: a window of time some observer opened on
                        \* an IP, and the grants in it; it closes if the
                        \* IP's bucket is evicted

vars == <<clock, buckets, verdict, window>>

Window(ip, from) == [ip |-> ip, from |-> from, granted |-> 0, kept |-> TRUE]

Granted(w) == [w EXCEPT !.granted = @ + 1]

Closed(w) == [w EXCEPT !.granted = 0, !.kept = FALSE]

Init ==
    /\ clock = 0
    /\ buckets = EmptyDict
    /\ verdict \in [ip : Ips, allowed : {TRUE}]
    /\ window = Window(verdict.ip, 0)

\* allow(ip)
Allow(ip) ==
    LET allowed == Allowed(buckets, ip, clock)
    IN  /\ verdict' = [ip |-> ip, allowed |-> allowed]
        /\ buckets' = AfterAllow(buckets, ip, clock)
        /\ window' = CASE window.ip \in Keys(buckets) \ Keys(buckets') -> Closed(window)
                       [] window.kept /\ window.ip = ip /\ allowed   -> Granted(window)
                       [] OTHER                                      -> window
        /\ UNCHANGED clock

Tick ==
    /\ clock < MaxClock
    /\ clock' = clock + 1
    /\ UNCHANGED <<buckets, verdict, window>>

\* The observer starts to count anew, at a moment and on an IP of its choice.
Observe ==
    /\ \E ip \in Ips : window' = Window(ip, clock)
    /\ UNCHANGED <<clock, buckets, verdict>>

Next ==
    \/ \E ip \in Ips : Allow(ip)
    \/ Tick
    \/ Observe

Spec == Init /\ [][Next]_vars

-----------------------------------------------------------------------------
TypeOK ==
    /\ clock \in 0 .. MaxClock
    /\ IsDict(buckets, Ips, [tokens : 0 .. Full, last : 0 .. MaxClock])
    /\ verdict \in [ip : Ips, allowed : BOOLEAN]
    /\ window \in [ip : Ips, from : 0 .. MaxClock, granted : Nat, kept : BOOLEAN]

\* In any window of time an IP is granted no more than a burst and the refill
\* of the window, however its requests are spaced and whatever other IPs do,
\* unless its bucket was evicted meanwhile.
GrantedBound ==
    window.kept =>
        window.granted * Grain <= Full + Rate * (clock - window.from)

\* The number of IPs tracked stays within max_ips, and a refused request is
\* remembered like a granted one: the IP just seen is the most recent.
TracksMostRecent ==
    /\ Size(buckets) <= MaxIps
    /\ buckets = EmptyDict \/ buckets[verdict.ip].at = Size(buckets)

\* Lazy refill and the OrderedDict implement eager refill and the memory of
\* the last MaxIps IPs.
LevelOf(ip) ==
    IF ip \in Keys(buckets) THEN Refilled(Get(buckets, ip), clock).tokens ELSE Full

SeenSince(ip) == {j \in Keys(buckets) : buckets[j].at > buckets[ip].at}

Promise == INSTANCE TokenBuckets WITH
    level <- [ip \in Ips |-> LevelOf(ip)],
    newer <- [ip \in Keys(buckets) |-> SeenSince(ip)]

\* Every answer of allow is the answer of the promised limiter.
ImplementsTokenBuckets == Promise!Spec
=============================================================================
