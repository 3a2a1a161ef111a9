---------------------------- MODULE TokenBuckets ----------------------------
(***************************************************************************)
(* What the rate limiter promises, as the docstring of RateLimiter in      *)
(* sslpv.services.server puts it: "Each IP starts with a full bucket.      *)
(* Tokens refill at rate per second up to capacity.  When no tokens        *)
(* remain, allow returns False", with the oldest tracked IP evicted when   *)
(* more than max_ips are tracked.                                          *)
(*                                                                         *)
(* Here every IP has a bucket at all times and every bucket is refilled as *)
(* each second passes.  The last MaxIps IPs seen keep their level; who     *)
(* they are is told by newer, the IPs seen since each of them was.         *)
(***************************************************************************)
EXTENDS Integers, FiniteSets

CONSTANTS Ips, Grain, Rate, Capacity, MaxIps

VARIABLES
    level,              \* grains in each IP's bucket
    newer,              \* remembered IP -> the IPs seen since
    verdict             \* the last answer: [ip, allowed], or the initial one

vars == <<level, newer, verdict>>

Full == Capacity * Grain

Init ==
    /\ level = [ip \in Ips |-> Full]
    /\ newer = [ip \in {} |-> {}]
    /\ verdict \in [ip : Ips, allowed : {TRUE}]

\* One second's refill.
Second ==
    /\ level' = [ip \in Ips |-> IF level[ip] + Rate <= Full THEN level[ip] + Rate ELSE Full]
    /\ UNCHANGED <<newer, verdict>>

\* The IPs still remembered once ip is seen.
Remembered(ip) ==
    {ip} \cup {j \in DOMAIN newer : Cardinality(newer[j] \cup {ip}) < MaxIps}

Request(ip) ==
    LET allowed == level[ip] >= Grain
    IN  /\ verdict' = [ip |-> ip, allowed |-> allowed]
        /\ newer' = [j \in Remembered(ip) |-> IF j = ip THEN {} ELSE newer[j] \cup {ip}]
        /\ level' = [j \in Ips |->
                        CASE j = ip              -> IF allowed THEN level[j] - Grain ELSE level[j]
                          [] j \in Remembered(ip) \ {ip} -> level[j]
                          [] OTHER               -> Full]

Next == Second \/ \E ip \in Ips : Request(ip)

Spec == Init /\ [][Next]_vars
=============================================================================
