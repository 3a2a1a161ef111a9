---------------------------- MODULE LimiterProofs ----------------------------
(***************************************************************************)
(* The limiter's grants are bounded, it remembers the IPs seen last, and   *)
(* nobody can tell that it refills lazily, for every rate, capacity,       *)
(* max_ips and number of IPs.                                              *)
(***************************************************************************)
EXTENDS Limiter, ServerMemoryProofs

\* What the observer's grants and the bucket's remaining tokens add up to: a
\* burst and the refill, up to the time of the bucket's last refill.  An IP
\* that was not served since the window opened has been granted nothing.
Accounted ==
    IF window.ip \in Keys(buckets) /\ Get(buckets, window.ip).last >= window.from
    THEN window.granted * Grain + Get(buckets, window.ip).tokens
            <= Full + Accrued(window.from, Get(buckets, window.ip).last)
    ELSE window.granted = 0

IInv ==
    /\ TypeOK
    /\ \A ip \in Keys(buckets) : Get(buckets, ip).last <= clock
    /\ Size(buckets) <= MaxIps
    /\ window.from <= clock
    /\ window.kept => Accounted

\* One grant more is one token more.
LEMMA GrantIsAToken ==
    ASSUME NEW n \in Nat
    PROVE  n * Grain \in Nat /\ (n + 1) * Grain = n * Grain + Grain
BY FullIsNat

\* Nothing granted is nothing owed.
LEMMA NothingGranted == 0 * Grain = 0
BY FullIsNat

\* The initial states.
LEMMA InitInv == Init => IInv
<1> SUFFICES ASSUME Init PROVE IInv
  OBVIOUS
<1>1. IsDict(buckets, Ips, [tokens : 0 .. Full, last : 0 .. MaxClock])
      /\ Keys(buckets) = {} /\ Size(buckets) = 0
  BY EmptyIsDict DEF Init
<1>2. TypeOK
  <2>1. clock = 0 /\ 0 \in Nat /\ 0 \in 0 .. MaxClock
    BY LimiterAssumption DEF Init
  <2>2. verdict \in [ip : Ips, allowed : BOOLEAN] /\ verdict.ip \in Ips
    <3>1. verdict \in [ip : Ips, allowed : {TRUE}]
      BY DEF Init
    <3> QED
      BY <3>1
  <2>3. window \in [ip : Ips, from : 0 .. MaxClock, granted : Nat, kept : BOOLEAN]
    <3>1. window = [ip |-> verdict.ip, from |-> 0, granted |-> 0, kept |-> TRUE]
      BY DEF Init, Window
    <3> QED
      BY <2>1, <2>2, <3>1
  <2> QED
    BY <1>1, <2>1, <2>2, <2>3 DEF TypeOK
<1>3. window.from = 0 /\ clock = 0 /\ Accounted
  BY <1>1 DEF Init, Window, Accounted
<1> QED
  BY <1>1, <1>2, <1>3, RateLimiterAssumption DEF IInv

\* A request.
LEMMA AllowInv ==
    ASSUME NEW ip \in Ips, IInv, Allow(ip)
    PROVE  IInv'
<1> DEFINE after == AfterAllow(buckets, ip, clock)
           entry == Entry(buckets, ip, clock)
           w == window.ip
<1>1. /\ clock \in 0 .. MaxClock /\ MaxClock \in Nat /\ clock \in Nat
      /\ IsDict(buckets, Ips, BucketUntil(MaxClock))
      /\ \A k \in Keys(buckets) : Get(buckets, k).last <= clock
      /\ window \in [ip : Ips, from : 0 .. MaxClock, granted : Nat, kept : BOOLEAN]
      /\ w \in Ips /\ window.from \in Nat /\ window.granted \in Nat
      /\ window.from <= clock
  BY LimiterAssumption DEF IInv, TypeOK, BucketUntil
<1>2. buckets' = after /\ clock' = clock
  BY DEF Allow
<1>3. /\ IsDict(after, Ips, BucketUntil(MaxClock))
      /\ \A k \in Keys(after) : Get(after, k).last <= clock
      /\ Size(after) <= MaxIps
  BY <1>1, AfterAllowIsDict DEF IInv
<1>4. /\ ip \in Keys(after)
      /\ Allowed(buckets, ip, clock) <=> entry.tokens >= Grain
      /\ Get(after, ip) = IF Allowed(buckets, ip, clock)
                          THEN [entry EXCEPT !.tokens = @ - Grain]
                          ELSE entry
      /\ \A k \in Keys(after) \ {ip} : k \in Keys(buckets) /\ Get(after, k) = Get(buckets, k)
  BY AfterAllowValues
<1>5. entry \in [tokens : 0 .. Full, last : {clock}]
  BY <1>1, EntryTyped
<1>6. /\ verdict' \in [ip : Ips, allowed : BOOLEAN]
      /\ window' \in [ip : Ips, from : 0 .. MaxClock, granted : Nat, kept : BOOLEAN]
      /\ window'.from = window.from /\ window'.ip = w
  <2>1. verdict' \in [ip : Ips, allowed : BOOLEAN]
    BY DEF Allow, Allowed
  <2>2. window' \in {window, Granted(window), Closed(window)}
    BY DEF Allow
  <2>3. CASE window' = Granted(window)
    BY <2>1, <2>3, <1>1 DEF Granted
  <2>4. CASE window' = Closed(window)
    BY <2>1, <2>4, <1>1 DEF Closed
  <2>5. CASE window' = window
    BY <2>1, <2>5, <1>1
  <2> QED
    BY <2>2, <2>3, <2>4, <2>5
<1>7. ASSUME window'.kept
      PROVE  Accounted'
  <2>1. /\ window.kept
        /\ w \notin Keys(buckets) \ Keys(after)
        /\ window' = IF w = ip /\ Allowed(buckets, ip, clock) THEN Granted(window) ELSE window
    <3>1. window' = CASE w \in Keys(buckets) \ Keys(after)                  -> Closed(window)
                      [] window.kept /\ w = ip /\ Allowed(buckets, ip, clock) -> Granted(window)
                      [] OTHER                                              -> window
      BY <1>2 DEF Allow
    <3> HIDE DEF after
    <3>2. w \notin Keys(buckets) \ Keys(after)
      <4>1. ASSUME w \in Keys(buckets) \ Keys(after),
                   ~(window.kept /\ w = ip /\ Allowed(buckets, ip, clock))
            PROVE  FALSE
        <5>1. window' = Closed(window)
          BY <4>1, <3>1, Zenon
        <5> QED
          BY <5>1, <1>7, <1>1 DEF Closed
      <4>2. ASSUME w \in Keys(buckets) \ Keys(after), w = ip
            PROVE  FALSE
        BY <4>2, <1>4
      <4> QED
        BY <4>1, <4>2
    <3>3. CASE window.kept /\ w = ip /\ Allowed(buckets, ip, clock)
      <4>1. window' = Granted(window)
        BY <3>1, <3>2, <3>3, Zenon
      <4> QED
        BY <4>1, <3>2, <3>3
    <3>4. CASE ~(window.kept /\ w = ip /\ Allowed(buckets, ip, clock))
      <4>1. window' = window
        BY <3>1, <3>2, <3>4, Zenon
      <4> QED
        BY <4>1, <3>2, <3>4, <1>7
    <3> QED
      BY <3>3, <3>4
  <2>2. Accounted
    BY <2>1 DEF IInv
  <2>3. CASE w # ip
    <3>1. /\ window' = window
          /\ (w \in Keys(after)) = (w \in Keys(buckets))
          /\ w \in Keys(after) => Get(after, w) = Get(buckets, w)
      BY <2>1, <2>3, <1>4
    <3> QED
      BY <3>1, <2>2, <1>2 DEF Accounted
  <2>4. CASE w = ip
    <3>1. window.granted * Grain + entry.tokens <= Full + Accrued(window.from, clock)
      <4>1. CASE w \in Keys(buckets) /\ Get(buckets, w).last >= window.from
        <5> DEFINE b == Get(buckets, w)
        <5>1. b \in BucketUntil(clock) /\ b.tokens \in Nat /\ b.last \in Nat
          <6>1. b \in BucketUntil(MaxClock) /\ b.last <= clock
            BY <4>1, <1>1 DEF IsDict, Get
          <6> QED
            BY <6>1, <1>1, FullIsNat DEF BucketUntil
        <5>2. window.granted * Grain + b.tokens <= Full + Accrued(window.from, b.last)
          BY <4>1, <2>2 DEF Accounted
        <5>3. entry.tokens <= b.tokens + Accrued(b.last, clock)
          BY <2>4, <4>1, <5>1, <1>1, EntryAccrues
        <5>4. /\ Accrued(window.from, b.last) \in Nat
              /\ Accrued(b.last, clock) \in Nat
              /\ Accrued(window.from, b.last) + Accrued(b.last, clock)
                    = Accrued(window.from, clock)
          BY <4>1, <5>1, <1>1, AccruedAdds DEF BucketUntil
        <5>5. entry.tokens \in Nat /\ Full \in Nat /\ window.granted * Grain \in Nat
          BY <1>1, <1>5, FullIsNat, GrantIsAToken
        <5> HIDE DEF b, entry
        <5> QED
          BY <5>1, <5>2, <5>3, <5>4, <5>5
      <4>2. CASE ~(w \in Keys(buckets) /\ Get(buckets, w).last >= window.from)
        <5>1. window.granted * Grain = 0
          BY <4>2, <2>2, NothingGranted DEF Accounted
        <5>2. Accrued(window.from, clock) \in Nat
          BY <1>1, AccruedAdds
        <5>3. entry.tokens \in 0 .. Full /\ Full \in Nat
          BY <1>5, FullIsNat
        <5> HIDE DEF entry
        <5> QED
          BY <5>1, <5>2, <5>3
      <4> QED
        BY <4>1, <4>2
    <3>2. Get(after, ip).last = clock
      BY <1>4, <1>5
    <3>3. window'.granted * Grain + Get(after, ip).tokens
             = window.granted * Grain + entry.tokens
      <4>1. CASE Allowed(buckets, ip, clock)
        <5>1. window'.granted = window.granted + 1
          BY <4>1, <2>1, <2>4, <1>1 DEF Granted
        <5>2. Get(after, ip).tokens = entry.tokens - Grain
          BY <4>1, <1>4, <1>5
        <5>3. entry.tokens \in Nat
          BY <1>5, FullIsNat
        <5> HIDE DEF entry, after
        <5> QED
          BY <5>1, <5>2, <5>3, <1>1, GrantIsAToken, FullIsNat
      <4>2. CASE ~Allowed(buckets, ip, clock)
        BY <4>2, <2>1, <2>4, <1>4
      <4> QED
        BY <4>1, <4>2
    <3> HIDE DEF after, entry
    <3> QED
      BY <3>1, <3>2, <3>3, <2>4, <1>1, <1>2, <1>4, <1>6 DEF Accounted
  <2> QED
    BY <2>3, <2>4
<1> HIDE DEF after
<1> QED
  BY <1>1, <1>2, <1>3, <1>6, <1>7 DEF IInv, TypeOK, BucketUntil

\* A second passes: the lazy buckets do not notice.
LEMMA TickInv == ASSUME IInv, Tick PROVE IInv'
<1>1. clock' = clock + 1 /\ clock \in Nat /\ clock' \in 0 .. MaxClock
  BY LimiterAssumption DEF IInv, TypeOK, Tick
<1>2. UNCHANGED <<buckets, verdict, window>>
  BY DEF Tick
<1>3. TypeOK'
  BY <1>1, <1>2 DEF IInv, TypeOK
<1>4. \A ip \in Keys(buckets) : Get(buckets, ip).last <= clock'
  <2> TAKE ip \in Keys(buckets)
  <2>1. Get(buckets, ip).last \in 0 .. MaxClock /\ Get(buckets, ip).last <= clock
    BY DEF IInv, TypeOK, IsDict, Get
  <2> QED
    BY <2>1, <1>1, LimiterAssumption
<1>5. window.from <= clock'
  BY <1>1, LimiterAssumption DEF IInv, TypeOK
<1>6. Accounted' = Accounted
  BY <1>2 DEF Accounted
<1> QED
  BY <1>2, <1>3, <1>4, <1>5, <1>6 DEF IInv

\* The observer opens a window.
LEMMA ObserveInv == ASSUME IInv, Observe PROVE IInv'
<1>1. PICK ip \in Ips : window' = Window(ip, clock)
  BY DEF Observe
<1>2. UNCHANGED <<clock, buckets, verdict>>
  BY DEF Observe
<1>3. /\ window'.ip = ip /\ window'.from = clock /\ window'.granted = 0
      /\ window' \in [ip : Ips, from : 0 .. MaxClock, granted : Nat, kept : BOOLEAN]
  BY <1>1 DEF Window, IInv, TypeOK
<1>4. Accounted'
  <2>1. CASE ip \in Keys(buckets) /\ Get(buckets, ip).last >= clock
    <3>1. /\ Get(buckets, ip).tokens \in 0 .. Full
          /\ Get(buckets, ip).last = clock /\ clock \in Nat
      <4>1. /\ Get(buckets, ip) \in [tokens : 0 .. Full, last : 0 .. MaxClock]
            /\ Get(buckets, ip).last <= clock
        BY <2>1 DEF IInv, TypeOK, IsDict, Get
      <4> QED
        BY <2>1, <4>1, LimiterAssumption DEF IInv, TypeOK
    <3>2. Accrued(clock, clock) \in Nat
      BY <3>1, AccruedAdds
    <3> QED
      BY <3>1, <3>2, <1>2, <1>3, NothingGranted, FullIsNat DEF Accounted
  <2>2. CASE ~(ip \in Keys(buckets) /\ Get(buckets, ip).last >= clock)
    BY <2>2, <1>2, <1>3 DEF Accounted
  <2> QED
    BY <2>1, <2>2
<1>5. clock <= clock
  BY LimiterAssumption DEF IInv, TypeOK
<1> QED
  BY <1>2, <1>3, <1>4, <1>5 DEF IInv, TypeOK

\* The buckets stay well-formed and accounted for.
THEOREM LimiterInvariant == Spec => []IInv
<1>1. Init => IInv
  BY InitInv
<1>2. IInv /\ [Next]_vars => IInv'
  <2> SUFFICES ASSUME IInv, [Next]_vars PROVE IInv'
    OBVIOUS
  <2>1. CASE \E ip \in Ips : Allow(ip)
    BY <2>1, AllowInv
  <2>2. CASE Tick
    BY <2>2, TickInv
  <2>3. CASE Observe
    BY <2>3, ObserveInv
  <2>4. CASE UNCHANGED vars
    BY <2>4 DEF vars, IInv, TypeOK, Accounted
  <2> QED
    BY <2>1, <2>2, <2>3, <2>4 DEF Next
<1> QED
  BY <1>1, <1>2, PTL DEF Spec

\* The type invariant, which holds at all times.
THEOREM LimiterTypeOK == Spec => []TypeOK
<1>1. IInv => TypeOK
  BY DEF IInv
<1> QED
  BY <1>1, LimiterInvariant, PTL

\* In every window of time, whatever the rate, the burst, the number of IPs
\* and the spacing of the requests, an IP whose bucket was not evicted is
\* granted at most a burst and the refill of the window.
THEOREM GrantedBoundHolds == Spec => []GrantedBound
<1>1. IInv => GrantedBound
  <2> SUFFICES ASSUME IInv, window.kept
               PROVE  window.granted * Grain <= Full + Rate * (clock - window.from)
    BY DEF GrantedBound
  <2>1. /\ clock \in Nat /\ window.from \in Nat /\ window.from <= clock
        /\ window.granted \in Nat /\ Full \in Nat
    BY LimiterAssumption, FullIsNat DEF IInv, TypeOK
  <2>2. Accrued(window.from, clock) \in Nat
    <3>1. clock <= clock
      BY <2>1
    <3> QED
      BY <2>1, <3>1, AccruedAdds
  <2>3. CASE window.ip \in Keys(buckets) /\ Get(buckets, window.ip).last >= window.from
    <3> DEFINE b == Get(buckets, window.ip)
    <3>1. b.tokens \in Nat /\ b.last \in Nat /\ b.last <= clock
      <4>1. b \in [tokens : 0 .. Full, last : 0 .. MaxClock] /\ b.last <= clock
        BY <2>3 DEF IInv, TypeOK, IsDict, Get
      <4> QED
        BY <4>1, LimiterAssumption, FullIsNat
    <3>2. window.granted * Grain + b.tokens <= Full + Accrued(window.from, b.last)
      BY <2>3 DEF IInv, Accounted
    <3>3. /\ Accrued(window.from, b.last) \in Nat
          /\ Accrued(b.last, clock) \in Nat
          /\ Accrued(window.from, b.last) + Accrued(b.last, clock)
                = Accrued(window.from, clock)
      BY <2>1, <2>3, <3>1, AccruedAdds
    <3>4. window.granted * Grain \in Nat
      BY <2>1, GrantIsAToken
    <3> HIDE DEF b
    <3>5. window.granted * Grain <= Full + Accrued(window.from, clock)
      BY <2>1, <3>1, <3>2, <3>3, <3>4
    <3> QED
      BY <3>5 DEF Accrued
  <2>4. CASE ~(window.ip \in Keys(buckets) /\ Get(buckets, window.ip).last >= window.from)
    <3>1. window.granted * Grain = 0
      BY <2>4, NothingGranted DEF IInv, Accounted
    <3> QED
      BY <3>1, <2>1, <2>2 DEF Accrued
  <2> QED
    BY <2>3, <2>4
<1> QED
  BY <1>1, LimiterInvariant, PTL

-----------------------------------------------------------------------------
\* What a request does to the order of the IPs.
LEMMA AllowOrders ==
    ASSUME NEW ip \in Ips, IInv, Allow(ip)
    PROVE  MostRecent(buckets', buckets, ip, MaxIps)
<1>1. /\ clock \in 0 .. MaxClock /\ MaxClock \in Nat
      /\ IsDict(buckets, Ips, BucketUntil(MaxClock))
      /\ \A k \in Keys(buckets) : Get(buckets, k).last <= clock
      /\ Size(buckets) <= MaxIps
  BY LimiterAssumption DEF IInv, TypeOK, BucketUntil
<1>2. buckets' = AfterAllow(buckets, ip, clock)
  BY DEF Allow
<1> QED
  BY <1>1, <1>2, AfterAllowRecency

\* The IPs tracked are at most max_ips, and the IP served last, granted or
\* refused, is the last that would be evicted.
THEOREM TracksMostRecentHolds == Spec => []TracksMostRecent
<1>1. Init => TracksMostRecent
  <2>1. Size(EmptyDict) = 0
    BY EmptyIsDict
  <2> QED
    BY <2>1, RateLimiterAssumption DEF Init, TracksMostRecent
<1>2. IInv /\ IInv' /\ TracksMostRecent /\ [Next]_vars => TracksMostRecent'
  <2> SUFFICES ASSUME IInv, IInv', TracksMostRecent, [Next]_vars
               PROVE  TracksMostRecent'
    OBVIOUS
  <2>1. Size(buckets') <= MaxIps
    BY DEF IInv
  <2>2. ASSUME NEW ip \in Ips, Allow(ip)
        PROVE  buckets'[verdict'.ip].at = Size(buckets')
    <3>1. verdict'.ip = ip /\ ip \in Keys(buckets') /\ Behind(buckets', ip) = {}
      BY <2>2, AllowOrders DEF Allow, MostRecent
    <3>2. IsDict(buckets', Ips, BucketUntil(MaxClock))
      BY DEF IInv, TypeOK, BucketUntil
    <3>3. Cardinality(Behind(buckets', ip)) = Size(buckets') - buckets'[ip].at
      BY <3>1, <3>2, BehindSize
    <3>4. Size(buckets') \in Nat /\ buckets'[ip].at \in 1 .. Size(buckets')
      BY <3>1, <3>2, SizeIsNat DEF IsDict
    <3> QED
      BY <3>1, <3>3, <3>4, FS_EmptySet
  <2>3. CASE \E ip \in Ips : Allow(ip)
    BY <2>1, <2>2, <2>3 DEF TracksMostRecent
  <2>4. CASE UNCHANGED <<buckets, verdict>>
    BY <2>4 DEF TracksMostRecent
  <2> QED
    BY <2>3, <2>4 DEF Next, Tick, Observe, vars
<1> QED
  BY <1>1, <1>2, LimiterInvariant, PTL DEF Spec

-----------------------------------------------------------------------------
\* The promised limiter's view of the state: each IP's level, and the IPs seen
\* since each remembered one was.
Levels == [ip \in Ips |-> LevelOf(ip)]

Newer == [ip \in Keys(buckets) |-> SeenSince(ip)]

\* No bucket is overfull or refilled in the future.
BucketsInTime == \A ip \in Keys(buckets) : Get(buckets, ip) \in BucketUntil(clock)

LEMMA BucketsAreInTime == IInv => BucketsInTime
<1> SUFFICES ASSUME IInv, NEW ip \in Keys(buckets)
             PROVE  Get(buckets, ip) \in BucketUntil(clock)
  BY DEF BucketsInTime
<1>1. /\ Get(buckets, ip) \in [tokens : 0 .. Full, last : 0 .. MaxClock]
      /\ Get(buckets, ip).last <= clock
  BY DEF IInv, TypeOK, IsDict, Get
<1> QED
  BY <1>1, LimiterAssumption DEF IInv, TypeOK, BucketUntil

\* A second passes for every bucket of the promised limiter.
LEMMA TickIsSecond == ASSUME IInv, Tick PROVE Promise!Second
<1>1. clock' = clock + 1 /\ clock \in Nat /\ UNCHANGED <<buckets, verdict>>
  BY LimiterAssumption DEF IInv, TypeOK, Tick
<1>2. Newer' = Newer
  BY <1>1 DEF Newer, SeenSince
<1>3. ASSUME NEW ip \in Ips
      PROVE  LevelOf(ip)' = IF LevelOf(ip) + Rate <= Full THEN LevelOf(ip) + Rate ELSE Full
  <2>1. CASE ip \in Keys(buckets)
    <3> DEFINE b == Get(buckets, ip)
    <3>1. LevelOf(ip) = Refilled(b, clock).tokens /\ LevelOf(ip)' = Refilled(b, clock + 1).tokens
      BY <2>1, <1>1 DEF LevelOf
    <3>2. b \in BucketUntil(clock)
      BY <2>1, BucketsAreInTime DEF BucketsInTime
    <3> HIDE DEF b
    <3> QED
      BY <3>1, <3>2, <1>1, RefillBySeconds
  <2>2. CASE ip \notin Keys(buckets)
    <3>1. LevelOf(ip) = Full /\ LevelOf(ip)' = Full
      BY <2>2, <1>1 DEF LevelOf
    <3> QED
      BY <3>1, FullIsNat
  <2> QED
    BY <2>1, <2>2
<1>4. Levels' = [ip \in Ips |-> IF Levels[ip] + Rate <= Full THEN Levels[ip] + Rate ELSE Full]
  BY <1>3 DEF Levels
<1> QED
  BY <1>1, <1>2, <1>4 DEF Promise!Second, Promise!Full, Levels, Newer, Full

\* A request gets the promised limiter's answer, and leaves its levels and its
\* memory of the IPs.
LEMMA AllowIsRequest ==
    ASSUME NEW ip \in Ips, IInv, Allow(ip)
    PROVE  Promise!Request(ip)
<1> DEFINE allowed == Allowed(buckets, ip, clock)
           entry == Entry(buckets, ip, clock)
           remembered ==
               {ip} \cup {j \in Keys(buckets) : Cardinality(Behind(buckets, j) \cup {ip}) < MaxIps}
<1>1. /\ clock \in Nat /\ clock' = clock /\ buckets' = AfterAllow(buckets, ip, clock)
      /\ verdict' = [ip |-> ip, allowed |-> allowed]
  BY LimiterAssumption DEF Allow, IInv, TypeOK
<1>2. /\ Keys(buckets') = remembered
      /\ Behind(buckets', ip) = {}
      /\ \A k \in Keys(buckets') \ {ip} : Behind(buckets', k) = Behind(buckets, k) \cup {ip}
  BY AllowOrders DEF MostRecent
<1>3. /\ allowed <=> entry.tokens >= Grain
      /\ Get(buckets', ip) = IF allowed THEN [entry EXCEPT !.tokens = @ - Grain] ELSE entry
      /\ \A k \in Keys(buckets') \ {ip} :
            k \in Keys(buckets) /\ Get(buckets', k) = Get(buckets, k)
  BY <1>1, AfterAllowValues
<1>4. entry.tokens = LevelOf(ip)
  BY DEF Entry, LevelOf, FullBucket
<1>5. entry \in [tokens : 0 .. Full, last : {clock}]
  <2>1. /\ clock \in 0 .. MaxClock /\ MaxClock \in Nat
        /\ IsDict(buckets, Ips, BucketUntil(MaxClock))
        /\ \A k \in Keys(buckets) : Get(buckets, k).last <= clock
    BY LimiterAssumption DEF IInv, TypeOK, BucketUntil
  <2> QED
    BY <2>1, EntryTyped
<1>6. BucketsInTime'
  <2>1. IInv'
    BY AllowInv
  <2> QED
    BY <2>1, BucketsAreInTime, PTL
<1> HIDE DEF allowed, entry
<1>7. LevelOf(ip)' = IF allowed THEN LevelOf(ip) - Grain ELSE LevelOf(ip)
  <2> DEFINE b == Get(buckets', ip)
  <2>1. ip \in Keys(buckets') /\ LevelOf(ip)' = Refilled(b, clock).tokens
    BY <1>1, <1>2 DEF LevelOf
  <2>2. b \in BucketUntil(clock)
    BY <1>1, <1>6, <2>1 DEF BucketsInTime
  <2>3. b.last = clock /\ b.tokens = IF allowed THEN entry.tokens - Grain ELSE entry.tokens
    BY <1>3, <1>5
  <2> HIDE DEF b
  <2>4. Refilled(b, clock).tokens = b.tokens
    BY <1>1, <2>2, <2>3, RefillBySeconds
  <2> QED
    BY <2>1, <2>3, <2>4, <1>4
<1>8. ASSUME NEW j \in Ips, j # ip
      PROVE  LevelOf(j)' = IF j \in remembered THEN LevelOf(j) ELSE Full
  BY <1>1, <1>2, <1>3, <1>8 DEF LevelOf
<1>9. DOMAIN Newer = Keys(buckets) /\ \A j \in Keys(buckets) : Newer[j] = Behind(buckets, j)
  BY DEF Newer, SeenSince, Behind
<1>10. Promise!Remembered(ip) = remembered
  <2>1. \A j \in Keys(buckets) :
            Cardinality(Newer[j] \cup {ip}) = Cardinality(Behind(buckets, j) \cup {ip})
    BY <1>9
  <2>2. {j \in DOMAIN Newer : Cardinality(Newer[j] \cup {ip}) < MaxIps}
          = {j \in Keys(buckets) : Cardinality(Behind(buckets, j) \cup {ip}) < MaxIps}
    BY <1>9, <2>1
  <2>3. Promise!Remembered(ip)
          = {ip} \cup {j \in DOMAIN Newer : Cardinality(Newer[j] \cup {ip}) < MaxIps}
    <3>1. \A S : Promise!Cardinality(S) = Cardinality(S)
      BY Zenon DEF Promise!Cardinality, Cardinality
    <3> QED
      BY <3>1 DEF Promise!Remembered, Newer
  <2> QED
    BY <2>2, <2>3
<1> HIDE DEF remembered
<1>11. Newer' = [j \in remembered |-> IF j = ip THEN {} ELSE Newer[j] \cup {ip}]
  <2>1. Newer' = [j \in remembered |-> Behind(buckets', j)]
    BY <1>2 DEF Newer, SeenSince, Behind
  <2>2. \A j \in remembered :
            Behind(buckets', j) = IF j = ip THEN {} ELSE Newer[j] \cup {ip}
    BY <1>2, <1>3, <1>9
  <2> QED
    BY <2>1, <2>2
<1>12. Levels' = [j \in Ips |->
                    CASE j = ip                     -> IF allowed THEN Levels[j] - Grain ELSE Levels[j]
                      [] j \in remembered \ {ip}    -> Levels[j]
                      [] OTHER                      -> Full]
  BY <1>7, <1>8 DEF Levels
<1>13. ip \in Ips /\ (allowed <=> Levels[ip] >= Grain) /\ allowed \in BOOLEAN
  BY <1>3, <1>4 DEF Levels, allowed, Allowed
<1> QED
  BY <1>1, <1>10, <1>11, <1>12, <1>13 DEF Promise!Request, Promise!Full, Levels, Newer, Full

\* Lazy refills and an OrderedDict are all it takes: every answer allow gives is
\* the one of a limiter that refills each bucket each second and remembers the
\* last max_ips IPs, whatever the requests, the pauses and the rates.
THEOREM LimiterImplementsTokenBuckets == Spec => ImplementsTokenBuckets
<1>1. Init => Promise!Init
  <2> SUFFICES ASSUME Init PROVE Promise!Init
    OBVIOUS
  <2>1. Keys(buckets) = {}
    BY EmptyIsDict DEF Init
  <2>2. \A ip \in Ips : LevelOf(ip) = Full
    BY <2>1 DEF LevelOf
  <2>3. Newer = [ip \in {} |-> {}]
    BY <2>1 DEF Newer
  <2> QED
    BY <2>2, <2>3 DEF Init, Promise!Init, Promise!Full, Newer, Full
<1>2. IInv /\ [Next]_vars => [Promise!Next]_(Promise!vars)
  <2> SUFFICES ASSUME IInv, [Next]_vars PROVE [Promise!Next]_(Promise!vars)
    OBVIOUS
  <2>1. CASE \E ip \in Ips : Allow(ip)
    BY <2>1, AllowIsRequest DEF Promise!Next
  <2>2. CASE Tick
    BY <2>2, TickIsSecond DEF Promise!Next
  <2>3. CASE UNCHANGED <<clock, buckets, verdict>>
    BY <2>3 DEF Promise!vars, LevelOf, SeenSince
  <2> QED
    BY <2>1, <2>2, <2>3 DEF Next, Observe, vars
<1> QED
  BY <1>1, <1>2, LimiterInvariant, PTL DEF Spec, ImplementsTokenBuckets, Promise!Spec
=============================================================================
