-------------------------- MODULE ServerMemoryProofs --------------------------
(***************************************************************************)
(* What the methods of the two tables the server keeps in memory do to     *)
(* them: RateLimiter.allow to the buckets, for every rate, capacity and    *)
(* max_ips, and SpentNonceSet's add, contains and purge to the records,    *)
(* for every max_size.                                                     *)
(***************************************************************************)
EXTENDS RateLimiter, SpentNonceSet, OrderedDictProofs

-----------------------------------------------------------------------------
(* RateLimiter *)

\* The buckets of a limiter whose clock has not passed end.
BucketUntil(end) == [tokens : 0 .. Full, last : 0 .. end]

\* The bucket of the IP being served, before it is charged.
Entry(buckets, ip, now) ==
    IF ip \in Keys(buckets) THEN Refilled(Get(buckets, ip), now) ELSE FullBucket(now)

\* The grains a bucket gains between two times, if it is never full.
Accrued(from, to) == Rate * (to - from)

\* A burst is a number of grains.
LEMMA FullIsNat == Full \in Nat /\ Grain \in Nat \ {0} /\ Rate \in Nat
BY RateLimiterAssumption DEF Full

\* A refill takes time that has passed and adds no negative amount.
LEMMA RefillIsNat ==
    ASSUME NEW now \in Nat, NEW last \in Nat, last <= now
    PROVE  (now - last) * Rate \in Nat
<1>1. \A m, n \in Nat : m * n \in Nat
  OBVIOUS
<1>2. now - last \in Nat
  OBVIOUS
<1> QED
  BY <1>1, <1>2, FullIsNat

\* _refill keeps the tokens between none and a full bucket.
LEMMA RefilledTyped ==
    ASSUME NEW end \in Nat, NEW now \in 0 .. end, NEW bucket \in BucketUntil(end),
           bucket.last <= now
    PROVE  Refilled(bucket, now) \in [tokens : 0 .. Full, last : {now}]
<1>1. bucket.tokens \in 0 .. Full /\ bucket.last \in Nat /\ now \in Nat
  BY DEF BucketUntil
<1>2. (now - bucket.last) * Rate \in Nat
  BY <1>1, RefillIsNat
<1> QED
  BY <1>1, <1>2, FullIsNat DEF Refilled

\* So does the creation of a bucket.
LEMMA EntryTyped ==
    ASSUME NEW K, NEW end \in Nat, NEW now \in 0 .. end, NEW ip, NEW buckets,
           IsDict(buckets, K, BucketUntil(end)),
           \A k \in Keys(buckets) : Get(buckets, k).last <= now
    PROVE  Entry(buckets, ip, now) \in [tokens : 0 .. Full, last : {now}]
<1>1. CASE ip \in Keys(buckets)
  <2>1. Get(buckets, ip) \in BucketUntil(end) /\ Get(buckets, ip).last <= now
    BY <1>1 DEF IsDict, Get
  <2> QED
    BY <1>1, <2>1, RefilledTyped DEF Entry
<1>2. CASE ip \notin Keys(buckets)
  BY <1>2, FullIsNat DEF Entry, FullBucket
<1> QED
  BY <1>1, <1>2

\* Refills add up.
LEMMA AccruedAdds ==
    ASSUME NEW a \in Nat, NEW b \in Nat, NEW c \in Nat, a <= b, b <= c
    PROVE  /\ Accrued(a, b) \in Nat
           /\ Accrued(b, c) \in Nat
           /\ Accrued(a, b) + Accrued(b, c) = Accrued(a, c)
<1>1. \A r, m, n \in Nat : r * m \in Nat /\ r * m + r * n = r * (m + n)
  OBVIOUS
<1>2. b - a \in Nat /\ c - b \in Nat /\ (b - a) + (c - b) = c - a
  OBVIOUS
<1> QED
  BY <1>1, <1>2, FullIsNat DEF Accrued

\* A bucket's entry at time now holds no more than it held and has accrued.
LEMMA EntryAccrues ==
    ASSUME NEW buckets, NEW ip \in Keys(buckets), NEW now \in Nat,
           Get(buckets, ip) \in BucketUntil(now)
    PROVE  Entry(buckets, ip, now).tokens
              <= Get(buckets, ip).tokens + Accrued(Get(buckets, ip).last, now)
<1> DEFINE b == Get(buckets, ip)
<1>1. b.tokens \in Nat /\ b.last \in Nat /\ b.last <= now
  BY FullIsNat DEF BucketUntil
<1>2. (now - b.last) * Rate = Accrued(b.last, now) /\ Accrued(b.last, now) \in Nat
  <2>1. \A m, n \in Nat : m * n = n * m
    OBVIOUS
  <2> QED
    BY <2>1, <1>1, AccruedAdds, FullIsNat DEF Accrued
<1>3. Entry(buckets, ip, now) = Refilled(b, now)
  BY DEF Entry
<1> HIDE DEF b
<1>4. Refilled(b, now).tokens <= b.tokens + Accrued(b.last, now)
  BY <1>1, <1>2, FullIsNat DEF Refilled
<1> QED
  BY <1>3, <1>4 DEF b

\* Refilling once for all the time that has passed is refilling every second;
\* no time passed, nothing is added.
LEMMA RefillBySeconds ==
    ASSUME NEW now \in Nat, NEW bucket \in BucketUntil(now)
    PROVE  /\ Refilled(bucket, bucket.last).tokens = bucket.tokens
           /\ Refilled(bucket, now + 1).tokens =
                 IF Refilled(bucket, now).tokens + Rate <= Full
                 THEN Refilled(bucket, now).tokens + Rate
                 ELSE Full
<1> DEFINE passed == now - bucket.last
<1>1. /\ bucket.tokens \in Nat /\ bucket.tokens <= Full
      /\ bucket.last \in Nat /\ bucket.last <= now
  BY FullIsNat DEF BucketUntil
<1>2. passed * Rate \in Nat
  BY <1>1, RefillIsNat
<1>3. (now + 1 - bucket.last) * Rate = passed * Rate + Rate
  <2>1. \A m, r \in Nat : (m + 1) * r = m * r + r
    OBVIOUS
  <2>2. passed \in Nat /\ now + 1 - bucket.last = passed + 1
    BY <1>1
  <2> HIDE DEF passed
  <2> QED
    BY <2>1, <2>2, FullIsNat
<1>4. (bucket.last - bucket.last) * Rate = 0
  BY <1>1, FullIsNat
<1>5. \A at : Refilled(bucket, at).tokens =
          IF bucket.tokens + (at - bucket.last) * Rate <= Full
          THEN bucket.tokens + (at - bucket.last) * Rate ELSE Full
  BY DEF Refilled
<1>6. Refilled(bucket, bucket.last).tokens = bucket.tokens
  BY <1>1, <1>4, <1>5, FullIsNat
<1>7. Refilled(bucket, now).tokens =
          IF bucket.tokens + passed * Rate <= Full
          THEN bucket.tokens + passed * Rate ELSE Full
  BY <1>5
<1>8. Refilled(bucket, now + 1).tokens =
          IF bucket.tokens + (passed * Rate + Rate) <= Full
          THEN bucket.tokens + (passed * Rate + Rate) ELSE Full
  <2>1. Refilled(bucket, now + 1).tokens =
            IF bucket.tokens + (now + 1 - bucket.last) * Rate <= Full
            THEN bucket.tokens + (now + 1 - bucket.last) * Rate ELSE Full
    BY <1>1 DEF Refilled
  <2> HIDE DEF passed
  <2> QED
    BY <1>3, <2>1, Zenon
<1> HIDE DEF passed
<1> QED
  BY <1>1, <1>2, <1>6, <1>7, <1>8, FullIsNat

\* What allow leaves: the served IP has its entry, charged when it is granted,
\* and every other bucket that is kept is as it was.
LEMMA AfterAllowValues ==
    ASSUME NEW buckets, NEW ip, NEW now
    PROVE  LET after == AfterAllow(buckets, ip, now)
               entry == Entry(buckets, ip, now)
           IN  /\ ip \in Keys(after)
               /\ Allowed(buckets, ip, now) <=> entry.tokens >= Grain
               /\ Get(after, ip) = IF Allowed(buckets, ip, now)
                                   THEN [entry EXCEPT !.tokens = @ - Grain]
                                   ELSE entry
               /\ \A k \in Keys(after) \ {ip} :
                     k \in Keys(buckets) /\ Get(after, k) = Get(buckets, k)
<1> DEFINE seen == Seen(buckets, ip, now)
           entry == Entry(buckets, ip, now)
           after == AfterAllow(buckets, ip, now)
<1>1. /\ ip \in Keys(seen)
      /\ Get(seen, ip) = entry
      /\ \A k \in Keys(seen) \ {ip} : k \in Keys(buckets) /\ Get(seen, k) = Get(buckets, k)
  <2>1. CASE ip \in Keys(buckets)
    BY <2>1, DeleteKeys, PutKeys DEF Seen, MoveToEnd, Entry
  <2>2. CASE ip \notin Keys(buckets)
    BY <2>2, DeleteKeys, PutKeys DEF Seen, PopOldest, Entry
  <2> QED
    BY <2>1, <2>2
<1>2. Allowed(buckets, ip, now) <=> entry.tokens >= Grain
  BY <1>1 DEF Allowed
<1>3. after = IF Allowed(buckets, ip, now)
              THEN Put(seen, ip, [entry EXCEPT !.tokens = @ - Grain])
              ELSE seen
  BY <1>1 DEF AfterAllow
<1> HIDE DEF seen, entry, after
<1>4. /\ ip \in Keys(after)
      /\ Get(after, ip) = IF Allowed(buckets, ip, now)
                          THEN [entry EXCEPT !.tokens = @ - Grain]
                          ELSE entry
      /\ \A k \in Keys(after) \ {ip} : k \in Keys(buckets) /\ Get(after, k) = Get(buckets, k)
  BY <1>1, <1>3, PutKeys
<1> QED
  BY <1>2, <1>4 DEF seen, entry, after

\* allow keeps the buckets a dictionary of at most max_ips well-formed buckets,
\* none of them refilled in the future.
LEMMA AfterAllowIsDict ==
    ASSUME NEW K, NEW end \in Nat, NEW now \in 0 .. end, NEW ip \in K, NEW buckets,
           IsDict(buckets, K, BucketUntil(end)),
           \A k \in Keys(buckets) : Get(buckets, k).last <= now
    PROVE  LET after == AfterAllow(buckets, ip, now)
           IN  /\ IsDict(after, K, BucketUntil(end))
               /\ \A k \in Keys(after) : Get(after, k).last <= now
               /\ Size(buckets) <= MaxIps => Size(after) <= MaxIps
<1> DEFINE V == BucketUntil(end)
           seen == Seen(buckets, ip, now)
           entry == Entry(buckets, ip, now)
           after == AfterAllow(buckets, ip, now)
<1>1. entry \in [tokens : 0 .. Full, last : {now}] /\ entry \in V
  <2>1. entry \in [tokens : 0 .. Full, last : {now}]
    BY EntryTyped
  <2> QED
    BY <2>1 DEF BucketUntil
<1>2. Size(buckets) \in Nat /\ MaxIps \in Nat \ {0}
  BY SizeIsNat, RateLimiterAssumption
<1>3. /\ IsDict(seen, K, V)
      /\ ip \in Keys(seen)
      /\ Get(seen, ip) = entry
      /\ Size(buckets) <= MaxIps => Size(seen) <= MaxIps
  <2>1. CASE ip \in Keys(buckets)
    <3>1. /\ IsDict(MoveToEnd(buckets, ip), K, V)
          /\ Keys(MoveToEnd(buckets, ip)) = Keys(buckets)
          /\ Size(MoveToEnd(buckets, ip)) = Size(buckets)
      BY <2>1, MoveToEndIsDict
    <3>2. seen = Put(MoveToEnd(buckets, ip), ip, entry)
      BY <2>1 DEF Seen, Entry
    <3> QED
      BY <2>1, <3>1, <3>2, <1>1, PutIsDict, PutKeys
  <2>2. CASE ip \notin Keys(buckets) /\ Size(buckets) >= MaxIps
    <3>1. /\ IsDict(PopOldest(buckets), K, V)
          /\ Size(PopOldest(buckets)) = Size(buckets) - 1
          /\ ip \notin Keys(PopOldest(buckets))
      BY <2>2, <1>2, SizeIsNat, PopOldestIsDict, DeleteKeys DEF PopOldest
    <3>2. seen = Put(PopOldest(buckets), ip, entry)
      BY <2>2 DEF Seen, Entry
    <3>3. IsDict(seen, K, V) /\ Size(seen) = Size(PopOldest(buckets)) + 1
      BY <3>1, <3>2, <1>1, PutIsDict
    <3> QED
      BY <3>1, <3>2, <3>3, <1>2, PutKeys
  <2>3. CASE ip \notin Keys(buckets) /\ ~(Size(buckets) >= MaxIps)
    <3>1. seen = Put(buckets, ip, entry)
      BY <2>3 DEF Seen, Entry
    <3>2. IsDict(seen, K, V) /\ Size(seen) = Size(buckets) + 1
      BY <2>3, <3>1, <1>1, PutIsDict
    <3> QED
      BY <2>3, <3>1, <3>2, <1>2, PutKeys
  <2> QED
    BY <2>1, <2>2, <2>3
<1>4. IsDict(after, K, V) /\ (Size(buckets) <= MaxIps => Size(after) <= MaxIps)
  <2>1. CASE Allowed(buckets, ip, now)
    <3> DEFINE charged == [entry EXCEPT !.tokens = @ - Grain]
    <3>1. entry.tokens >= Grain
      BY <2>1, <1>3 DEF Allowed
    <3>2. charged \in V
      BY <3>1, <1>1, FullIsNat DEF BucketUntil
    <3>3. after = Put(seen, ip, charged)
      BY <2>1, <1>3 DEF AfterAllow
    <3> HIDE DEF charged
    <3>4. IsDict(after, K, V) /\ Size(after) = Size(seen)
      BY <3>2, <3>3, <1>3, PutIsDict
    <3> QED
      BY <3>4, <1>3
  <2>2. CASE ~Allowed(buckets, ip, now)
    BY <2>2, <1>3 DEF AfterAllow
  <2> QED
    BY <2>1, <2>2
<1>5. ASSUME NEW k \in Keys(after)
      PROVE  Get(after, k).last <= now
  <2>1. CASE k = ip
    <3>1. Get(after, ip) = entry \/ Get(after, ip) = [entry EXCEPT !.tokens = @ - Grain]
      BY AfterAllowValues
    <3>2. Get(after, ip).last = now
      BY <3>1, <1>1
    <3> QED
      BY <2>1, <3>2
  <2>2. CASE k # ip
    BY <2>2, AfterAllowValues
  <2> QED
    BY <2>1, <2>2
<1> QED
  BY <1>4, <1>5

\* As long as every IP can be tracked, allow evicts none.
LEMMA AfterAllowEvictsNone ==
    ASSUME NEW K, NEW V, NEW buckets, IsDict(buckets, K, V), NEW ip \in K, NEW now,
           IsFiniteSet(K), Cardinality(K) <= MaxIps
    PROVE  Keys(AfterAllow(buckets, ip, now)) = Keys(buckets) \cup {ip}
<1> DEFINE seen == Seen(buckets, ip, now)
<1>1. Keys(seen) = Keys(buckets) \cup {ip}
  <2>1. CASE ip \in Keys(buckets)
    BY <2>1, DeleteKeys, PutKeys DEF Seen, MoveToEnd
  <2>2. CASE ip \notin Keys(buckets)
    <3>1. Keys(buckets) \cup {ip} \in SUBSET K
      BY DEF IsDict
    <3>2. Cardinality(Keys(buckets) \cup {ip}) = Size(buckets) + 1
      BY <2>2, FS_AddElement DEF IsDict, Size
    <3>3. Size(buckets) + 1 <= Cardinality(K)
      BY <3>1, <3>2, FS_Subset
    <3>4. ~(Size(buckets) >= MaxIps)
      BY <3>3, SizeIsNat, FS_CardinalityType, RateLimiterAssumption
    <3> QED
      BY <2>2, <3>4, PutKeys DEF Seen
  <2> QED
    BY <2>1, <2>2
<1> QED
  BY <1>1, PutKeys DEF AfterAllow

\* allow makes the served IP the most recent; the others keep their order, and
\* are kept as long as fewer than max_ips IPs were seen since they were.
LEMMA AfterAllowRecency ==
    ASSUME NEW K, NEW end \in Nat, NEW now \in 0 .. end, NEW ip \in K, NEW buckets,
           IsDict(buckets, K, BucketUntil(end)),
           \A k \in Keys(buckets) : Get(buckets, k).last <= now,
           Size(buckets) <= MaxIps
    PROVE  MostRecent(AfterAllow(buckets, ip, now), buckets, ip, MaxIps)
<1> DEFINE seen == Seen(buckets, ip, now)
           entry == Entry(buckets, ip, now)
           after == AfterAllow(buckets, ip, now)
<1>1. entry \in BucketUntil(end)
  <2>1. entry \in [tokens : 0 .. Full, last : {now}]
    BY EntryTyped
  <2> QED
    BY <2>1 DEF BucketUntil
<1>2. seen = Touched(buckets, ip, entry, MaxIps)
  BY DEF Seen, Touched, Entry
<1>3. MaxIps \in Nat \ {0}
  BY RateLimiterAssumption
<1> HIDE DEF entry, seen
<1>4. MostRecent(seen, buckets, ip, MaxIps)
  BY <1>1, <1>2, <1>3, TouchedRecency
<1>5. CASE Allowed(buckets, ip, now)
  <2>1. PICK v : after = Put(seen, ip, v)
    BY <1>5 DEF AfterAllow, seen
  <2> HIDE DEF after
  <2>2. ip \in Keys(seen)
    BY <1>4 DEF MostRecent
  <2>3. Keys(after) = Keys(seen)
    BY <2>1, <2>2, PutKeys
  <2>4. \A k \in Keys(seen) : Behind(after, k) = Behind(seen, k)
    BY <2>1, <2>2, PutKnownBehind
  <2>5. MostRecent(after, buckets, ip, MaxIps)
    BY <2>2, <2>3, <2>4, <1>4 DEF MostRecent
  <2> QED
    BY <2>5 DEF after
<1>6. CASE ~Allowed(buckets, ip, now)
  <2>1. after = seen
    BY <1>6 DEF AfterAllow, seen
  <2> QED
    BY <2>1, <1>4
<1> QED
  BY <1>5, <1>6

-----------------------------------------------------------------------------
(* SpentNonceSet *)

\* contains deletes at most the nonce it is asked about, and only when expired.
LEMMA AfterContainsValues ==
    ASSUME NEW store, NEW n, NEW now
    PROVE  LET after == AfterContains(store, n, now)
           IN  /\ Keys(after) \subseteq Keys(store)
               /\ \A k \in Keys(after) : Get(after, k) = Get(store, k)
               /\ \A k \in Keys(store) \ Keys(after) : k = n /\ Expired(store, n, now)
               /\ ~Contains(store, n, now) => n \notin Keys(after)
BY DeleteKeys DEF AfterContains, Contains

\* add writes the nonce's record, keeps the others as they are, and evicts
\* none but the oldest of a full set, to make room for a new one.
LEMMA AddValues ==
    ASSUME NEW store, NEW n, NEW expiry
    PROVE  LET after == Add(store, n, expiry)
           IN  /\ n \in Keys(after)
               /\ Get(after, n) = expiry
               /\ \A k \in Keys(after) \ {n} :
                     k \in Keys(store) /\ Get(after, k) = Get(store, k)
               /\ \A k \in Keys(store) \ Keys(after) :
                     /\ n \notin Keys(store)
                     /\ Size(store) >= MaxSize
                     /\ k = Oldest(store)
<1>1. CASE n \in Keys(store)
  BY <1>1, DeleteKeys, PutKeys DEF Add, MoveToEnd
<1>2. CASE n \notin Keys(store)
  BY <1>2, DeleteKeys, PutKeys DEF Add, MakeRoom, PopOldest
<1> QED
  BY <1>1, <1>2

\* contains leaves a dictionary, no larger.
LEMMA AfterContainsIsDict ==
    ASSUME NEW K, NEW V, NEW store, IsDict(store, K, V), NEW n, NEW now
    PROVE  LET after == AfterContains(store, n, now)
           IN  IsDict(after, K, V) /\ Size(after) <= Size(store)
<1>1. Size(store) \in Nat
  BY SizeIsNat
<1>2. CASE n \in Keys(store) /\ Expired(store, n, now)
  BY <1>1, <1>2, DeleteIsDict DEF AfterContains
<1>3. CASE ~(n \in Keys(store) /\ Expired(store, n, now))
  BY <1>1, <1>3 DEF AfterContains
<1> QED
  BY <1>2, <1>3

\* add leaves a dictionary that holds no more than max_size records.
LEMMA AddIsDict ==
    ASSUME NEW K, NEW V, NEW store, IsDict(store, K, V), NEW n \in K, NEW expiry \in V
    PROVE  LET after == Add(store, n, expiry)
           IN  /\ IsDict(after, K, V)
               /\ Size(store) <= MaxSize => Size(after) <= MaxSize
<1>1. Size(store) \in Nat /\ MaxSize \in Nat \ {0}
  BY SizeIsNat, MaxSizeAssumption
<1>2. CASE n \in Keys(store)
  <2>1. /\ IsDict(MoveToEnd(store, n), K, V)
        /\ Keys(MoveToEnd(store, n)) = Keys(store)
        /\ Size(MoveToEnd(store, n)) = Size(store)
    BY <1>2, MoveToEndIsDict
  <2>2. Add(store, n, expiry) = Put(MoveToEnd(store, n), n, expiry)
    BY <1>2 DEF Add
  <2> QED
    BY <1>1, <1>2, <2>1, <2>2, PutIsDict
<1>3. CASE n \notin Keys(store)
  <2>1. /\ IsDict(MakeRoom(store), K, V)
        /\ n \notin Keys(MakeRoom(store))
        /\ Size(store) <= MaxSize => Size(MakeRoom(store)) < MaxSize
        /\ Size(MakeRoom(store)) \in Nat
    <3>1. CASE Size(store) >= MaxSize
      <4>1. MakeRoom(store) = PopOldest(store) /\ Keys(store) # {}
        BY <3>1, <1>1, SizeIsNat DEF MakeRoom
      <4>2. /\ IsDict(PopOldest(store), K, V)
            /\ Size(PopOldest(store)) = Size(store) - 1
            /\ n \notin Keys(PopOldest(store))
        BY <4>1, <1>3, PopOldestIsDict, DeleteKeys DEF PopOldest
      <4> QED
        BY <3>1, <4>1, <4>2, <1>1
    <3>2. CASE ~(Size(store) >= MaxSize)
      BY <3>2, <1>1, <1>3 DEF MakeRoom
    <3> QED
      BY <3>1, <3>2
  <2>2. Add(store, n, expiry) = Put(MakeRoom(store), n, expiry)
    BY <1>3 DEF Add
  <2>3. /\ IsDict(Put(MakeRoom(store), n, expiry), K, V)
        /\ Size(Put(MakeRoom(store), n, expiry)) = Size(MakeRoom(store)) + 1
    BY <2>1, PutIsDict
  <2> QED
    BY <2>1, <2>2, <2>3, <1>1
<1> QED
  BY <1>2, <1>3

\* contains keeps the records in the order they were written.
LEMMA AfterContainsOrder ==
    ASSUME NEW K, NEW V, NEW store, IsDict(store, K, V), NEW n, NEW now,
           NEW j \in Keys(AfterContains(store, n, now)),
           NEW k \in Keys(AfterContains(store, n, now)),
           AfterContains(store, n, now)[j].at < AfterContains(store, n, now)[k].at
    PROVE  store[j].at < store[k].at
<1>1. CASE n \in Keys(store) /\ Expired(store, n, now)
  BY <1>1, DeleteKeys, DeleteOrder DEF AfterContains
<1>2. CASE ~(n \in Keys(store) /\ Expired(store, n, now))
  BY <1>2 DEF AfterContains
<1> QED
  BY <1>1, <1>2

\* add writes a new record behind all others, which stay in order.
LEMMA AddOrder ==
    ASSUME NEW K, NEW V, NEW store, IsDict(store, K, V), NEW n, n \notin Keys(store),
           NEW expiry
    PROVE  LET after == Add(store, n, expiry)
           IN  \A j \in Keys(after) \ {n} :
                  /\ after[j].at < after[n].at
                  /\ \A k \in Keys(after) \ {n} :
                        after[j].at < after[k].at => store[j].at < store[k].at
<1> DEFINE room == MakeRoom(store)
           after == Add(store, n, expiry)
<1>1. after = Put(room, n, expiry)
  BY DEF Add
<1>2. /\ IsDict(room, K, V)
      /\ Keys(room) \subseteq Keys(store)
      /\ \A j, k \in Keys(room) : room[j].at < room[k].at => store[j].at < store[k].at
  <2>1. CASE Size(store) >= MaxSize
    <3>1. room = Delete(store, Oldest(store)) /\ Keys(store) # {}
      BY <2>1, SizeIsNat, MaxSizeAssumption DEF MakeRoom, PopOldest
    <3>2. Oldest(store) \in Keys(store)
      BY <3>1, OldestIsKey
    <3>3. Keys(room) = Keys(store) \ {Oldest(store)}
      BY <3>1, DeleteKeys
    <3> QED
      BY <3>1, <3>2, <3>3, DeleteIsDict, DeleteOrder
  <2>2. CASE ~(Size(store) >= MaxSize)
    BY <2>2 DEF MakeRoom
  <2> QED
    BY <2>1, <2>2
<1> HIDE DEF room
<1>3. Keys(after) \ {n} = Keys(room)
  BY <1>1, <1>2, PutKeys
<1>4. \A k \in Keys(room) : after[k] = room[k] /\ room[k].at < after[n].at
  BY <1>1, <1>2, PutLast
<1> QED
  BY <1>2, <1>3, <1>4

\* add makes the nonce the most recent; the others keep their order, and are
\* kept as long as fewer than max_size nonces were added since they were.
LEMMA AddRecency ==
    ASSUME NEW K, NEW V, NEW store, IsDict(store, K, V), NEW n \in K, NEW expiry \in V,
           Size(store) <= MaxSize
    PROVE  MostRecent(Add(store, n, expiry), store, n, MaxSize)
<1>1. Add(store, n, expiry) = Touched(store, n, expiry, MaxSize)
  BY DEF Add, MakeRoom, Touched
<1> QED
  BY <1>1, MaxSizeAssumption, TouchedRecency

\* contains brings no record behind another.
LEMMA AfterContainsBehind ==
    ASSUME NEW K, NEW V, NEW store, IsDict(store, K, V), NEW n, NEW now,
           NEW k \in Keys(AfterContains(store, n, now))
    PROVE  Behind(AfterContains(store, n, now), k) \subseteq Behind(store, k)
<1>1. CASE n \in Keys(store) /\ Expired(store, n, now)
  <2>1. AfterContains(store, n, now) = Delete(store, n) /\ k \in Keys(store) \ {n}
    BY <1>1, DeleteKeys DEF AfterContains
  <2> QED
    BY <1>1, <2>1, DeleteBehind
<1>2. CASE ~(n \in Keys(store) /\ Expired(store, n, now))
  BY <1>2 DEF AfterContains
<1> QED
  BY <1>1, <1>2

\* purge drops the records whose expiry has come and keeps the others, in their
\* order and without gaps between their positions.
LEMMA PurgeKeeps ==
    ASSUME NEW K, NEW V, NEW store, IsDict(store, K, V), NEW now
    PROVE  LET after == Purge(store, now)
           IN  /\ IsDict(after, K, V)
               /\ Keys(after) = Keys(store) \ PurgedBy(store, now)
               /\ Size(after) <= Size(store)
               /\ \A k \in Keys(after) : /\ Get(after, k) = Get(store, k)
                                         /\ Behind(after, k) \subseteq Behind(store, k)
<1> DEFINE kept == Keys(store) \ PurgedBy(store, now)
           upto(k) == {m \in kept : store[m].at <= store[k].at}
           rank(k) == Cardinality(upto(k))
           after == Purge(store, now)
           positions == 1 .. Cardinality(kept)
           f == [k \in kept |-> rank(k)]
<1>1. /\ kept \in SUBSET Keys(store)
      /\ \A k \in Keys(store) : store[k].at \in Nat /\ store[k].value \in V
      /\ \A j, k \in kept : store[j].at = store[k].at => j = k
      /\ kept \in SUBSET K
  <2>1. \A k \in Keys(store) : store[k].at \in 1 .. Size(store) /\ store[k].value \in V
    BY DEF IsDict
  <2> QED
    BY <2>1, SizeIsNat DEF IsDict
<1>2. /\ IsFiniteSet(kept)
      /\ Cardinality(kept) \in Nat
      /\ Cardinality(kept) <= Size(store)
  <2>1. IsFiniteSet(Keys(store))
    BY DEF IsDict
  <2> HIDE DEF kept
  <2> QED
    BY <1>1, <2>1, FS_Subset, FS_CardinalityType DEF Size
<1>3. /\ Keys(after) = kept
      /\ \A k \in kept : after[k] = [value |-> store[k].value, at |-> rank(k)]
      /\ after = [k \in kept |-> after[k]]
  BY DEF Purge, Keys, Get
<1> HIDE DEF kept, after
<1>4. ASSUME NEW k \in kept
      PROVE  /\ upto(k) \in SUBSET kept /\ IsFiniteSet(upto(k)) /\ k \in upto(k)
             /\ rank(k) \in Nat /\ rank(k) \in positions
  <2>1. upto(k) \in SUBSET kept /\ k \in upto(k)
    BY <1>1
  <2> HIDE DEF upto
  <2>2. IsFiniteSet(upto(k)) /\ rank(k) <= Cardinality(kept)
    BY <2>1, <1>2, FS_Subset
  <2>3. rank(k) \in Nat /\ rank(k) # 0
    BY <2>1, <2>2, FS_CardinalityType, FS_EmptySet
  <2> HIDE DEF rank
  <2> QED
    BY <2>1, <2>2, <2>3, <1>2
<1>5. ASSUME NEW j \in kept, NEW k \in kept
      PROVE  /\ store[j].at <= store[k].at => rank(j) <= rank(k)
             /\ store[j].at <  store[k].at => rank(j) <  rank(k)
  <2>1. ASSUME store[j].at <= store[k].at
        PROVE  upto(j) \in SUBSET upto(k)
    BY <2>1, <1>1
  <2>2. ASSUME store[j].at < store[k].at
        PROVE  k \notin upto(j)
    BY <2>2, <1>1
  <2>3. store[j].at < store[k].at => store[j].at <= store[k].at
    BY <1>1
  <2>4. IsFiniteSet(upto(k)) /\ k \in upto(k) /\ rank(j) \in Nat /\ rank(k) \in Nat
    BY <1>4
  <2> HIDE DEF upto
  <2>5. ASSUME upto(j) \in SUBSET upto(k)
        PROVE  rank(j) <= rank(k) /\ (rank(j) = rank(k) => upto(k) = upto(j))
    BY <2>4, <2>5, FS_Subset
  <2> HIDE DEF rank
  <2> QED
    BY <2>1, <2>2, <2>3, <2>4, <2>5
<1>6. \A j, k \in kept : rank(j) = rank(k) => j = k
  <2> TAKE j, k \in kept
  <2>1. rank(j) \in Nat /\ rank(k) \in Nat
    BY <1>4
  <2>2. /\ store[j].at < store[k].at => rank(j) < rank(k)
        /\ store[k].at < store[j].at => rank(k) < rank(j)
    BY <1>5
  <2> HIDE DEF rank
  <2> QED
    BY <2>1, <2>2, <1>1
<1> HIDE DEF rank, upto
<1>7. \A i \in positions : \E k \in kept : rank(k) = i
  <2>1. f \in [kept -> positions]
    BY <1>4
  <2>2. f \in Injection(kept, positions)
    BY <2>1, <1>6 DEF Injection, IsInjective
  <2>3. IsFiniteSet(positions) /\ Cardinality(positions) = Cardinality(kept)
    <3>1. 1 \in Int /\ Cardinality(kept) \in Int
      BY <1>2
    <3> QED
      BY <3>1, <1>2, FS_Interval
  <2>4. f \in Surjection(kept, positions)
    BY <2>2, <2>3, FS_Injection
  <2> QED
    BY <2>4 DEF Surjection
<1>8. IsDict(after, K, V)
  <2>1. Size(after) = Cardinality(kept)
    BY <1>3 DEF Size
  <2>2. after \in [Keys(after) -> [value : V, at : 1 .. Size(after)]]
    BY <2>1, <1>1, <1>3, <1>4
  <2>3. \A k \in Keys(after) : after[k].at = rank(k)
    BY <1>3
  <2> QED
    BY <2>1, <2>2, <2>3, <1>1, <1>2, <1>3, <1>6, <1>7 DEF IsDict
<1>9. ASSUME NEW k \in kept
      PROVE  /\ Get(after, k) = Get(store, k)
             /\ Behind(after, k) \subseteq Behind(store, k)
  <2>1. Get(after, k) = Get(store, k)
    BY <1>3 DEF Get
  <2>2. ASSUME NEW j \in kept, rank(j) > rank(k)
        PROVE  store[j].at > store[k].at
    BY <2>2, <1>1, <1>4, <1>5
  <2>3. \A j \in kept : after[j].at = rank(j)
    BY <1>3
  <2> QED
    BY <2>1, <2>2, <2>3, <1>1, <1>3 DEF Behind
<1> QED
  BY <1>2, <1>3, <1>8, <1>9 DEF kept, after, Size
=============================================================================
