-------------------------- MODULE NonceMemoryProofs --------------------------
(***************************************************************************)
(* What a caller of SpentNonceSet may rely on, for every max_size, every   *)
(* set of nonces and every order of add, contains and purge.               *)
(***************************************************************************)
EXTENDS NonceMemory, ServerMemoryProofs

\* A record carries the expiry its nonce was last added with, and behind it are
\* only nonces added since.
Faithful ==
    \A n \in Keys(store) : Get(store, n) = expiry[n] /\ Behind(store, n) \subseteq newer[n]

\* A nonce that is among those added last and has not expired has a record.
Held == \A n \in Nonces : Recent(n) /\ clock < expiry[n] => n \in Keys(store)

IInv ==
    /\ TypeOK
    /\ \A n \in Nonces : IsFiniteSet(newer[n])
    /\ Faithful
    /\ Held

\* What the type invariant says of a record and of a recent nonce.
LEMMA ExpiryTyped ==
    ASSUME IInv
    PROVE  /\ clock \in Nat /\ MaxClock \in Nat
           /\ \A n \in Keys(store) : n \in Nonces /\ expiry[n] \in Nat
           /\ \A n \in Nonces : Recent(n) => expiry[n] \in Nat
<1>1. clock \in Nat /\ MaxClock \in Nat
  BY NonceMemoryAssumption DEF IInv, TypeOK
<1>2. ASSUME NEW n \in Keys(store)
      PROVE  n \in Nonces /\ expiry[n] \in Nat
  <2>1. n \in Nonces /\ Get(store, n) \in 0 .. MaxClock
    BY DEF IInv, TypeOK, IsDict, Get
  <2> QED
    BY <2>1 DEF IInv, Faithful
<1>3. ASSUME NEW n \in Nonces, Recent(n)
      PROVE  expiry[n] \in Nat
  <2>1. expiry[n] \in (0 .. MaxClock) \cup {Never} /\ expiry[n] # Never
    BY <1>3 DEF IInv, TypeOK, Recent
  <2> QED
    BY <2>1
<1> QED
  BY <1>1, <1>2, <1>3

\* The initial states.
LEMMA InitInv == Init => IInv
<1> SUFFICES ASSUME Init PROVE IInv
  OBVIOUS
<1>1. IsDict(store, Nonces, 0 .. MaxClock) /\ Keys(store) = {} /\ Size(store) = 0
  BY EmptyIsDict DEF Init
<1>2. TypeOK
  BY <1>1, NonceMemoryAssumption, MaxSizeAssumption DEF Init, TypeOK
<1>3. \A n \in Nonces : newer[n] = {} /\ expiry[n] = Never
  BY DEF Init
<1> QED
  BY <1>1, <1>2, <1>3, FS_EmptySet DEF IInv, Faithful, Held, Recent

\* A nonce that loses its record to an add has max_size newer ones.
LEMMA AddEvicts ==
    ASSUME IInv, NEW n \in Nonces, NEW e \in 0 .. MaxClock, AddNonce(n, e),
           NEW k \in Keys(store) \ Keys(store')
    PROVE  k # n /\ Cardinality(newer'[k]) >= MaxSize
<1> DEFINE others == Behind(store, k) \cup {n}
<1>1. /\ IsDict(store, Nonces, 0 .. MaxClock)
      /\ Size(store) <= MaxSize /\ k \in Nonces
      /\ IsFiniteSet(newer[k]) /\ Behind(store, k) \subseteq newer[k]
  BY ExpiryTyped DEF IInv, TypeOK, Faithful
<1>2. MostRecent(store', store, n, MaxSize)
  BY <1>1, AddRecency DEF AddNonce
<1>3. k # n /\ ~(Cardinality(others) < MaxSize)
  BY <1>2 DEF MostRecent
<1>4. newer'[k] = newer[k] \cup {n}
  BY <1>1, <1>3 DEF AddNonce
<1>5. IsFiniteSet(newer'[k]) /\ others \in SUBSET newer'[k]
  BY <1>1, <1>4, FS_AddElement
<1> HIDE DEF others
<1>6. /\ Cardinality(others) <= Cardinality(newer'[k])
      /\ Cardinality(others) \in Nat /\ Cardinality(newer'[k]) \in Nat
  BY <1>5, FS_Subset, FS_CardinalityType
<1> QED
  BY <1>3, <1>6, MaxSizeAssumption

LEMMA AddInv ==
    ASSUME IInv, NEW n \in Nonces, NEW e \in 0 .. MaxClock, AddNonce(n, e)
    PROVE  IInv'
<1>1. /\ IsDict(store, Nonces, 0 .. MaxClock)
      /\ Size(store) <= MaxSize
      /\ expiry \in [Nonces -> (0 .. MaxClock) \cup {Never}]
      /\ newer \in [Nonces -> SUBSET Nonces]
      /\ \A k \in Nonces : IsFiniteSet(newer[k])
  BY DEF IInv, TypeOK
<1>2. /\ store' = Add(store, n, e)
      /\ expiry' = [expiry EXCEPT ![n] = e]
      /\ newer' = [m \in Nonces |-> IF m = n THEN {} ELSE newer[m] \cup {n}]
      /\ clock' = clock
  BY DEF AddNonce
<1>3. IsDict(store', Nonces, 0 .. MaxClock) /\ Size(store') <= MaxSize
  BY <1>1, <1>2, AddIsDict
<1>4. MostRecent(store', store, n, MaxSize)
  BY <1>1, <1>2, AddRecency
<1>5. TypeOK'
  BY <1>1, <1>2, <1>3 DEF IInv, TypeOK
<1>6. ASSUME NEW k \in Nonces
      PROVE  IsFiniteSet(newer'[k])
  BY <1>1, <1>2, FS_EmptySet, FS_AddElement
<1>7. Faithful'
  <2> SUFFICES ASSUME NEW k \in Keys(store')
               PROVE  Get(store', k) = expiry'[k] /\ Behind(store', k) \subseteq newer'[k]
    BY DEF Faithful
  <2>1. k \in Nonces
    BY <1>3 DEF IsDict
  <2>2. CASE k = n
    BY <2>2, <1>1, <1>2, <1>4, AddValues DEF MostRecent
  <2>3. CASE k # n
    <3>1. k \in Keys(store) /\ Get(store', k) = Get(store, k)
      BY <2>3, <1>2, AddValues
    <3>2. Get(store, k) = expiry[k] /\ Behind(store, k) \subseteq newer[k]
      BY <3>1 DEF IInv, Faithful
    <3>3. Behind(store', k) = Behind(store, k) \cup {n}
      BY <2>3, <1>4 DEF MostRecent
    <3> QED
      BY <2>1, <2>3, <3>1, <3>2, <3>3, <1>1, <1>2
  <2> QED
    BY <2>2, <2>3
<1>8. Held'
  <2> SUFFICES ASSUME NEW k \in Nonces, Recent(k)', clock' < expiry'[k], k \notin Keys(store')
               PROVE  FALSE
    BY DEF Held
  <2>1. k # n
    BY <1>4 DEF MostRecent
  <2>2. expiry'[k] = expiry[k] /\ newer'[k] = newer[k] \cup {n}
    BY <2>1, <1>1, <1>2
  <2>3. expiry[k] # Never /\ Cardinality(newer'[k]) < MaxSize
    BY <2>2 DEF Recent
  <2>4. k \in Keys(store)
    <3>1. /\ Cardinality(newer[k]) <= Cardinality(newer'[k])
          /\ Cardinality(newer[k]) \in Nat /\ Cardinality(newer'[k]) \in Nat
      <4>1. IsFiniteSet(newer[k])
        BY <1>1
      <4>2. /\ Cardinality(newer[k]) \in Nat
            /\ Cardinality(newer'[k]) = IF n \in newer[k] THEN Cardinality(newer[k])
                                                          ELSE Cardinality(newer[k]) + 1
        BY <4>1, <2>2, FS_AddElement, FS_CardinalityType
      <4> QED
        BY <4>2
    <3>2. Recent(k)
      BY <2>3, <3>1, MaxSizeAssumption DEF Recent
    <3> QED
      BY <3>2, <2>2, <1>2 DEF IInv, Held
  <2>5. Cardinality(newer'[k]) >= MaxSize
    BY <2>4, AddEvicts
  <2>6. Cardinality(newer'[k]) \in Nat
    BY <1>6, FS_CardinalityType
  <2> QED
    BY <2>3, <2>5, <2>6, MaxSizeAssumption
<1> QED
  BY <1>5, <1>6, <1>7, <1>8 DEF IInv

\* A step that only drops records of expired nonces, and brings none behind
\* another, keeps the invariant.
LEMMA DropInv ==
    ASSUME IInv, UNCHANGED <<clock, expiry, newer>>,
           IsDict(store', Nonces, 0 .. MaxClock), Size(store') <= Size(store),
           Keys(store') \subseteq Keys(store),
           \A k \in Keys(store') : /\ Get(store', k) = Get(store, k)
                                   /\ Behind(store', k) \subseteq Behind(store, k),
           \A k \in Keys(store) \ Keys(store') : clock >= expiry[k]
    PROVE  IInv'
<1>1. Size(store') <= MaxSize
  <2>1. Size(store) \in Nat /\ Size(store') \in Nat /\ Size(store) <= MaxSize
    BY SizeIsNat DEF IInv, TypeOK
  <2> QED
    BY <2>1, MaxSizeAssumption
<1>2. TypeOK'
  BY <1>1 DEF IInv, TypeOK
<1>3. Faithful'
  BY DEF IInv, Faithful
<1>4. Held'
  <2> SUFFICES ASSUME NEW k \in Nonces, Recent(k), clock < expiry[k]
               PROVE  k \in Keys(store')
    BY DEF Held, Recent
  <2>1. k \in Keys(store)
    BY DEF IInv, Held
  <2> QED
    BY <2>1, ExpiryTyped
<1> QED
  BY <1>2, <1>3, <1>4 DEF IInv

LEMMA CheckInv == ASSUME IInv, NEW n \in Nonces, CheckNonce(n) PROVE IInv'
<1>1. /\ IsDict(store, Nonces, 0 .. MaxClock)
      /\ store' = AfterContains(store, n, clock)
      /\ UNCHANGED <<clock, expiry, newer>>
  BY DEF IInv, TypeOK, CheckNonce
<1>2. IsDict(store', Nonces, 0 .. MaxClock) /\ Size(store') <= Size(store)
  BY <1>1, AfterContainsIsDict
<1>3. /\ Keys(store') \subseteq Keys(store)
      /\ \A k \in Keys(store') : Get(store', k) = Get(store, k)
      /\ \A k \in Keys(store) \ Keys(store') : k = n /\ Expired(store, n, clock)
  BY <1>1, AfterContainsValues
<1>4. \A k \in Keys(store') : Behind(store', k) \subseteq Behind(store, k)
  BY <1>1, AfterContainsBehind
<1>5. \A k \in Keys(store) \ Keys(store') : clock >= expiry[k]
  BY <1>3, ExpiryTyped DEF Expired, IInv, Faithful
<1> QED
  BY <1>1, <1>2, <1>3, <1>4, <1>5, DropInv

LEMMA PurgeInv == ASSUME IInv, PurgeNow PROVE IInv'
<1>1. /\ IsDict(store, Nonces, 0 .. MaxClock)
      /\ store' = Purge(store, clock)
      /\ UNCHANGED <<clock, expiry, newer>>
  BY DEF IInv, TypeOK, PurgeNow
<1>2. /\ IsDict(store', Nonces, 0 .. MaxClock) /\ Size(store') <= Size(store)
      /\ Keys(store') = Keys(store) \ PurgedBy(store, clock)
      /\ \A k \in Keys(store') : /\ Get(store', k) = Get(store, k)
                                 /\ Behind(store', k) \subseteq Behind(store, k)
  BY <1>1, PurgeKeeps
<1>3. \A k \in Keys(store) \ Keys(store') : clock >= expiry[k]
  BY <1>2, ExpiryTyped DEF PurgedBy, IInv, Faithful
<1> QED
  BY <1>1, <1>2, <1>3, DropInv

LEMMA TickInv == ASSUME IInv, Tick PROVE IInv'
<1>1. /\ clock' = clock + 1 /\ clock' \in 0 .. MaxClock
      /\ UNCHANGED <<store, expiry, newer>>
  BY NonceMemoryAssumption DEF IInv, TypeOK, Tick
<1>2. TypeOK' /\ Faithful'
  BY <1>1 DEF IInv, TypeOK, Faithful
<1>3. Held'
  <2> SUFFICES ASSUME NEW n \in Nonces, Recent(n), clock + 1 < expiry[n]
               PROVE  n \in Keys(store)
    BY <1>1 DEF Held, Recent
  <2>1. clock < expiry[n]
    BY ExpiryTyped
  <2> QED
    BY <2>1 DEF IInv, Held
<1> QED
  BY <1>1, <1>2, <1>3 DEF IInv

\* The records are those of the nonces added last that have not expired, with
\* the expiry they were added with.
THEOREM NonceMemoryInvariant == Spec => []IInv
<1>1. IInv /\ [Next]_vars => IInv'
  <2> SUFFICES ASSUME IInv, [Next]_vars PROVE IInv'
    OBVIOUS
  <2>1. CASE \E n \in Nonces, e \in 0 .. MaxClock : AddNonce(n, e)
    BY <2>1, AddInv
  <2>2. CASE \E n \in Nonces : CheckNonce(n)
    BY <2>2, CheckInv
  <2>3. CASE PurgeNow
    BY <2>3, PurgeInv
  <2>4. CASE Tick
    BY <2>4, TickInv
  <2>5. CASE UNCHANGED vars
    BY <2>5 DEF vars, IInv, TypeOK, Faithful, Held, Recent
  <2> QED
    BY <2>1, <2>2, <2>3, <2>4, <2>5 DEF Next
<1> QED
  BY <1>1, InitInv, PTL DEF Spec

\* The type invariant: the store keeps within max_size at all times.
THEOREM NonceMemoryTyped == Spec => []TypeOK
<1>1. IInv => TypeOK
  BY DEF IInv
<1> QED
  BY <1>1, NonceMemoryInvariant, PTL

\* The max_size nonces added last are reported spent until they expire, and no
\* nonce is reported spent beyond the expiry it was last added with.
THEOREM RemembersTheRecent == Spec => []RemembersRecent
<1>1. IInv => RemembersRecent
  <2> SUFFICES ASSUME IInv, NEW n \in Nonces
               PROVE  /\ Recent(n) /\ clock < expiry[n] => Contains(store, n, clock)
                      /\ Contains(store, n, clock) => clock <= expiry[n]
    BY DEF RemembersRecent
  <2>1. \A k \in Keys(store) : Get(store, k) = expiry[k] /\ expiry[k] \in Nat
    BY ExpiryTyped DEF IInv, Faithful
  <2>2. ASSUME Recent(n), clock < expiry[n]
        PROVE  Contains(store, n, clock)
    <3>1. n \in Keys(store)
      BY <2>2 DEF IInv, Held
    <3> QED
      BY <2>1, <2>2, <3>1, ExpiryTyped DEF Contains, Expired
  <2>3. ASSUME Contains(store, n, clock)
        PROVE  clock <= expiry[n]
    BY <2>1, <2>3, ExpiryTyped DEF Contains, Expired
  <2> QED
    BY <2>2, <2>3
<1> QED
  BY <1>1, NonceMemoryInvariant, PTL

\* No call forgets a nonce before its expiry has come, but an add that makes
\* room when max_size others were added since.
THEOREM ForgottenOnlyForRoom == Spec => ForgetsOnlyForRoom
<1> DEFINE A == \A n \in Keys(store) \ Keys(store') :
                   clock >= expiry[n] \/ Cardinality(newer'[n]) >= MaxSize
<1>1. IInv /\ [Next]_vars => [A]_vars
  <2> SUFFICES ASSUME IInv, Next, NEW k \in Keys(store) \ Keys(store')
               PROVE  clock >= expiry[k] \/ Cardinality(newer'[k]) >= MaxSize
    OBVIOUS
  <2>1. ASSUME NEW n \in Nonces, NEW e \in 0 .. MaxClock, AddNonce(n, e)
        PROVE  Cardinality(newer'[k]) >= MaxSize
    BY <2>1, AddEvicts
  <2>2. ASSUME NEW n \in Nonces, CheckNonce(n)
        PROVE  clock >= expiry[k]
    <3>1. k = n /\ Expired(store, n, clock)
      BY <2>2, AfterContainsValues DEF CheckNonce
    <3> QED
      BY <3>1, ExpiryTyped DEF Expired, IInv, Faithful
  <2>3. ASSUME PurgeNow
        PROVE  clock >= expiry[k]
    <3>1. k \in PurgedBy(store, clock)
      BY <2>3, PurgeKeeps DEF PurgeNow, IInv, TypeOK
    <3> QED
      BY <3>1, ExpiryTyped DEF PurgedBy, IInv, Faithful
  <2>4. ~Tick
    BY DEF Tick
  <2> QED
    BY <2>1, <2>2, <2>3, <2>4 DEF Next
<1> QED
  BY <1>1, NonceMemoryInvariant, PTL DEF Spec, ForgetsOnlyForRoom
=============================================================================
