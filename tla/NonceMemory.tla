---------------------------- MODULE NonceMemory ----------------------------
(***************************************************************************)
(* The SpentNonceSet driven through its whole interface: add, contains and *)
(* purge in any order, as its unit tests and its docstrings allow (the     *)
(* server itself never calls purge and never adds a nonce it still holds). *)
(* The module says what a caller may rely on: which nonces are still       *)
(* remembered, given only what was added and when.                         *)
(***************************************************************************)
EXTENDS SpentNonceSet

CONSTANTS
    Nonces,
    Never,              \* the expiry of a nonce never added
    MaxClock            \* bound: last second of the clock

ASSUME NonceMemoryAssumption == MaxClock \in Nat /\ Never \notin Nat

VARIABLES
    clock,              \* int(time.time())
    store,              \* SpentNonceSet._store
    expiry,             \* history: the expiry each nonce was last added with
    newer               \* history: the nonces added since each was last added

vars == <<clock, store, expiry, newer>>

Init ==
    /\ clock = 0
    /\ store = EmptyDict
    /\ expiry = [n \in Nonces |-> Never]
    /\ newer = [n \in Nonces |-> {}]

AddNonce(n, e) ==
    /\ store' = Add(store, n, e)
    /\ expiry' = [expiry EXCEPT ![n] = e]
    /\ newer' = [m \in Nonces |-> IF m = n THEN {} ELSE newer[m] \cup {n}]
    /\ UNCHANGED clock

CheckNonce(n) ==
    /\ store' = AfterContains(store, n, clock)
    /\ UNCHANGED <<clock, expiry, newer>>

PurgeNow ==
    /\ store' = Purge(store, clock)
    /\ UNCHANGED <<clock, expiry, newer>>

Tick ==
    /\ clock < MaxClock
    /\ clock' = clock + 1
    /\ UNCHANGED <<store, expiry, newer>>

Next ==
    \/ \E n \in Nonces, e \in 0 .. MaxClock : AddNonce(n, e)
    \/ \E n \in Nonces : CheckNonce(n)
    \/ PurgeNow
    \/ Tick

Spec == Init /\ [][Next]_vars

-----------------------------------------------------------------------------
TypeOK ==
    /\ clock \in 0 .. MaxClock
    /\ IsDict(store, Nonces, 0 .. MaxClock)
    /\ Size(store) <= MaxSize
    /\ expiry \in [Nonces -> (0 .. MaxClock) \cup {Never}]
    /\ newer \in [Nonces -> SUBSET Nonces]

\* Among the nonces added last, however often others are added again, checked
\* or purged: fewer than MaxSize others were added since.
Recent(n) == expiry[n] # Never /\ Cardinality(newer[n]) < MaxSize

\* The MaxSize nonces added last are reported spent until their expiry, and a
\* nonce is reported spent only with the expiry it was last added with.
RemembersRecent ==
    \A n \in Nonces :
        /\ Recent(n) /\ clock < expiry[n] => Contains(store, n, clock)
        /\ Contains(store, n, clock) => clock <= expiry[n]

\* A nonce is forgotten before its expiry has come only to make room for
\* MaxSize nonces added after it, never by purge or contains.
ForgetsOnlyForRoom ==
    [][\A n \in Keys(store) \ Keys(store') :
          clock >= expiry[n] \/ Cardinality(newer'[n]) >= MaxSize]_vars

\* The expiry is the "Unix timestamp after which the nonce can be forgotten"
\* (docstring of add): in the second of the expiry itself it is still spent.
RemembersThroughExpiry ==
    \A n \in Nonces : Recent(n) /\ clock <= expiry[n] => Contains(store, n, clock)
=============================================================================
