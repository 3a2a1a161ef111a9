--------------------------- MODULE SpentNonceSet ---------------------------
(***************************************************************************)
(* class SpentNonceSet of sslpv.services.server: the nonces already used,  *)
(* each with the Unix second after which it may be forgotten.  A store is  *)
(* an OrderedDict from nonces to expiries; the operators return what a     *)
(* method returns and the store it leaves, so that a handler making        *)
(* several calls in one step can chain them.                               *)
(***************************************************************************)
EXTENDS OrderedDict, Integers

CONSTANT MaxSize        \* __init__: max_size

ASSUME MaxSizeAssumption == MaxSize \in Nat \ {0}

\* A mistake: room is made one nonce too late.
MakeRoomLate(store) == IF Size(store) > MaxSize THEN PopOldest(store) ELSE store

\* A mistake: popitem() without last=False takes the newest record.
MakeRoomNewest(store) ==
    IF Size(store) >= MaxSize
    THEN Delete(store, CHOOSE n \in Keys(store) : store[n].at = Size(store))
    ELSE store

\* At capacity, room is made by dropping the oldest record, live or not.
MakeRoom(store) == IF Size(store) >= MaxSize THEN PopOldest(store) ELSE store

\* A mistake: a nonce added again keeps its place in the order of eviction.
AddUnmoved(store, nonce, expiry) ==
    IF nonce \in Keys(store)
    THEN Put(store, nonce, expiry)
    ELSE Put(MakeRoom(store), nonce, expiry)

\* add(nonce_b64, expiry): a nonce already there moves to the end.
Add(store, nonce, expiry) ==
    IF nonce \in Keys(store)
    THEN Put(MoveToEnd(store, nonce), nonce, expiry)
    ELSE Put(MakeRoom(store), nonce, expiry)

\* A mistake: a record ends a second before its challenge does.
ExpiredEarly(store, nonce, now) == now >= Get(store, nonce)

Expired(store, nonce, now) == now > Get(store, nonce)

\* What contains(nonce_b64) returns when the clock reads now ...
Contains(store, nonce, now) ==
    nonce \in Keys(store) /\ ~Expired(store, nonce, now)

\* ... and the store it leaves: a record found expired is deleted.
AfterContains(store, nonce, now) ==
    IF nonce \in Keys(store) /\ Expired(store, nonce, now)
    THEN Delete(store, nonce)
    ELSE store

PurgedBy(store, now) == {n \in Keys(store) : Get(store, n) <= now}

\* purge(now): the records that stay close up in their old order.
Purge(store, now) ==
    LET kept == Keys(store) \ PurgedBy(store, now)
    IN  [n \in kept |->
            [value |-> Get(store, n),
             at    |-> Cardinality({m \in kept : store[m].at <= store[n].at})]]
=============================================================================
