---------------------------- MODULE OrderedDict ----------------------------
(***************************************************************************)
(* collections.OrderedDict as RateLimiter and SpentNonceSet of             *)
(* sslpv.services.server use it: a mapping that remembers the order in     *)
(* which its keys were inserted or last moved to the end.                  *)
(*                                                                         *)
(* A dictionary is a function from its keys to records [value, at], where  *)
(* "at" is the key's position in the order, 1 for the oldest.  Iteration   *)
(* order is all that is observable of the linked list the library keeps,   *)
(* so positions stand for it, and no operator needs recursion.             *)
(***************************************************************************)
EXTENDS Naturals, FiniteSets

EmptyDict == [k \in {} |-> [value |-> 0, at |-> 0]]

Keys(d) == DOMAIN d

Size(d) == Cardinality(Keys(d))

Get(d, k) == d[k].value

\* The key popitem(last=False) removes.
Oldest(d) == CHOOSE k \in Keys(d) : d[k].at = 1

\* del d[key]: the keys behind it move up by one.
Delete(d, key) ==
    [k \in Keys(d) \ {key} |->
        [value |-> d[k].value,
         at    |-> IF d[k].at > d[key].at THEN d[k].at - 1 ELSE d[k].at]]

\* popitem(last=False)
PopOldest(d) == Delete(d, Oldest(d))

\* d[key] = value: a new key goes to the end, a known key keeps its place.
Put(d, key, value) ==
    [k \in Keys(d) \cup {key} |->
        IF k # key THEN d[k]
        ELSE [value |-> value,
              at    |-> IF key \in Keys(d) THEN d[key].at ELSE Size(d) + 1]]

\* d.move_to_end(key)
MoveToEnd(d, key) == Put(Delete(d, key), key, Get(d, key))

-----------------------------------------------------------------------------
\* d maps finitely many of the keys K to values in V, and its positions are
\* 1 .. Size(d), each taken by one key.
IsDict(d, K, V) ==
    /\ Keys(d) \in SUBSET K
    /\ IsFiniteSet(Keys(d))
    /\ d \in [Keys(d) -> [value : V, at : 1 .. Size(d)]]
    /\ \A j, k \in Keys(d) : d[j].at = d[k].at => j = k
    /\ \A i \in 1 .. Size(d) : \E k \in Keys(d) : d[k].at = i
=============================================================================
