-------------------------- MODULE OrderedDictProofs --------------------------
(***************************************************************************)
(* What the operations of OrderedDict return: a dictionary again, with the *)
(* keys, the size and the values they should have.                         *)
(***************************************************************************)
EXTENDS OrderedDict, FiniteSetTheorems, TLAPS

\* The keys that come after k in the order.
Behind(d, k) == {j \in Keys(d) : d[j].at > d[k].at}

\* e is d once key is the most recent of at most max keys: it comes last,
\* behind the others that are kept, and a key is kept exactly if fewer than max
\* others, the new one included, come after it.
MostRecent(e, d, key, max) ==
    /\ Keys(e) = {key} \cup {k \in Keys(d) : Cardinality(Behind(d, k) \cup {key}) < max}
    /\ Behind(e, key) = {}
    /\ \A k \in Keys(e) \ {key} : Behind(e, k) = Behind(d, k) \cup {key}

\* What both classes do to remember a key: it becomes the most recent of at
\* most max keys, in the place of the oldest if it is new and they are full.
Touched(d, key, value, max) ==
    IF key \in Keys(d)
    THEN Put(MoveToEnd(d, key), key, value)
    ELSE Put(IF Size(d) >= max THEN PopOldest(d) ELSE d, key, value)

\* The size of a dictionary is a number, and zero only when it is empty.
LEMMA SizeIsNat ==
    ASSUME NEW K, NEW V, NEW d, IsDict(d, K, V)
    PROVE  Size(d) \in Nat /\ (Size(d) = 0 <=> Keys(d) = {})
BY FS_CardinalityType, FS_EmptySet DEF IsDict, Size

\* A new OrderedDict is a dictionary.
LEMMA EmptyIsDict ==
    ASSUME NEW K, NEW V
    PROVE  IsDict(EmptyDict, K, V) /\ Keys(EmptyDict) = {} /\ Size(EmptyDict) = 0
<1>1. Keys(EmptyDict) = {}
  BY DEF EmptyDict, Keys
<1>2. IsFiniteSet(Keys(EmptyDict)) /\ Size(EmptyDict) = 0
  BY <1>1, FS_EmptySet DEF Size
<1>3. EmptyDict \in [Keys(EmptyDict) -> [value : V, at : 1 .. Size(EmptyDict)]]
  BY <1>1 DEF EmptyDict
<1> QED
  BY <1>1, <1>2, <1>3 DEF IsDict

\* popitem(last=False) finds a key in a dictionary that is not empty.
LEMMA OldestIsKey ==
    ASSUME NEW K, NEW V, NEW d, IsDict(d, K, V), Keys(d) # {}
    PROVE  Oldest(d) \in Keys(d)
<1>1. 1 \in 1 .. Size(d)
  BY SizeIsNat
<1>2. \E k \in Keys(d) : d[k].at = 1
  BY <1>1 DEF IsDict
<1> QED
  BY <1>2 DEF Oldest

\* What del leaves, in any function: the other keys with their values.
LEMMA DeleteKeys ==
    ASSUME NEW d, NEW key
    PROVE  /\ Keys(Delete(d, key)) = Keys(d) \ {key}
           /\ \A k \in Keys(d) \ {key} : Get(Delete(d, key), k) = Get(d, k)
BY DEF Delete, Keys, Get

\* What an assignment leaves, in any function.
LEMMA PutKeys ==
    ASSUME NEW d, NEW key, NEW value
    PROVE  /\ Keys(Put(d, key, value)) = Keys(d) \cup {key}
           /\ Get(Put(d, key, value), key) = value
           /\ \A k \in Keys(d) \ {key} : Get(Put(d, key, value), k) = Get(d, k)
BY DEF Put, Keys, Get

\* del keeps the positions a numbering of the keys.
LEMMA DeleteIsDict ==
    ASSUME NEW K, NEW V, NEW d, IsDict(d, K, V), NEW key \in Keys(d)
    PROVE  IsDict(Delete(d, key), K, V) /\ Size(Delete(d, key)) = Size(d) - 1
<1> DEFINE e == Delete(d, key)
           at(k) == IF d[k].at > d[key].at THEN d[k].at - 1 ELSE d[k].at
<1>1. /\ Keys(e) = Keys(d) \ {key}
      /\ e = [k \in Keys(e) |-> [value |-> d[k].value, at |-> at(k)]]
  BY DEF Delete, Keys
<1>2. IsFiniteSet(Keys(e)) /\ Size(e) = Size(d) - 1
  BY <1>1, FS_RemoveElement DEF IsDict, Size
<1>3. Size(d) \in Nat
  BY SizeIsNat
<1>4. \A k \in Keys(d) : /\ d[k].at \in 1 .. Size(d)
                         /\ d[k].value \in V
                         /\ (k # key => d[k].at # d[key].at)
  BY DEF IsDict
<1>5. \A k \in Keys(e) : k \in Keys(d) /\ k # key /\ at(k) \in 1 .. Size(e)
  BY <1>1, <1>2, <1>3, <1>4
<1>6. ASSUME NEW j \in Keys(e), NEW k \in Keys(e), at(j) = at(k)
      PROVE  j = k
  <2>1. d[j].at = d[k].at
    BY <1>3, <1>4, <1>5, <1>6
  <2> QED
    BY <2>1, <1>5 DEF IsDict
<1>7. ASSUME NEW i \in 1 .. Size(e)
      PROVE  \E k \in Keys(e) : at(k) = i
  <2>1. CASE i < d[key].at
    <3>1. PICK k \in Keys(d) : d[k].at = i
      BY <1>2, <1>3 DEF IsDict
    <3>2. k \in Keys(e) /\ at(k) = i
      BY <2>1, <3>1, <1>1, <1>3, <1>4
    <3> QED
      BY <3>2
  <2>2. CASE i >= d[key].at
    <3>1. i + 1 \in 1 .. Size(d)
      BY <1>2, <1>3
    <3>2. PICK k \in Keys(d) : d[k].at = i + 1
      BY <3>1 DEF IsDict
    <3>3. k \in Keys(e) /\ at(k) = i
      BY <2>2, <3>2, <1>1, <1>3, <1>4
    <3> QED
      BY <3>3
  <2> QED
    BY <2>1, <2>2, <1>2, <1>3, <1>4
<1>8. Keys(e) \in SUBSET K /\ \A k \in Keys(e) : d[k].value \in V
  BY <1>1, <1>4 DEF IsDict
<1> HIDE DEF e, at
<1>9. e \in [Keys(e) -> [value : V, at : 1 .. Size(e)]]
  BY <1>1, <1>5, <1>8
<1>10. \A k \in Keys(e) : e[k].at = at(k)
  BY <1>1
<1>11. IsDict(e, K, V)
  BY <1>2, <1>6, <1>7, <1>8, <1>9, <1>10 DEF IsDict
<1> QED
  BY <1>2, <1>11 DEF e

\* d[key] = value keeps the positions a numbering of the keys.
LEMMA PutIsDict ==
    ASSUME NEW K, NEW V, NEW d, IsDict(d, K, V), NEW key \in K, NEW value \in V
    PROVE  /\ IsDict(Put(d, key, value), K, V)
           /\ Size(Put(d, key, value)) =
                 IF key \in Keys(d) THEN Size(d) ELSE Size(d) + 1
<1> DEFINE e == Put(d, key, value)
<1>1. Keys(e) = Keys(d) \cup {key} /\ e = [k \in Keys(e) |-> e[k]]
  BY DEF Put, Keys
<1>2. IsFiniteSet(Keys(e))
      /\ Size(e) = IF key \in Keys(d) THEN Size(d) ELSE Size(d) + 1
  BY <1>1, FS_AddElement DEF IsDict, Size
<1>3. Size(d) \in Nat
  BY SizeIsNat
<1>4. \A k \in Keys(d) : d[k].at \in 1 .. Size(d) /\ d[k].value \in V
                         /\ d[k] \in [value : V, at : 1 .. Size(d)]
  BY DEF IsDict
<1>5. /\ \A k \in Keys(e) : k # key => e[k] = d[k] /\ k \in Keys(d)
      /\ e[key] = [value |-> value,
                   at    |-> IF key \in Keys(d) THEN d[key].at ELSE Size(d) + 1]
  BY <1>1 DEF Put
<1>6. \A k \in Keys(e) : e[k] \in [value : V, at : 1 .. Size(e)]
  <2> TAKE k \in Keys(e)
  <2>1. CASE k = key
    BY <2>1, <1>2, <1>3, <1>4, <1>5
  <2>2. CASE k # key
    <3>1. k \in Keys(d) /\ e[k] = d[k] /\ d[k].at \in 1 .. Size(e)
      BY <2>2, <1>2, <1>3, <1>4, <1>5
    <3>2. d[k] = [value |-> d[k].value, at |-> d[k].at]
      BY <3>1, <1>4
    <3> QED
      BY <3>1, <3>2, <1>4
  <2> QED
    BY <2>1, <2>2
<1>7. ASSUME NEW j \in Keys(e), NEW k \in Keys(e), e[j].at = e[k].at
      PROVE  j = k
  <2>1. CASE key \in Keys(d)
    <3>1. j \in Keys(d) /\ k \in Keys(d) /\ e[j].at = d[j].at /\ e[k].at = d[k].at
      BY <2>1, <1>1, <1>5
    <3> QED
      BY <3>1, <1>7 DEF IsDict
  <2>2. CASE key \notin Keys(d)
    <3>1. \A m \in Keys(e) : IF m = key THEN e[m].at = Size(d) + 1
                             ELSE m \in Keys(d) /\ e[m].at = d[m].at
                                  /\ e[m].at \in 1 .. Size(d)
      BY <2>2, <1>4, <1>5
    <3>2. (j = key) = (k = key)
      BY <3>1, <1>3, <1>7
    <3> QED
      BY <3>1, <3>2, <1>7 DEF IsDict
  <2> QED
    BY <2>1, <2>2
<1>8. ASSUME NEW i \in 1 .. Size(e)
      PROVE  \E k \in Keys(e) : e[k].at = i
  <2>1. CASE i \in 1 .. Size(d)
    <3>1. PICK k \in Keys(d) : d[k].at = i
      BY <2>1 DEF IsDict
    <3>2. e[k].at = i /\ k \in Keys(e)
      BY <3>1, <1>1, <1>5
    <3> QED
      BY <3>2
  <2>2. CASE i \notin 1 .. Size(d)
    <3>1. key \notin Keys(d) /\ i = Size(d) + 1
      BY <2>2, <1>2, <1>3
    <3> QED
      BY <3>1, <1>1, <1>5
  <2> QED
    BY <2>1, <2>2
<1>9. Keys(e) \in SUBSET K
  BY <1>1 DEF IsDict
<1> QED
  BY <1>1, <1>2, <1>6, <1>7, <1>8, <1>9 DEF IsDict

\* move_to_end keeps the dictionary's keys, size and values.
LEMMA MoveToEndIsDict ==
    ASSUME NEW K, NEW V, NEW d, IsDict(d, K, V), NEW key \in Keys(d)
    PROVE  /\ IsDict(MoveToEnd(d, key), K, V)
           /\ Keys(MoveToEnd(d, key)) = Keys(d)
           /\ Size(MoveToEnd(d, key)) = Size(d)
           /\ \A k \in Keys(d) : Get(MoveToEnd(d, key), k) = Get(d, k)
<1>1. key \in K /\ Get(d, key) \in V
  BY DEF IsDict, Get
<1>2. /\ IsDict(Delete(d, key), K, V)
      /\ Size(Delete(d, key)) = Size(d) - 1
      /\ key \notin Keys(Delete(d, key))
  BY DeleteIsDict, DeleteKeys
<1>3. Size(d) \in Nat
  BY SizeIsNat
<1>4. IsDict(MoveToEnd(d, key), K, V) /\ Size(MoveToEnd(d, key)) = Size(d)
  BY <1>1, <1>2, <1>3, PutIsDict DEF MoveToEnd
<1>5. Keys(MoveToEnd(d, key)) = Keys(d)
  BY DeleteKeys, PutKeys DEF MoveToEnd
<1>6. \A k \in Keys(d) : Get(MoveToEnd(d, key), k) = Get(d, k)
  BY DeleteKeys, PutKeys DEF MoveToEnd
<1> QED
  BY <1>4, <1>5, <1>6

\* popitem(last=False) on a dictionary that is not empty removes one key.
LEMMA PopOldestIsDict ==
    ASSUME NEW K, NEW V, NEW d, IsDict(d, K, V), Keys(d) # {}
    PROVE  IsDict(PopOldest(d), K, V) /\ Size(PopOldest(d)) = Size(d) - 1
BY OldestIsKey, DeleteIsDict DEF PopOldest

\* del keeps the order of the keys that stay.
LEMMA DeleteOrder ==
    ASSUME NEW K, NEW V, NEW d, IsDict(d, K, V), NEW key \in Keys(d),
           NEW j \in Keys(d) \ {key}, NEW k \in Keys(d) \ {key},
           Delete(d, key)[j].at < Delete(d, key)[k].at
    PROVE  d[j].at < d[k].at
<1>1. \A i \in {j, k} : Delete(d, key)[i].at =
          IF d[i].at > d[key].at THEN d[i].at - 1 ELSE d[i].at
  BY DEF Delete
<1>2. \A i \in {j, k, key} : d[i].at \in Nat
  BY SizeIsNat DEF IsDict
<1> QED
  BY <1>1, <1>2

\* An assignment to a new key leaves the others in place, before it.
LEMMA PutLast ==
    ASSUME NEW K, NEW V, NEW d, IsDict(d, K, V), NEW key, key \notin Keys(d), NEW value
    PROVE  \A k \in Keys(d) : /\ Put(d, key, value)[k] = d[k]
                              /\ d[k].at < Put(d, key, value)[key].at
<1>1. /\ Put(d, key, value)[key].at = Size(d) + 1
      /\ \A k \in Keys(d) : Put(d, key, value)[k] = d[k]
  BY DEF Put
<1>2. \A k \in Keys(d) : d[k].at \in 1 .. Size(d)
  BY DEF IsDict
<1> QED
  BY <1>1, <1>2, SizeIsNat

\* popitem(last=False) takes the key that is before all others.
LEMMA OldestIsFirst ==
    ASSUME NEW K, NEW V, NEW d, IsDict(d, K, V), NEW k \in Keys(d), k # Oldest(d)
    PROVE  d[Oldest(d)].at < d[k].at
<1>1. 1 \in 1 .. Size(d)
  BY SizeIsNat
<1>2. Oldest(d) \in Keys(d) /\ d[Oldest(d)].at = 1
  BY <1>1 DEF IsDict, Oldest
<1>3. d[k].at \in 1 .. Size(d) /\ d[k].at # 1
  BY <1>2 DEF IsDict
<1> QED
  BY <1>2, <1>3, SizeIsNat

\* As many keys come after a key as there are positions after its own.
LEMMA BehindSize ==
    ASSUME NEW K, NEW V, NEW d, IsDict(d, K, V), NEW k \in Keys(d)
    PROVE  /\ IsFiniteSet(Behind(d, k))
           /\ Cardinality(Behind(d, k)) = Size(d) - d[k].at
<1> DEFINE S == Behind(d, k)
           T == (d[k].at + 1) .. Size(d)
           f == [j \in S |-> d[j].at]
<1>1. /\ Size(d) \in Nat
      /\ \A j \in Keys(d) : d[j].at \in 1 .. Size(d) /\ d[j].at \in Nat
      /\ S \in SUBSET Keys(d)
  <2>1. \A j \in Keys(d) : d[j].at \in 1 .. Size(d)
    BY DEF IsDict
  <2> QED
    BY <2>1, SizeIsNat DEF Behind
<1>2. IsFiniteSet(S)
  BY <1>1, FS_Subset DEF IsDict
<1>3. f \in [S -> T]
  BY <1>1 DEF Behind
<1>4. f \in Injection(S, T)
  <2>1. \A i, j \in S : f[i] = f[j] => i = j
    BY <1>1 DEF IsDict
  <2> QED
    BY <1>3, <2>1 DEF Injection, IsInjective
<1>5. f \in Surjection(S, T)
  <2>1. ASSUME NEW i \in T
        PROVE  \E j \in S : f[j] = i
    <3>1. i \in 1 .. Size(d) /\ i > d[k].at
      BY <1>1
    <3>2. PICK j \in Keys(d) : d[j].at = i
      BY <3>1 DEF IsDict
    <3> QED
      BY <3>1, <3>2 DEF Behind
  <2> HIDE DEF f, S, T
  <2> QED
    BY <1>3, <2>1 DEF Surjection
<1>6. ExistsBijection(S, T)
  BY <1>4, <1>5 DEF ExistsBijection, Bijection
<1>7. Cardinality(T) = Cardinality(S)
  BY <1>2, <1>6, FS_Bijection
<1>8. Cardinality(T) = Size(d) - d[k].at
  <2>1. d[k].at + 1 \in Int /\ Size(d) \in Int
    BY <1>1
  <2>2. Cardinality(T) = IF d[k].at + 1 > Size(d) THEN 0 ELSE Size(d) - (d[k].at + 1) + 1
    BY <2>1, FS_Interval
  <2> QED
    BY <2>2, <1>1
<1> QED
  BY <1>2, <1>7, <1>8

\* del takes a key out of the order and leaves the rest of it as it was.
LEMMA DeleteBehind ==
    ASSUME NEW K, NEW V, NEW d, IsDict(d, K, V), NEW key \in Keys(d),
           NEW k \in Keys(d) \ {key}
    PROVE  Behind(Delete(d, key), k) = Behind(d, k) \ {key}
<1> DEFINE e == Delete(d, key)
<1>1. \A i \in Keys(d) : d[i].at \in Nat
  BY SizeIsNat DEF IsDict
<1>2. /\ Keys(e) = Keys(d) \ {key}
      /\ \A i \in Keys(e) : e[i].at = IF d[i].at > d[key].at THEN d[i].at - 1 ELSE d[i].at
  BY DEF Delete, Keys
<1>3. \A i \in Keys(d) \ {key} : d[i].at # d[key].at
  BY DEF IsDict
<1> HIDE DEF e
<1>4. \A j \in Keys(e) : e[j].at > e[k].at <=> d[j].at > d[k].at
  BY <1>1, <1>2, <1>3
<1> QED
  BY <1>2, <1>4 DEF Behind, e

\* An assignment adds a new key to the end of the order.
LEMMA PutNewBehind ==
    ASSUME NEW K, NEW V, NEW d, IsDict(d, K, V), NEW key, key \notin Keys(d), NEW value
    PROVE  /\ Behind(Put(d, key, value), key) = {}
           /\ \A k \in Keys(d) : Behind(Put(d, key, value), k) = Behind(d, k) \cup {key}
<1> DEFINE e == Put(d, key, value)
<1>1. Keys(e) = Keys(d) \cup {key}
  BY PutKeys
<1>2. \A k \in Keys(d) : e[k] = d[k] /\ d[k].at < e[key].at
  BY PutLast
<1>3. \A k \in Keys(d) : d[k].at \in Nat
  BY SizeIsNat DEF IsDict
<1>4. e[key].at = Size(d) + 1 /\ Size(d) \in Nat
  BY SizeIsNat DEF Put
<1> HIDE DEF e
<1>5. Behind(e, key) = {}
  BY <1>1, <1>2, <1>3, <1>4 DEF Behind
<1>6. ASSUME NEW k \in Keys(d)
      PROVE  Behind(e, k) = Behind(d, k) \cup {key}
  BY <1>1, <1>2, <1>3, <1>4 DEF Behind
<1> QED
  BY <1>5, <1>6 DEF e

\* An assignment to a known key leaves the order as it was.
LEMMA PutKnownBehind ==
    ASSUME NEW d, NEW key \in Keys(d), NEW value, NEW k \in Keys(d)
    PROVE  Behind(Put(d, key, value), k) = Behind(d, k)
<1>1. /\ Keys(Put(d, key, value)) = Keys(d)
      /\ \A j \in Keys(d) : Put(d, key, value)[j].at = d[j].at
  BY DEF Put, Keys
<1> QED
  BY <1>1 DEF Behind

\* move_to_end takes a key to the end of the order.
LEMMA MoveToEndBehind ==
    ASSUME NEW K, NEW V, NEW d, IsDict(d, K, V), NEW key \in Keys(d)
    PROVE  /\ Behind(MoveToEnd(d, key), key) = {}
           /\ \A k \in Keys(d) \ {key} :
                 Behind(MoveToEnd(d, key), k) = Behind(d, k) \cup {key}
<1> DEFINE less == Delete(d, key)
<1>1. IsDict(less, K, V) /\ Keys(less) = Keys(d) \ {key}
  BY DeleteIsDict, DeleteKeys
<1>2. \A k \in Keys(d) \ {key} : Behind(less, k) = Behind(d, k) \ {key}
  BY DeleteBehind
<1>3. MoveToEnd(d, key) = Put(less, key, Get(d, key))
  BY DEF MoveToEnd
<1> HIDE DEF less
<1>4. Behind(MoveToEnd(d, key), key) = {}
  BY <1>1, <1>3, PutNewBehind
<1>5. \A k \in Keys(less) : Behind(MoveToEnd(d, key), k) = Behind(less, k) \cup {key}
  BY <1>1, <1>3, PutNewBehind
<1> QED
  BY <1>1, <1>2, <1>4, <1>5

\* Remembering a key does so, and leaves a dictionary of at most max keys.
LEMMA TouchedRecency ==
    ASSUME NEW K, NEW V, NEW d, IsDict(d, K, V), NEW key \in K, NEW value \in V,
           NEW max \in Nat \ {0}, Size(d) <= max
    PROVE  LET e == Touched(d, key, value, max)
           IN  IsDict(e, K, V) /\ Size(e) <= max /\ MostRecent(e, d, key, max)
<1> USE DEF MostRecent
<1> DEFINE e == Touched(d, key, value, max)
           kept == {k \in Keys(d) : Cardinality(Behind(d, k) \cup {key}) < max}
<1>1. /\ Size(d) \in Nat
      /\ Size(d) = 0 <=> Keys(d) = {}
      /\ \A k \in Keys(d) : d[k].at \in 1 .. Size(d)
  <2>1. \A k \in Keys(d) : d[k].at \in 1 .. Size(d)
    BY DEF IsDict
  <2> QED
    BY <2>1, SizeIsNat
<1>2. \A k \in Keys(d) : /\ IsFiniteSet(Behind(d, k))
                         /\ Cardinality(Behind(d, k)) = Size(d) - d[k].at
                         /\ Cardinality(Behind(d, k) \cup {key}) =
                               IF key \in Behind(d, k) THEN Size(d) - d[k].at
                                                       ELSE Size(d) - d[k].at + 1
  <2> TAKE k \in Keys(d)
  <2>1. IsFiniteSet(Behind(d, k)) /\ Cardinality(Behind(d, k)) = Size(d) - d[k].at
    BY BehindSize
  <2> QED
    BY <2>1, FS_AddElement
<1>3. CASE key \in Keys(d)
  <2> DEFINE moved == MoveToEnd(d, key)
  <2>1. /\ IsDict(moved, K, V) /\ Keys(moved) = Keys(d) /\ Size(moved) = Size(d)
        /\ Behind(moved, key) = {}
        /\ \A k \in Keys(d) \ {key} : Behind(moved, k) = Behind(d, k) \cup {key}
    BY <1>3, MoveToEndIsDict, MoveToEndBehind
  <2>2. e = Put(moved, key, value)
    BY <1>3 DEF Touched
  <2>3. kept \cup {key} = Keys(d)
    <3>1. ASSUME NEW k \in Keys(d) \ {key}
          PROVE  Cardinality(Behind(d, k) \cup {key}) < max
      <4>1. CASE key \in Behind(d, k)
        BY <4>1, <1>1, <1>2
      <4>2. CASE key \notin Behind(d, k)
        <5>1. ~(d[key].at > d[k].at) /\ d[key].at # d[k].at
          BY <4>2, <1>3, <3>1 DEF Behind, IsDict
        <5>2. d[k].at > 1
          BY <5>1, <1>1, <1>3
        <5> QED
          BY <4>2, <5>2, <1>1, <1>2
      <4> QED
        BY <4>1, <4>2
    <3> HIDE DEF e
    <3> QED
      BY <3>1, <1>3
  <2> HIDE DEF moved, kept, e
  <2>4. IsDict(e, K, V) /\ Size(e) <= max /\ Keys(e) = Keys(d)
    <3>1. IsDict(e, K, V) /\ Size(e) = Size(moved)
      BY <2>1, <2>2, <1>3, PutIsDict
    <3>2. Keys(e) = Keys(moved) \cup {key}
      BY <2>2, PutKeys
    <3> QED
      BY <3>1, <3>2, <2>1, <1>3
  <2>5. \A k \in Keys(d) : Behind(e, k) = Behind(moved, k)
    BY <2>1, <2>2, <1>3, PutKnownBehind
  <2> QED
    BY <2>1, <2>3, <2>4, <2>5, <1>3 DEF kept, e
<1>4. CASE key \notin Keys(d) /\ Size(d) >= max
  <2> DEFINE old == Oldest(d)
             less == PopOldest(d)
  <2>1. Keys(d) # {} /\ old \in Keys(d) /\ Size(d) = max
    BY <1>1, <1>4, OldestIsKey
  <2>2. /\ IsDict(less, K, V) /\ Size(less) = Size(d) - 1
        /\ Keys(less) = Keys(d) \ {old}
    BY <2>1, DeleteIsDict, DeleteKeys DEF PopOldest
  <2>3. d[old].at = 1
    <3>1. 1 \in 1 .. Size(d)
      BY <1>1, <2>1
    <3> QED
      BY <3>1 DEF IsDict, Oldest
  <2>4. e = Put(less, key, value)
    BY <1>4 DEF Touched
  <2>5. \A k \in Keys(d) : key \notin Behind(d, k) /\ old \notin Behind(d, k)
    <3> TAKE k \in Keys(d)
    <3>1. ~(d[old].at > d[k].at)
      BY <1>1, <2>3
    <3>2. key \notin Behind(d, k)
      BY <1>4 DEF Behind
    <3>3. old \notin Behind(d, k)
      BY <3>1 DEF Behind
    <3> QED
      BY <3>2, <3>3
  <2>6. \A k \in Keys(less) : Behind(less, k) = Behind(d, k)
    BY <2>1, <2>2, <2>5, DeleteBehind DEF PopOldest
  <2>7. kept = Keys(less)
    <3>1. ASSUME NEW k \in Keys(d)
          PROVE  Cardinality(Behind(d, k) \cup {key}) < max <=> k # old
      <4>1. Cardinality(Behind(d, k) \cup {key}) = Size(d) - d[k].at + 1
        BY <2>5, <1>2
      <4>2. d[k].at # 1 <=> k # old
        BY <2>1, <2>3 DEF IsDict
      <4> QED
        BY <4>1, <4>2, <2>1, <1>1
    <3> HIDE DEF old, less
    <3> QED
      BY <3>1, <2>2
  <2> HIDE DEF old, less, kept, e
  <2>8. /\ IsDict(e, K, V) /\ Size(e) <= max
        /\ Keys(e) = Keys(less) \cup {key}
    <3>1. key \notin Keys(less)
      BY <2>2, <1>4
    <3>2. IsDict(e, K, V) /\ Size(e) = Size(less) + 1
      BY <3>1, <2>2, <2>4, PutIsDict
    <3> QED
      BY <3>2, <2>1, <2>2, <2>4, <1>1, PutKeys
  <2>9. /\ Behind(e, key) = {}
        /\ \A k \in Keys(less) : Behind(e, k) = Behind(less, k) \cup {key}
    BY <2>2, <2>4, <1>4, PutNewBehind
  <2> QED
    BY <2>6, <2>7, <2>8, <2>9 DEF kept, e
<1>5. CASE key \notin Keys(d) /\ ~(Size(d) >= max)
  <2>1. e = Put(d, key, value)
    BY <1>5 DEF Touched
  <2>2. kept = Keys(d)
    <3>1. ASSUME NEW k \in Keys(d)
          PROVE  Cardinality(Behind(d, k) \cup {key}) < max
      <4>1. key \notin Behind(d, k)
        BY <1>5 DEF Behind
      <4> QED
        BY <4>1, <1>1, <1>2, <1>5
    <3> HIDE DEF e
    <3> QED
      BY <3>1
  <2> HIDE DEF kept, e
  <2>3. /\ IsDict(e, K, V) /\ Size(e) <= max
        /\ Keys(e) = Keys(d) \cup {key}
    <3>1. IsDict(e, K, V) /\ Size(e) = Size(d) + 1
      BY <2>1, <1>5, PutIsDict
    <3> QED
      BY <3>1, <2>1, <1>1, <1>5, PutKeys
  <2>4. /\ Behind(e, key) = {}
        /\ \A k \in Keys(d) : Behind(e, k) = Behind(d, k) \cup {key}
    BY <2>1, <1>5, PutNewBehind
  <2> QED
    BY <2>2, <2>3, <2>4 DEF kept, e
<1> QED
  BY <1>3, <1>4, <1>5
=============================================================================
