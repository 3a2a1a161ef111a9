-------------------------- MODULE AuthServerProofs --------------------------
(***************************************************************************)
(* What verify_auth guarantees of one-time use, for every TTL, max_size,   *)
(* rate, set of clients and of nonces, and any number of restarts and      *)
(* clock settings.                                                         *)
(***************************************************************************)
EXTENDS AuthServer, ServerMemoryProofs

\* os.urandom(32) never draws a nonce twice.
DistinctNonces == \A c, d \in issued : c.nonce = d.nonce => c = d

\* The request between the two readings of the clock carries a challenge of
\* this very process, with the issue time the process signed.
Genuine ==
    handling # NoRequest =>
        SignChallenge(secret, handling.nonce, handling.issue_ts) \in issued

IInv ==
    /\ TypeOK
    /\ \A ip \in Keys(buckets) : Get(buckets, ip).last <= uptime
    /\ Size(spent) <= MaxSize
    /\ DistinctNonces
    /\ \A c \in issued : c.secret <= secret
    /\ \A n \in used : \E c \in issued : c.nonce = n
    /\ Genuine
    /\ RecordsWhatWasAccepted
    /\ ReuseOnlyIfForgotten

\* The bounds are numbers.
LEMMA BoundsAreNat ==
    /\ TTL \in Nat /\ MaxWall \in Nat /\ MaxUptime \in Nat
    /\ MaxJumps \in Nat /\ MaxRestarts \in Nat
BY AuthServerAssumption

\* What the count of acceptances says of the nonces used, and used again.
LEMMA UsedKept ==
    ASSUME UNCHANGED times
    PROVE  used' = used /\ reused' = reused
BY DEF used, reused

LEMMA UsedCounts ==
    ASSUME times \in [Nonces -> Nat], NEW n \in Nonces,
           times' = [times EXCEPT ![n] = @ + 1]
    PROVE  /\ times' \in [Nonces -> Nat]
           /\ used' = used \cup {n}
           /\ reused' \subseteq reused \cup {n}
           /\ n \notin used => reused' = reused
<1>1. /\ times[n] \in Nat /\ times'[n] = times[n] + 1
      /\ \A m \in Nonces \ {n} : times'[m] = times[m]
  OBVIOUS
<1> QED
  BY <1>1 DEF used, reused

\* The initial states.
LEMMA InitInv == Init => IInv
<1> SUFFICES ASSUME Init PROVE IInv
  OBVIOUS
<1>1. /\ IsDict(spent, Nonces, Nat) /\ Keys(spent) = {} /\ Size(spent) = 0
      /\ IsDict(buckets, Ips, Bucket) /\ Keys(buckets) = {}
  BY EmptyIsDict DEF Init
<1>0. used = {} /\ reused = {}
  BY DEF Init, used, reused
<1>2. TypeOK
  BY <1>0, <1>1, BoundsAreNat DEF Init, TypeOK, IssueTimes, Secrets
<1>3. RecordsWhatWasAccepted
  BY <1>0, <1>1 DEF Init, RecordsWhatWasAccepted
<1> QED
  BY <1>0, <1>1, <1>2, <1>3, MaxSizeAssumption
  DEF Init, IInv, DistinctNonces, Genuine, ReuseOnlyIfForgotten

\* Metering keeps the buckets well-formed.
LEMMA MeterInv ==
    ASSUME IInv, NEW ip \in Ips, Meter(ip)
    PROVE  /\ IsDict(buckets', Ips, Bucket)
           /\ \A k \in Keys(buckets') : Get(buckets', k).last <= uptime
<1>1. Bucket = BucketUntil(MaxUptime)
  BY DEF Bucket, BucketUntil
<1>2. uptime \in 0 .. MaxUptime /\ IsDict(buckets, Ips, BucketUntil(MaxUptime))
  BY <1>1 DEF IInv, TypeOK
<1>3. \A k \in Keys(buckets) : Get(buckets, k).last <= uptime
  BY DEF IInv
<1> QED
  BY <1>1, <1>2, <1>3, BoundsAreNat, AfterAllowIsDict DEF Meter

\* GET /challenge: a new challenge is of a nonce no one has used.
LEMMA GetChallengeInv ==
    ASSUME IInv, NEW ip \in Ips, GetChallenge(ip)
    PROVE  IInv'
<1>1. /\ IsDict(buckets', Ips, Bucket)
      /\ \A k \in Keys(buckets') : Get(buckets', k).last <= uptime
  BY MeterInv DEF GetChallenge
<1>2. UNCHANGED <<wall, uptime, jumps, secret, spent, handling, times, used, reused, forgotten>>
  BY UsedKept DEF GetChallenge, clocks, history
<1>3. CASE UNCHANGED issued
  BY <1>1, <1>2, <1>3
  DEF IInv, TypeOK, DistinctNonces, Genuine, RecordsWhatWasAccepted, ReuseOnlyIfForgotten
<1>4. CASE ~UNCHANGED issued
  <2>1. PICK nonce \in Nonces \ {c.nonce : c \in issued} :
                issued' = issued \cup {SignChallenge(secret, nonce, wall)}
    BY <1>4 DEF GetChallenge
  <2> DEFINE new == SignChallenge(secret, nonce, wall)
  <2>2. /\ new.nonce = nonce /\ new.secret = secret
        /\ new \in Signature
        /\ secret <= secret
    BY BoundsAreNat DEF SignChallenge, Signature, IInv, TypeOK, Secrets, IssueTimes
  <2>3. \A c \in issued : c.nonce # nonce
    BY <2>1
  <2>4. nonce \notin used
    BY <2>3 DEF IInv
  <2> HIDE DEF new
  <2>5. issued' = issued \cup {new}
    BY <2>1 DEF new
  <2>6. TypeOK'
    BY <1>1, <1>2, <2>2, <2>5 DEF IInv, TypeOK
  <2>7. DistinctNonces'
    BY <2>2, <2>3, <2>5 DEF IInv, DistinctNonces
  <2>8. \A c \in issued' : c.secret <= secret'
    BY <1>2, <2>2, <2>5 DEF IInv
  <2>9. \A n \in used' : \E c \in issued' : c.nonce = n
    BY <1>2, <2>5 DEF IInv
  <2>10. Genuine'
    BY <1>2, <2>5 DEF IInv, Genuine
  <2>11. RecordsWhatWasAccepted'
    BY <1>2, <2>2, <2>4, <2>5 DEF IInv, RecordsWhatWasAccepted
  <2> QED
    BY <1>1, <1>2, <2>6, <2>7, <2>8, <2>9, <2>10, <2>11 DEF IInv, ReuseOnlyIfForgotten
<1> QED
  BY <1>3, <1>4

\* What a client can send is well-typed, and signed by some process.
LEMMA RequestsTyped ==
    ASSUME IInv, NEW request \in RequestsFrom(issued)
    PROVE  request \in Request /\ request.sig \in issued
<1>1. PICK p \in Paths, q \in Paths, d \in {0, 1}, k \in ClientKeys, c \in issued :
        request = [path |-> p, nonce |-> c.nonce, issue_ts |-> c.issue_ts + d, sig |-> c,
                   proof |-> ComputeProof(k, q, c.nonce, c.issue_ts + d)]
  BY DEF RequestsFrom
<1>2. c \in Signature
  BY DEF IInv, TypeOK
<1>3. c.nonce \in Nonces /\ c.issue_ts + d \in Nat
  BY <1>2, BoundsAreNat DEF Signature, IssueTimes
<1>4. ComputeProof(k, q, c.nonce, c.issue_ts + d) \in Proof
  BY <1>3 DEF ComputeProof, Proof
<1> QED
  BY <1>1, <1>2, <1>3, <1>4 DEF Request

\* verify_auth, steps a to d.
LEMMA BeginAuthInv ==
    ASSUME IInv, NEW ip \in Ips, NEW request \in RequestsFrom(issued) \cup {Unparsable},
           BeginAuth(ip, request)
    PROVE  IInv'
<1>1. /\ IsDict(buckets', Ips, Bucket)
      /\ \A k \in Keys(buckets') : Get(buckets', k).last <= uptime
  BY MeterInv DEF BeginAuth
<1>2. UNCHANGED <<wall, uptime, jumps, secret, issued, spent, times, used, reused, forgotten>>
  BY UsedKept DEF BeginAuth, clocks, history
<1>3. handling' \in Request \cup {NoRequest} /\ Genuine'
  <2>1. CASE PassesChallenge(request) /\ handling' = request
    <3>1. request \in Request /\ request.sig \in issued
      BY <2>1, RequestsTyped DEF PassesChallenge
    <3>2. request.sig = SignChallenge(secret, request.nonce, request.issue_ts)
      BY <2>1 DEF PassesChallenge, VerifyChallenge
    <3> QED
      BY <1>2, <2>1, <3>1, <3>2 DEF Genuine, SignChallenge
  <2>2. CASE UNCHANGED handling
    BY <1>2, <2>2 DEF IInv, TypeOK, Genuine, SignChallenge
  <2> QED
    BY <2>1, <2>2 DEF BeginAuth
<1> QED
  BY <1>1, <1>2, <1>3
  DEF IInv, TypeOK, DistinctNonces, RecordsWhatWasAccepted, ReuseOnlyIfForgotten

\* contains(nonce) deletes the nonce's own record at most, and only when the
\* second reading of the clock is past the challenge's last second.
LEMMA CheckDrops ==
    ASSUME IInv, handling # NoRequest, NEW n \in Keys(spent) \ Keys(AfterCheck(handling))
    PROVE  n = handling.nonce /\ wall > handling.issue_ts + TTL
<1>1. n = handling.nonce /\ wall > Get(spent, n)
  BY AfterContainsValues DEF AfterCheck, Expired
<1>2. PICK c \in issued : c.nonce = n /\ c.secret = secret /\ Get(spent, n) = c.issue_ts + TTL
  BY DEF IInv, RecordsWhatWasAccepted
<1>3. c.issue_ts = handling.issue_ts
  <2>1. SignChallenge(secret, handling.nonce, handling.issue_ts) \in issued
    BY DEF IInv, Genuine
  <2>2. c = SignChallenge(secret, handling.nonce, handling.issue_ts)
    BY <1>1, <1>2, <2>1 DEF IInv, DistinctNonces, SignChallenge
  <2> QED
    BY <2>2 DEF SignChallenge
<1> QED
  BY <1>1, <1>2, <1>3

\* verify_auth, steps e to g, keeps the records those of the accepted nonces.
LEMMA FinishAuthRecords ==
    ASSUME IInv, FinishAuth
    PROVE  RecordsWhatWasAccepted' /\ ReuseOnlyIfForgotten'
<1> DEFINE n == handling.nonce
           expiry == handling.issue_ts + TTL
           checked == AfterCheck(handling)
           c0 == SignChallenge(secret, handling.nonce, handling.issue_ts)
<1>1. /\ handling # NoRequest
      /\ issued' = issued /\ secret' = secret
      /\ forgotten' = forgotten \cup Dropped(handling)
  BY DEF FinishAuth
<1>2. /\ c0 \in issued /\ c0.nonce = n /\ c0.secret = secret /\ c0.issue_ts + TTL = expiry
  BY <1>1 DEF IInv, Genuine, SignChallenge
<1>3. /\ Keys(checked) \subseteq Keys(spent)
      /\ \A k \in Keys(checked) : Get(checked, k) = Get(spent, k)
      /\ ~Contains(spent, n, wall) => n \notin Keys(checked)
  BY AfterContainsValues DEF AfterCheck
<1>4. /\ \A k \in Keys(spent) \ Keys(checked) : k \in forgotten'
      /\ \A k \in Keys(spent) \ Keys(spent') : k \in forgotten'
      /\ forgotten \subseteq forgotten'
  BY <1>1 DEF Dropped
<1>5. CASE Accept(handling)
  <2>1. /\ spent' = Add(checked, n, expiry)
        /\ used' = used \cup {n}
        /\ reused' \subseteq reused \cup {n}
        /\ n \notin used => reused' = reused
        /\ ~Contains(spent, n, wall)
    <3>1. times' = [times EXCEPT ![n] = @ + 1] /\ times \in [Nonces -> Nat] /\ n \in Nonces
      BY <1>1, <1>5 DEF Accept, IInv, TypeOK, Request
    <3>2. /\ used' = used \cup {n}
          /\ reused' \subseteq reused \cup {n}
          /\ n \notin used => reused' = reused
      BY <3>1, UsedCounts
    <3> QED
      BY <1>5, <3>2 DEF Accept
  <2>2. /\ n \in Keys(spent') /\ Get(spent', n) = expiry
        /\ \A k \in Keys(spent') \ {n} : k \in Keys(checked) /\ Get(spent', k) = Get(checked, k)
    BY <2>1, AddValues
  <2> HIDE DEF n, expiry, checked, c0
  <2>3. ASSUME NEW k \in Keys(spent')
        PROVE  k \in used' /\ \E c \in issued' : /\ c.nonce = k /\ c.secret = secret'
                                                 /\ Get(spent', k) = c.issue_ts + TTL
    <3>1. CASE k = n
      BY <3>1, <1>1, <1>2, <2>1, <2>2
    <3>2. CASE k # n
      <4>1. k \in Keys(spent) /\ Get(spent', k) = Get(spent, k)
        BY <3>2, <1>3, <2>2
      <4> QED
        BY <4>1, <1>1, <2>1 DEF IInv, RecordsWhatWasAccepted
    <3> QED
      BY <3>1, <3>2
  <2>4. ASSUME NEW c \in issued', c.secret = secret', c.nonce \in used' \ forgotten'
        PROVE  c.nonce \in Keys(spent')
    <3>1. CASE c.nonce = n
      BY <3>1, <2>2
    <3>2. CASE c.nonce # n
      <4>1. c.nonce \in Keys(spent)
        BY <3>2, <2>4, <2>1, <1>1, <1>4 DEF IInv, RecordsWhatWasAccepted
      <4> QED
        BY <4>1, <2>4, <1>4
    <3> QED
      BY <3>1, <3>2
  <2>5. reused' \subseteq forgotten'
    <3>1. n \in used => n \in forgotten'
      <4> SUFFICES ASSUME n \in used, n \notin forgotten PROVE n \in forgotten'
        BY <1>4
      <4>1. n \in Keys(spent)
        BY <1>2 DEF IInv, RecordsWhatWasAccepted
      <4> QED
        BY <4>1, <2>1, <1>3, <1>4
    <3> QED
      BY <3>1, <2>1, <1>4 DEF IInv, ReuseOnlyIfForgotten
  <2> QED
    BY <2>3, <2>4, <2>5 DEF RecordsWhatWasAccepted, ReuseOnlyIfForgotten
<1>6. CASE Refuse(handling)
  <2>1. spent' = checked /\ used' = used /\ reused' = reused
    BY <1>6, UsedKept DEF Refuse
  <2> HIDE DEF n, expiry, checked, c0
  <2>2. ASSUME NEW k \in Keys(spent')
        PROVE  k \in used' /\ \E c \in issued' : /\ c.nonce = k /\ c.secret = secret'
                                                 /\ Get(spent', k) = c.issue_ts + TTL
    <3>1. k \in Keys(spent) /\ Get(spent', k) = Get(spent, k)
      BY <2>1, <1>3
    <3> QED
      BY <3>1, <2>1, <1>1 DEF IInv, RecordsWhatWasAccepted
  <2>3. ASSUME NEW c \in issued', c.secret = secret', c.nonce \in used' \ forgotten'
        PROVE  c.nonce \in Keys(spent')
    <3>1. c.nonce \in Keys(spent)
      BY <2>3, <2>1, <1>1, <1>4 DEF IInv, RecordsWhatWasAccepted
    <3> QED
      BY <3>1, <2>3, <1>4
  <2>4. reused' \subseteq forgotten'
    BY <2>1, <1>4 DEF IInv, ReuseOnlyIfForgotten
  <2> QED
    BY <2>2, <2>3, <2>4 DEF RecordsWhatWasAccepted, ReuseOnlyIfForgotten
<1> QED
  BY <1>5, <1>6 DEF FinishAuth

\* verify_auth, steps e to g.
LEMMA FinishAuthInv == ASSUME IInv, FinishAuth PROVE IInv'
<1> DEFINE n == handling.nonce
           expiry == handling.issue_ts + TTL
           checked == AfterCheck(handling)
<1>1. /\ handling \in Request /\ handling' = NoRequest
      /\ UNCHANGED <<wall, uptime, jumps, secret, issued, buckets>>
      /\ forgotten' = forgotten \cup Dropped(handling)
  BY DEF FinishAuth, clocks, IInv, TypeOK
<1>2. n \in Nonces /\ expiry \in Nat
  BY <1>1, BoundsAreNat DEF Request
<1>3. /\ IsDict(checked, Nonces, Nat)
      /\ Size(checked) <= MaxSize
  <2>1. IsDict(spent, Nonces, Nat) /\ Size(spent) <= MaxSize
    BY DEF IInv, TypeOK
  <2>2. IsDict(checked, Nonces, Nat) /\ Size(checked) <= Size(spent)
    BY <2>1, AfterContainsIsDict DEF AfterCheck
  <2>3. Size(checked) \in Nat /\ Size(spent) \in Nat /\ MaxSize \in Nat
    BY <2>1, <2>2, SizeIsNat, MaxSizeAssumption
  <2> HIDE DEF checked
  <2> QED
    BY <2>1, <2>2, <2>3
<1>4. /\ IsDict(spent', Nonces, Nat) /\ Size(spent') <= MaxSize
      /\ times' \in [Nonces -> Nat]
      /\ used' \in {used, used \cup {n}}
  <2>0. times \in [Nonces -> Nat]
    BY DEF IInv, TypeOK
  <2>1. CASE Accept(handling)
    <3>1. times' = [times EXCEPT ![n] = @ + 1]
      BY <2>1 DEF Accept
    <3>2. times' \in [Nonces -> Nat] /\ used' = used \cup {n}
      BY <1>2, <2>0, <3>1, UsedCounts
    <3> QED
      BY <2>1, <3>2, <1>2, <1>3, AddIsDict DEF Accept
  <2>2. CASE Refuse(handling)
    BY <2>0, <2>2, <1>3, UsedKept DEF Refuse
  <2> QED
    BY <2>1, <2>2 DEF FinishAuth
<1>5. Dropped(handling) \subseteq used
  BY DEF Dropped, IInv, RecordsWhatWasAccepted
<1>6. \E c \in issued : c.nonce = n
  BY DEF IInv, Genuine, SignChallenge, FinishAuth
<1> HIDE DEF n, expiry, checked
<1>7. TypeOK'
  BY <1>1, <1>2, <1>4, <1>5 DEF IInv, TypeOK
<1>8. \A m \in used' : \E c \in issued' : c.nonce = m
  BY <1>1, <1>4, <1>6 DEF IInv
<1>9. RecordsWhatWasAccepted' /\ ReuseOnlyIfForgotten'
  BY FinishAuthRecords
<1> QED
  BY <1>1, <1>4, <1>7, <1>8, <1>9 DEF IInv, DistinctNonces, Genuine

\* A second passes, or the wall clock is set.
LEMMA ClockInv == ASSUME IInv, Tick \/ SetClock PROVE IInv'
<1>1. UNCHANGED <<secret, issued, spent, buckets, handling, times, used, reused, forgotten>>
  BY UsedKept DEF Tick, SetClock, history
<1>2. /\ wall' \in IssueTimes /\ jumps' \in 0 .. MaxJumps
      /\ uptime' \in 0 .. MaxUptime /\ uptime' >= uptime /\ uptime \in Nat
  BY BoundsAreNat DEF IInv, TypeOK, Tick, SetClock, IssueTimes
<1>3. ASSUME NEW ip \in Keys(buckets)
      PROVE  Get(buckets, ip).last <= uptime'
  <2>1. Get(buckets, ip).last \in 0 .. MaxUptime /\ Get(buckets, ip).last <= uptime
    BY DEF IInv, TypeOK, IsDict, Get, Bucket
  <2> QED
    BY <2>1, <1>2, BoundsAreNat
<1> QED
  BY <1>1, <1>2, <1>3
  DEF IInv, TypeOK, DistinctNonces, Genuine, SignChallenge, RecordsWhatWasAccepted,
      ReuseOnlyIfForgotten

\* A restart forgets, but no challenge is good under the new secret.
LEMMA RestartInv == ASSUME IInv, Restart PROVE IInv'
<1>1. /\ UNCHANGED <<wall, jumps, issued, times, used, reused, forgotten>>
      /\ spent' = EmptyDict /\ buckets' = EmptyDict /\ handling' = NoRequest
      /\ uptime' = 0
  BY UsedKept DEF Restart, history
<1>2. /\ secret \in Nat /\ secret' = secret + 1 /\ secret' \in Secrets
  BY BoundsAreNat DEF Restart, IInv, TypeOK, Secrets
<1>3. /\ IsDict(spent', Nonces, Nat) /\ Keys(spent') = {} /\ Size(spent') = 0
      /\ IsDict(buckets', Ips, Bucket) /\ Keys(buckets') = {}
  BY <1>1, EmptyIsDict
<1>4. \A c \in issued : c.secret \in Nat /\ c.secret <= secret' /\ c.secret # secret'
  <2>1. \A c \in issued : c.secret \in Nat /\ c.secret <= secret
    BY BoundsAreNat DEF IInv, TypeOK, Signature, Secrets
  <2> QED
    BY <2>1, <1>2
<1>5. TypeOK'
  BY <1>1, <1>2, <1>3, BoundsAreNat DEF IInv, TypeOK
<1>6. RecordsWhatWasAccepted'
  BY <1>1, <1>3, <1>4 DEF RecordsWhatWasAccepted
<1> QED
  BY <1>1, <1>3, <1>4, <1>5, <1>6, MaxSizeAssumption
  DEF IInv, DistinctNonces, Genuine, ReuseOnlyIfForgotten

\* The inductive invariant.
THEOREM AuthInvariant == Spec => []IInv
<1>1. Init => IInv
  BY InitInv
<1>2. IInv /\ [Next]_vars => IInv'
  <2> SUFFICES ASSUME IInv, [Next]_vars PROVE IInv'
    OBVIOUS
  <2>1. CASE \E ip \in Ips : GetChallenge(ip)
    BY <2>1, GetChallengeInv
  <2>2. CASE \E ip \in Ips, request \in RequestsFrom(issued) \cup {Unparsable} :
                  BeginAuth(ip, request)
    BY <2>2, BeginAuthInv
  <2>3. CASE FinishAuth
    BY <2>3, FinishAuthInv
  <2>4. CASE Tick \/ SetClock
    BY <2>4, ClockInv
  <2>5. CASE Restart
    BY <2>5, RestartInv
  <2>6. CASE UNCHANGED vars
    BY <2>6, UsedKept
    DEF vars, clocks, history, IInv, TypeOK, DistinctNonces, Genuine, SignChallenge,
        RecordsWhatWasAccepted, ReuseOnlyIfForgotten
  <2> QED
    BY <2>1, <2>2, <2>3, <2>4, <2>5, <2>6 DEF Next
<1> QED
  BY <1>1, <1>2, PTL DEF Spec

\* The type invariant, which holds at all times.
THEOREM AuthTypeOK == Spec => []TypeOK
<1>1. IInv => TypeOK
  BY DEF IInv
<1> QED
  BY <1>1, AuthInvariant, PTL

\* verify_auth accepts a nonce again only after the running process dropped
\* its record: restarts, both endpoints, delayed and duplicated requests and
\* a clock set back are covered, whatever the sizes.
THEOREM ReuseNeedsForgetting == Spec => []ReuseOnlyIfForgotten
<1>1. IInv => ReuseOnlyIfForgotten
  BY DEF IInv
<1> QED
  BY <1>1, AuthInvariant, PTL

\* The spent set holds the accepted nonces of the present secret that were
\* not dropped, and no others.
THEOREM SpentIsAccepted == Spec => []RecordsWhatWasAccepted
<1>1. IInv => RecordsWhatWasAccepted
  BY DEF IInv
<1> QED
  BY <1>1, AuthInvariant, PTL

\* A record other than the one being checked is dropped only from a full set,
\* to make room for a nonce that has none, and it is the oldest.
LEMMA EvictsOldest ==
    ASSUME IInv, FinishAuth, NEW o \in Keys(AfterCheck(handling)), o \notin Keys(spent')
    PROVE  /\ handling.nonce \notin Keys(spent)
           /\ o \in Keys(spent)
           /\ o = Oldest(spent)
           /\ Size(spent) >= MaxSize
<1> DEFINE n == handling.nonce
           checked == AfterCheck(handling)
<1>1. spent' = Add(checked, n, handling.issue_ts + TTL) /\ ~Contains(spent, n, wall)
  BY DEF FinishAuth, Accept, Refuse
<1>2. Size(checked) >= MaxSize /\ o = Oldest(checked)
  BY <1>1, AddValues
<1>3. n \notin Keys(spent)
  <2> SUFFICES ASSUME n \in Keys(spent) PROVE FALSE
    OBVIOUS
  <2>1. checked = Delete(spent, n)
    BY <1>1 DEF AfterCheck, AfterContains, Contains
  <2>2. IsDict(spent, Nonces, Nat) /\ Size(spent) <= MaxSize
    BY DEF IInv, TypeOK
  <2>3. Size(checked) = Size(spent) - 1 /\ Size(spent) \in Nat
    BY <2>1, <2>2, DeleteIsDict, SizeIsNat
  <2> HIDE DEF checked
  <2> QED
    BY <1>2, <2>2, <2>3, MaxSizeAssumption
<1>4. checked = spent
  BY <1>3 DEF AfterCheck, AfterContains
<1> QED
  BY <1>2, <1>3, <1>4

\* The ways in which a running process drops a record are the two named.
THEOREM RecordsAreKept == Spec => DropsOnlyOldestOrEnded
<1> DEFINE Kept == \A n \in Keys(spent) :
              (n \notin Keys(spent') \/ n \in forgotten' \ forgotten) =>
                \/ Size(spent) >= MaxSize /\ n = Oldest(spent)
                \/ handling # NoRequest /\ n = handling.nonce
                     /\ wall > handling.issue_ts + TTL
                \/ secret' # secret
<1>1. IInv /\ [Next]_vars => [Kept]_vars
  <2> SUFFICES ASSUME IInv, Next, NEW n \in Keys(spent),
                      n \notin Keys(spent') \/ n \in forgotten' \ forgotten
               PROVE  \/ Size(spent) >= MaxSize /\ n = Oldest(spent)
                      \/ handling # NoRequest /\ n = handling.nonce
                           /\ wall > handling.issue_ts + TTL
                      \/ secret' # secret
    BY Zenon
  <2>1. CASE FinishAuth
    <3> DEFINE checked == AfterCheck(handling)
    <3>1. handling # NoRequest /\ forgotten' = forgotten \cup Dropped(handling)
      BY <2>1 DEF FinishAuth
    <3>2. n \notin Keys(checked) \/ n \notin Keys(spent')
      BY <3>1 DEF Dropped
    <3>3. CASE n \notin Keys(checked)
      BY <3>1, <3>3, CheckDrops
    <3>4. CASE n \in Keys(checked) /\ n \notin Keys(spent')
      BY <2>1, <3>4, EvictsOldest
    <3> QED
      BY <3>2, <3>3, <3>4
  <2>2. CASE Restart
    <3>1. secret \in Nat /\ secret' = secret + 1
      BY <2>2, BoundsAreNat DEF Restart, IInv, TypeOK, Secrets
    <3> QED
      BY <3>1
  <2>3. CASE \/ \E ip \in Ips : GetChallenge(ip)
             \/ \E ip \in Ips, request \in RequestsFrom(issued) \cup {Unparsable} :
                  BeginAuth(ip, request)
             \/ Tick
             \/ SetClock
    <3>1. spent' = spent /\ forgotten' = forgotten
      BY <2>3 DEF GetChallenge, BeginAuth, Tick, SetClock, history
    <3> QED
      BY <3>1
  <2> QED
    BY <2>1, <2>2, <2>3 DEF Next
<1> QED
  BY <1>1, AuthInvariant, PTL DEF Spec, DropsOnlyOldestOrEnded

-----------------------------------------------------------------------------
\* What Tickets sees: the nonces of the running process's challenges, and of
\* those that are not over.
Good == {c.nonce : c \in Current}

Live == {c.nonce : c \in {d \in Current : wall <= d.issue_ts + TTL}}

\* contains(nonce), then add(nonce): what it leaves is a record for the nonce;
\* at most one other record makes room for it, and then the nonce had none and
\* the set was full.
LEMMA AcceptKeys ==
    ASSUME IInv, FinishAuth, Accept(handling)
    PROVE  LET n == handling.nonce
               K == Keys(spent)
           IN  \/ Keys(spent') = K \cup {n}
               \/ /\ n \notin K /\ Size(spent) >= MaxSize
                  /\ \E o \in K : Keys(spent') = (K \ {o}) \cup {n}
<1> DEFINE n == handling.nonce
           checked == AfterCheck(handling)
<1>1. spent' = Add(checked, n, handling.issue_ts + TTL)
  BY DEF Accept
<1>2. n \in Keys(spent') /\ \A k \in Keys(spent') \ {n} : k \in Keys(checked)
  BY <1>1, AddValues
<1>3. /\ Keys(checked) \subseteq Keys(spent)
      /\ \A k \in Keys(spent) \ Keys(checked) : k = n
  BY AfterContainsValues DEF AfterCheck
<1>4. \A o \in Keys(checked) \ Keys(spent') :
          n \notin Keys(spent) /\ o \in Keys(spent) /\ o = Oldest(spent) /\ Size(spent) >= MaxSize
  BY EvictsOldest
<1> HIDE DEF n, checked
<1>5. CASE Keys(checked) \subseteq Keys(spent')
  <2>1. Keys(spent') = Keys(spent) \cup {n}
    BY <1>2, <1>3, <1>5
  <2> QED
    BY <2>1 DEF n
<1>6. CASE ~(Keys(checked) \subseteq Keys(spent'))
  <2>1. PICK o \in Keys(checked) : o \notin Keys(spent')
    BY <1>6
  <2>2. /\ n \notin Keys(spent) /\ o \in Keys(spent) /\ Size(spent) >= MaxSize
        /\ \A k \in Keys(checked) \ {o} : k \in Keys(spent')
    BY <1>4, <2>1
  <2>3. Keys(spent') = (Keys(spent) \ {o}) \cup {n}
    BY <1>2, <1>3, <2>1, <2>2
  <2> QED
    BY <2>2, <2>3 DEF n
<1> QED
  BY <1>5, <1>6

\* contains(nonce) finds a record expired only when the time of its challenge,
\* the one presented, is over.
LEMMA ExpiredIsOver ==
    ASSUME IInv, FinishAuth, handling.nonce \in Keys(spent),
           ~Contains(spent, handling.nonce, wall)
    PROVE  handling.nonce \notin Live
<1> DEFINE n == handling.nonce
<1>1. wall > Get(spent, n)
  BY DEF Contains, Expired
<1>2. PICK c \in issued : c.nonce = n /\ c.secret = secret /\ Get(spent, n) = c.issue_ts + TTL
  BY DEF IInv, RecordsWhatWasAccepted
<1>3. \A d \in issued : d.nonce = n => d = c
  BY <1>2 DEF IInv, DistinctNonces
<1>4. wall \in Nat /\ c.issue_ts \in Nat /\ TTL \in Nat
  BY BoundsAreNat DEF IInv, TypeOK, IssueTimes, Signature
<1>5. ~(wall <= c.issue_ts + TTL)
  BY <1>1, <1>2, <1>4
<1> QED
  BY <1>3, <1>5 DEF Live, Current

\* Every record is of a challenge the running process handed out.
LEMMA RecordsAreGood == IInv => Keys(spent) \subseteq Good
BY DEF IInv, RecordsWhatWasAccepted, Good, Current

\* GET /challenge hands out one more challenge, or none.
LEMMA GetChallengeIssues ==
    ASSUME IInv, NEW ip \in Ips, GetChallenge(ip)
    PROVE  Ledger!Issue \/ UNCHANGED Ledger!vars
<1>1. spent' = spent /\ secret' = secret /\ wall' = wall /\ times' = times
  BY DEF GetChallenge, clocks, history
<1>2. CASE UNCHANGED issued
  BY <1>1, <1>2 DEF Ledger!vars, Current
<1>3. CASE ~UNCHANGED issued
  <2>1. PICK nonce \in Nonces \ {c.nonce : c \in issued} :
                issued' = issued \cup {SignChallenge(secret, nonce, wall)}
    BY <1>3 DEF GetChallenge
  <2>2. nonce \in Nonces \ Good /\ times[nonce] = 0
    <3>1. nonce \notin Good
      BY <2>1 DEF Good, Current
    <3>2. nonce \notin used
      BY <2>1 DEF IInv
    <3>3. times[nonce] \in Nat
      BY <2>1 DEF IInv, TypeOK
    <3> QED
      BY <2>1, <3>1, <3>2, <3>3 DEF used
  <2> DEFINE new == SignChallenge(secret, nonce, wall)
  <2>3. new.nonce = nonce /\ new.secret = secret /\ new.issue_ts = wall
    BY DEF SignChallenge
  <2>4. wall \in Nat /\ TTL \in Nat
    BY BoundsAreNat DEF IInv, TypeOK, IssueTimes
  <2> HIDE DEF new
  <2>5. Current' = Current \cup {new}
    BY <1>1, <2>1, <2>3 DEF Current, new
  <2>6. Good' = Good \cup {nonce}
    BY <2>3, <2>5 DEF Good
  <2>7. Live' = Live \cup {nonce}
    <3>1. wall <= new.issue_ts + TTL
      BY <2>3, <2>4
    <3> QED
      BY <1>1, <2>3, <2>5, <3>1 DEF Live
  <2> QED
    BY <1>1, <2>2, <2>6, <2>7 DEF Ledger!Issue, Good, Live
<1> QED
  BY <1>2, <1>3

\* verify_auth lets a request through with a good challenge that is not on
\* record or is over; or it drops the record of one that is over; or it changes
\* nothing.
LEMMA FinishAuthTakes ==
    ASSUME IInv, FinishAuth
    PROVE  \/ \E n \in Nonces : Ledger!Take(n)
           \/ Ledger!Forget
           \/ UNCHANGED Ledger!vars
<1> DEFINE n == handling.nonce
<1>1. handling # NoRequest /\ issued' = issued /\ secret' = secret /\ wall' = wall
  BY DEF FinishAuth, clocks
<1>2. Good' = Good /\ Live' = Live /\ Current' = Current
  BY <1>1 DEF Good, Live, Current
<1>3. n \in Good /\ n \in Nonces
  BY <1>1 DEF IInv, TypeOK, Request, Genuine, SignChallenge, Good, Current
<1>4. CASE Accept(handling)
  <2>1. \/ Keys(spent') = Keys(spent) \cup {n}
        \/ /\ n \notin Keys(spent) /\ Size(spent) >= MaxSize
           /\ \E o \in Keys(spent) : Keys(spent') = (Keys(spent) \ {o}) \cup {n}
    BY <1>4, AcceptKeys
  <2>2. n \notin Keys(spent) \cap Live
    BY <1>4, ExpiredIsOver DEF Accept
  <2>3. times' = [times EXCEPT ![n] = @ + 1]
    BY <1>4 DEF Accept
  <2>4. Size(spent) = Ledger!Cardinality(Keys(spent))
    BY Zenon DEF Size, Ledger!Cardinality, Cardinality
  <2> HIDE DEF n
  <2>5. Ledger!Take(n)
    BY <2>1, <2>2, <2>3, <2>4, <1>2, <1>3 DEF Ledger!Take, Good, Live
  <2> QED
    BY <1>3, <2>5
<1>5. CASE Refuse(handling)
  <2>1. spent' = AfterCheck(handling) /\ times' = times
    BY <1>5 DEF Refuse
  <2>2. \/ spent' = spent
        \/ /\ n \in Keys(spent) /\ ~Contains(spent, n, wall)
           /\ Keys(spent') = Keys(spent) \ {n}
    BY <2>1, DeleteKeys DEF AfterCheck, AfterContains, Contains
  <2>3. spent' = spent \/ n \in Keys(spent) \ Live
    BY <2>2, ExpiredIsOver
  <2> HIDE DEF n
  <2> QED
    BY <2>1, <2>2, <2>3, <1>2 DEF Ledger!Forget, Ledger!vars, Good, Live
<1> QED
  BY <1>4, <1>5 DEF FinishAuth

\* A restart voids every challenge, because none was signed with the new secret.
LEMMA RestartVoids == ASSUME IInv, Restart PROVE Ledger!Void
<1>1. /\ issued' = issued /\ secret' = secret + 1 /\ Keys(spent') = {}
      /\ times' = times
  BY EmptyIsDict DEF Restart, history
<1>2. secret \in Nat /\ \A c \in issued : c.secret \in Nat /\ c.secret <= secret
  BY BoundsAreNat DEF IInv, TypeOK, Secrets, Signature
<1>3. Current' = {}
  BY <1>1, <1>2 DEF Current
<1> QED
  BY <1>1, <1>3 DEF Ledger!Void

\* The clock decides which challenges are over, and nothing else.
LEMMA ClockPasses ==
    ASSUME UNCHANGED <<issued, secret, spent, times>>
    PROVE  Ledger!Pass
<1>1. Current' = Current /\ Good' = Good
  BY DEF Current, Good
<1>2. Live' \in SUBSET Good
  BY <1>1 DEF Live, Good
<1> QED
  BY <1>1, <1>2 DEF Ledger!Pass, Good, Live

\* The signatures, the two readings of the clock and the bounded dictionary
\* implement Tickets: every request let through is counted there, only with a
\* challenge of the running process, and with one that is on record only when
\* its time is over; and a record is lost only then or to make room.
THEOREM AuthImplementsTickets == Spec => ImplementsTickets
<1>1. Init => Ledger!Init
  BY EmptyIsDict DEF Init, Ledger!Init, Current
<1>2. IInv /\ [Next]_vars => [Ledger!Next]_(Ledger!vars)
  <2> SUFFICES ASSUME IInv, [Next]_vars PROVE [Ledger!Next]_(Ledger!vars)
    OBVIOUS
  <2>1. CASE \E ip \in Ips : GetChallenge(ip)
    BY <2>1, GetChallengeIssues DEF Ledger!Next
  <2>2. CASE FinishAuth
    BY <2>2, FinishAuthTakes DEF Ledger!Next
  <2>3. CASE Restart
    BY <2>3, RestartVoids DEF Ledger!Next
  <2>4. CASE \/ \E ip \in Ips, request \in RequestsFrom(issued) \cup {Unparsable} :
                  BeginAuth(ip, request)
             \/ Tick
             \/ SetClock
             \/ UNCHANGED vars
    <3>1. UNCHANGED <<issued, secret, spent, times>>
      BY <2>4 DEF BeginAuth, Tick, SetClock, vars, history
    <3> QED
      BY <3>1, ClockPasses DEF Ledger!Next
  <2> QED
    BY <2>1, <2>2, <2>3, <2>4 DEF Next
<1> QED
  BY <1>1, <1>2, AuthInvariant, PTL DEF Spec, ImplementsTickets, Ledger!Spec

-----------------------------------------------------------------------------
\* What is charged for: every challenge handed out, and every request that
\* redeemed one, or is about to.
Redeemed == Keys(spent) \cup (IF handling = NoRequest THEN {} ELSE {handling.nonce})

Items == (Good \X {"issue"}) \cup (Redeemed \X {"redeem"})

\* Each item was paid for with the Grain grains of some IP that follow its
\* place: <<ip, start>>.  An IP has a burst and its refill to spend, of which
\* its bucket holds the last.
Places == Ips \X Nat

PaidWithin(place, dict) ==
    /\ place[1] \in Keys(dict)
    /\ place[2] + Grain + Get(dict, place[1]).tokens
          <= Full + Accrued(0, Get(dict, place[1]).last)

Apart(p, q) == p[1] = q[1] => p[2] + Grain <= q[2] \/ q[2] + Grain <= p[2]

Pays(bill, items, dict) ==
    /\ \A x \in items : bill[x] \in Places /\ PaidWithin(bill[x], dict)
    /\ \A x, y \in items : x # y => Apart(bill[x], bill[y])

\* The uptime at which a challenge was handed out, if the clock is never set.
Steady == MaxJumps = 0

Opened(c) == c.issue_ts - (wall - uptime)

\* Nothing is paid for a challenge with grains older than the challenge.
PaysInTime(bill, items) ==
    \A c \in Current, use \in {"issue", "redeem"} :
        <<c.nonce, use>> \in items => bill[<<c.nonce, use>>][2] >= Accrued(0, Opened(c))

Enough == Cardinality(Ips) <= MaxIps

Billed ==
    Enough => \E bill : Pays(bill, Items, buckets) /\ (Steady => PaysInTime(bill, Items))

\* If the clock is never set: a process signs with times of its own; and what
\* is redeemed was handed out no earlier than TTL seconds before any challenge
\* redeemed before it.
InOrder ==
    Steady =>
        /\ \A c \in issued : c.issue_ts <= wall
        /\ \A c \in Current : Opened(c) \in 0 .. uptime
        /\ \A j, k \in Keys(spent) :
              spent[j].at < spent[k].at => Get(spent, j) <= Get(spent, k) + TTL
        /\ handling # NoRequest =>
              \A k \in Keys(spent) : Get(spent, k) <= handling.issue_ts + TTL + TTL

\* What an IP could have spent grows with the uptime.
LEMMA SpendingGrows ==
    ASSUME NEW b \in Nat, NEW c \in Nat, b <= c
    PROVE  /\ Accrued(0, b) \in Nat
           /\ Accrued(b, c) \in Nat
           /\ Accrued(0, b) + Accrued(b, c) = Accrued(0, c)
<1>1. 0 \in Nat /\ 0 <= b
  OBVIOUS
<1> QED
  BY <1>1, AccruedAdds

\* Before the bucket of an IP is charged, it still leaves room for every
\* item that IP paid for.
LEMMA EntryLeavesRoom ==
    ASSUME IInv, NEW ip \in Ips, NEW place \in Places, PaidWithin(place, buckets),
           place[1] = ip
    PROVE  place[2] + Grain + Entry(buckets, ip, uptime).tokens
              <= Full + Accrued(0, uptime)
<1> DEFINE b == Get(buckets, ip)
           entry == Entry(buckets, ip, uptime)
<1>1. ip \in Keys(buckets) /\ place[2] + Grain + b.tokens <= Full + Accrued(0, b.last)
  BY DEF PaidWithin
<1>2. uptime \in Nat /\ b \in BucketUntil(uptime)
  <2>1. b \in Bucket /\ b.last <= uptime /\ uptime \in Nat
    BY <1>1, BoundsAreNat DEF IInv, TypeOK, IsDict, Get
  <2> QED
    BY <2>1, BoundsAreNat DEF Bucket, BucketUntil
<1>3. entry.tokens <= b.tokens + Accrued(b.last, uptime)
  BY <1>1, <1>2, EntryAccrues
<1>4. b.tokens \in Nat /\ b.last \in Nat /\ b.last <= uptime
  BY <1>2, FullIsNat DEF BucketUntil
<1>5. /\ Accrued(0, b.last) \in Nat /\ Accrued(b.last, uptime) \in Nat
      /\ Accrued(0, b.last) + Accrued(b.last, uptime) = Accrued(0, uptime)
  BY <1>2, <1>4, SpendingGrows
<1>6. entry.tokens \in Nat
  <2>1. IsDict(buckets, Ips, BucketUntil(MaxUptime)) /\ uptime \in 0 .. MaxUptime
    BY DEF IInv, TypeOK, Bucket, BucketUntil
  <2>2. entry \in [tokens : 0 .. Full, last : {uptime}]
    BY <2>1, BoundsAreNat, EntryTyped DEF IInv
  <2> QED
    BY <2>2, FullIsNat
<1>7. place[2] \in Nat /\ Grain \in Nat /\ Full \in Nat
  BY FullIsNat DEF Places
<1> HIDE DEF b, entry
<1> QED
  BY <1>1, <1>3, <1>4, <1>5, <1>6, <1>7 DEF entry, b

\* Metering leaves room for what was paid before; and if it admits the
\* request, for one item more, paid for with grains no older than now.
LEMMA MeterPays ==
    ASSUME IInv, Enough, NEW ip \in Ips, Meter(ip), NEW bill, NEW items,
           Pays(bill, items, buckets)
    PROVE  /\ Pays(bill, items, buckets')
           /\ Allowed(buckets, ip, uptime) =>
                 \E place \in Places : /\ PaidWithin(place, buckets')
                                       /\ place[2] >= Accrued(0, uptime)
                                       /\ \A x \in items : Apart(bill[x], place)
<1> DEFINE entry == Entry(buckets, ip, uptime)
<1>1. /\ Keys(buckets') = Keys(buckets) \cup {ip}
      /\ \A k \in Keys(buckets') \ {ip} : Get(buckets', k) = Get(buckets, k)
      /\ Allowed(buckets, ip, uptime) <=> entry.tokens >= Grain
      /\ Get(buckets', ip) = IF Allowed(buckets, ip, uptime)
                             THEN [entry EXCEPT !.tokens = @ - Grain]
                             ELSE entry
  <2>1. IsDict(buckets, Ips, Bucket) /\ IsFiniteSet(Ips) /\ Cardinality(Ips) <= MaxIps
    BY AuthServerAssumption DEF IInv, TypeOK, Enough
  <2>2. buckets' = AfterAllow(buckets, ip, uptime)
    BY DEF Meter
  <2> QED
    BY <2>1, <2>2, AfterAllowEvictsNone, AfterAllowValues
<1>2. entry \in [tokens : 0 .. Full, last : {uptime}]
  <2>1. IsDict(buckets, Ips, BucketUntil(MaxUptime)) /\ uptime \in 0 .. MaxUptime
    BY DEF IInv, TypeOK, Bucket, BucketUntil
  <2> QED
    BY <2>1, BoundsAreNat, EntryTyped DEF IInv
<1>3. Accrued(0, uptime) \in Nat
  <2>1. uptime \in Nat /\ uptime <= uptime
    BY BoundsAreNat DEF IInv, TypeOK
  <2> QED
    BY <2>1, SpendingGrows
<1>4. /\ entry.tokens \in Nat /\ entry.tokens <= Full
      /\ Get(buckets', ip).last = uptime
      /\ Get(buckets', ip).tokens = IF Allowed(buckets, ip, uptime)
                                    THEN entry.tokens - Grain
                                    ELSE entry.tokens
  BY <1>1, <1>2, FullIsNat
<1>5. \A x \in items : /\ bill[x] \in Places
                       /\ PaidWithin(bill[x], buckets)
                       /\ bill[x][2] \in Nat
  BY DEF Pays, Places
<1>6. \A x \in items : bill[x][1] = ip =>
          bill[x][2] + Grain + entry.tokens <= Full + Accrued(0, uptime)
  BY <1>5, EntryLeavesRoom
<1> HIDE DEF entry
<1>7. ASSUME NEW x \in items PROVE PaidWithin(bill[x], buckets')
  <2>1. CASE bill[x][1] = ip
    BY <2>1, <1>1, <1>3, <1>4, <1>5, <1>6, FullIsNat DEF PaidWithin
  <2>2. CASE bill[x][1] # ip
    <3>1. bill[x][1] \in Keys(buckets') \ {ip}
      BY <2>2, <1>1, <1>5 DEF PaidWithin
    <3> QED
      BY <3>1, <1>1, <1>5 DEF PaidWithin
  <2> QED
    BY <2>1, <2>2
<1>8. ASSUME Allowed(buckets, ip, uptime)
      PROVE  \E place \in Places : /\ PaidWithin(place, buckets')
                                   /\ place[2] >= Accrued(0, uptime)
                                   /\ \A x \in items : Apart(bill[x], place)
  <2> DEFINE start == Full + Accrued(0, uptime) - entry.tokens
  <2>1. start \in Nat /\ start >= Accrued(0, uptime)
    BY <1>3, <1>4, FullIsNat
  <2>2. PaidWithin(<<ip, start>>, buckets')
    <3>1. Get(buckets', ip).tokens = entry.tokens - Grain
      BY <1>4, <1>8
    <3>2. start + Grain + Get(buckets', ip).tokens <= Full + Accrued(0, Get(buckets', ip).last)
      BY <3>1, <1>3, <1>4, FullIsNat
    <3> HIDE DEF start
    <3> QED
      BY <3>2, <1>1 DEF PaidWithin
  <2>3. \A x \in items : bill[x][1] = ip => bill[x][2] + Grain <= start
    BY <1>3, <1>4, <1>5, <1>6, FullIsNat
  <2> HIDE DEF start
  <2>4. <<ip, start>> \in Places
    BY <2>1 DEF Places
  <2>5. \A x \in items : Apart(bill[x], <<ip, start>>)
    BY <2>3 DEF Apart
  <2> QED
    BY <2>1, <2>2, <2>4, <2>5
<1> QED
  BY <1>5, <1>7, <1>8 DEF Pays

\* A bill with one more item on it.
Extended(bill, items, x, place) ==
    [y \in items \cup {x} |-> IF y = x THEN place ELSE bill[y]]

\* One more item can be paid for at a place apart from the others.
LEMMA BillExtends ==
    ASSUME NEW bill, NEW items, NEW dict, Pays(bill, items, dict),
           NEW x, x \notin items, NEW place \in Places, PaidWithin(place, dict),
           \A y \in items : Apart(bill[y], place)
    PROVE  Pays(Extended(bill, items, x, place), items \cup {x}, dict)
<1> DEFINE more == Extended(bill, items, x, place)
<1>1. more[x] = place /\ \A y \in items : more[y] = bill[y]
  BY DEF Extended
<1> HIDE DEF more
<1>2. \A y \in items : Apart(more[x], more[y]) /\ Apart(more[y], more[x])
  BY <1>1 DEF Apart
<1>3. \A y \in items \cup {x} : more[y] \in Places /\ PaidWithin(more[y], dict)
  BY <1>1 DEF Pays
<1>4. \A y, z \in items \cup {x} : y # z => Apart(more[y], more[z])
  BY <1>1, <1>2 DEF Pays
<1> QED
  BY <1>3, <1>4 DEF Pays, more

\* The times of challenges and records are numbers.
LEMMA TimesAreNat ==
    ASSUME IInv
    PROVE  /\ wall \in Nat /\ uptime \in Nat /\ TTL \in Nat
           /\ \A c \in issued : c.issue_ts \in Nat
           /\ \A k \in Keys(spent) : Get(spent, k) \in Nat
<1>1. wall \in Nat /\ uptime \in Nat /\ TTL \in Nat
  BY BoundsAreNat DEF IInv, TypeOK, IssueTimes
<1>2. \A c \in issued : c.issue_ts \in Nat
  BY BoundsAreNat DEF IInv, TypeOK, IssueTimes, Signature
<1>3. \A k \in Keys(spent) : Get(spent, k) \in Nat
  BY DEF IInv, TypeOK, IsDict, Get
<1> QED
  BY <1>1, <1>2, <1>3

\* A restart leaves no challenge of the running process.
LEMMA RestartLeavesNone == ASSUME IInv, Restart PROVE Current' = {} /\ Good' = {}
<1>1. issued' = issued /\ secret' = secret + 1
  BY DEF Restart
<1>2. secret \in Nat /\ \A c \in issued : c.secret \in Nat /\ c.secret <= secret
  BY BoundsAreNat DEF IInv, TypeOK, Secrets, Signature
<1>3. \A c \in issued : c.secret # secret'
  BY <1>1, <1>2
<1> QED
  BY <1>1, <1>3 DEF Current, Good

\* If the clock is never set, a challenge that is redeemed is at most TTL
\* seconds older than any that was redeemed before.
THEOREM RedeemedInOrder == Spec => []InOrder
<1>1. Init => InOrder
  BY EmptyIsDict DEF Init, InOrder, Current
<1>2. IInv /\ InOrder /\ [Next]_vars => InOrder'
  <2> SUFFICES ASSUME IInv, InOrder, [Next]_vars, Steady PROVE InOrder'
    BY DEF InOrder, Steady
  <2>0. /\ wall \in Nat /\ uptime \in Nat /\ TTL \in Nat
        /\ \A c \in issued : c.issue_ts \in Nat
        /\ \A k \in Keys(spent) : Get(spent, k) \in Nat
    BY TimesAreNat
  <2>1. ASSUME NEW ip \in Ips, GetChallenge(ip) PROVE InOrder'
    <3>1. UNCHANGED <<wall, uptime, secret, spent, handling>>
      BY <2>1 DEF GetChallenge, clocks
    <3>2. \A c \in issued' \ issued : c.issue_ts = wall
      <4>1. \/ issued' = issued
            \/ \E nonce \in Nonces : issued' = issued \cup {SignChallenge(secret, nonce, wall)}
        BY <2>1 DEF GetChallenge
      <4> QED
        BY <4>1 DEF SignChallenge
    <3>3. \A c \in issued' : c.issue_ts <= wall'
      BY <3>1, <3>2, <2>0 DEF InOrder
    <3>4. \A c \in Current' : Opened(c)' \in 0 .. uptime'
      BY <3>1, <3>2, <2>0 DEF InOrder, Current, Opened
    <3> QED
      BY <3>1, <3>3, <3>4 DEF InOrder
  <2>2. ASSUME NEW ip \in Ips, NEW request \in RequestsFrom(issued) \cup {Unparsable},
               BeginAuth(ip, request)
        PROVE  InOrder'
    <3>1. UNCHANGED <<wall, uptime, secret, issued, spent>>
      BY <2>2 DEF BeginAuth, clocks
    <3>2. CASE UNCHANGED handling
      BY <3>1, <3>2 DEF InOrder, Current, Opened
    <3>3. CASE PassesChallenge(request) /\ handling' = request
      <4>1. request.issue_ts \in Nat /\ wall - request.issue_ts <= TTL
        BY <3>3, RequestsTyped DEF PassesChallenge, Fresh, Request
      <4>2. ASSUME NEW k \in Keys(spent)
            PROVE  Get(spent, k) <= request.issue_ts + TTL + TTL
        <5>1. PICK c \in issued : Get(spent, k) = c.issue_ts + TTL
          BY DEF IInv, RecordsWhatWasAccepted
        <5>2. c.issue_ts <= wall
          BY DEF InOrder
        <5> QED
          BY <4>1, <5>1, <5>2, <2>0
      <4> QED
        BY <3>1, <3>3, <4>2 DEF InOrder, Current, Opened
    <3> QED
      BY <2>2, <3>2, <3>3 DEF BeginAuth
  <2>3. CASE FinishAuth
    <3> DEFINE n == handling.nonce
               checked == AfterCheck(handling)
    <3>1. /\ UNCHANGED <<wall, uptime, secret, issued>>
          /\ handling # NoRequest /\ handling' = NoRequest
      BY <2>3 DEF FinishAuth, clocks
    <3>2. IsDict(spent, Nonces, Nat) /\ IsDict(checked, Nonces, Nat)
      BY AfterContainsIsDict DEF IInv, TypeOK, AfterCheck
    <3>3. /\ Keys(checked) \subseteq Keys(spent)
          /\ \A k \in Keys(checked) : Get(checked, k) = Get(spent, k)
          /\ ~Contains(spent, n, wall) => n \notin Keys(checked)
      BY AfterContainsValues DEF AfterCheck
    <3>4. \A j, k \in Keys(checked) : checked[j].at < checked[k].at => spent[j].at < spent[k].at
      BY <3>2, AfterContainsOrder DEF AfterCheck
    <3>5. ASSUME NEW j \in Keys(spent'), NEW k \in Keys(spent'), spent'[j].at < spent'[k].at
          PROVE  Get(spent', j) <= Get(spent', k) + TTL
      <4>1. CASE Accept(handling)
        <5> DEFINE expiry == handling.issue_ts + TTL
        <5>1. spent' = Add(checked, n, expiry) /\ n \notin Keys(checked)
          BY <4>1, <3>3 DEF Accept
        <5>2. /\ Get(spent', n) = expiry
              /\ \A i \in Keys(spent') \ {n} :
                    i \in Keys(checked) /\ Get(spent', i) = Get(checked, i)
          BY <5>1, AddValues
        <5>3. IsDict(spent', Nonces, Nat)
          BY FinishAuthInv, <2>3 DEF IInv, TypeOK
        <5>4. /\ \A i \in Keys(spent') \ {n} : spent'[i].at < spent'[n].at
              /\ \A i, m \in Keys(spent') \ {n} :
                    spent'[i].at < spent'[m].at => checked[i].at < checked[m].at
          BY <5>1, <3>2, AddOrder
        <5>5. spent'[j].at \in Nat /\ spent'[k].at \in Nat
          BY <5>3, SizeIsNat DEF IsDict
        <5> HIDE DEF n, checked, expiry
        <5>6. j # n
          BY <5>4, <5>5, <3>5
        <5>7. CASE k = n
          BY <5>2, <5>6, <5>7, <3>1, <3>3 DEF InOrder, expiry
        <5>8. CASE k # n
          <6>1. spent[j].at < spent[k].at
            BY <5>2, <5>4, <5>6, <5>8, <3>4, <3>5
          <6> QED
            BY <6>1, <5>2, <5>6, <5>8, <3>3 DEF InOrder
        <5> QED
          BY <5>7, <5>8
      <4>2. CASE Refuse(handling)
        <5>1. spent' = checked
          BY <4>2 DEF Refuse
        <5> HIDE DEF checked
        <5> QED
          BY <5>1, <3>3, <3>4, <3>5 DEF InOrder
      <4> QED
        BY <2>3, <4>1, <4>2 DEF FinishAuth
    <3> QED
      BY <3>1, <3>5 DEF InOrder, Current, Opened
  <2>4. CASE Tick
    <3>1. /\ wall' = wall + 1 /\ uptime' = uptime + 1
          /\ UNCHANGED <<secret, issued, spent, handling>>
      BY <2>4 DEF Tick
    <3>2. \A c \in issued : Opened(c)' = Opened(c)
      BY <3>1, <2>0 DEF Opened
    <3>3. Current' = Current /\ Current \subseteq issued
      BY <3>1 DEF Current
    <3>4. \A c \in Current' : Opened(c)' \in 0 .. uptime'
      BY <3>1, <3>2, <3>3, <2>0 DEF InOrder
    <3>5. \A c \in issued' : c.issue_ts <= wall'
      BY <3>1, <2>0 DEF InOrder
    <3> QED
      BY <3>1, <3>4, <3>5 DEF InOrder
  <2>5. ~SetClock
    BY DEF SetClock, IInv, TypeOK, Steady
  <2>6. CASE Restart
    <3>1. Current' = {}
      BY <2>6, RestartLeavesNone
    <3>2. wall' = wall /\ issued' = issued /\ Keys(spent') = {} /\ handling' = NoRequest
      BY <2>6, EmptyIsDict DEF Restart
    <3> QED
      BY <3>1, <3>2 DEF InOrder
  <2>7. CASE UNCHANGED vars
    BY <2>7 DEF vars, clocks, InOrder, Current, Opened
  <2> QED
    BY <2>1, <2>2, <2>3, <2>4, <2>5, <2>6, <2>7 DEF Next
<1> QED
  BY <1>1, <1>2, AuthInvariant, PTL DEF Spec

\* A challenge is handed out only against payment.
LEMMA GetChallengeBilled ==
    ASSUME IInv, InOrder, Billed, NEW ip \in Ips, GetChallenge(ip)
    PROVE  Billed'
<1> SUFFICES ASSUME Enough
             PROVE  \E bill : Pays(bill, Items', buckets')
                              /\ (Steady => PaysInTime(bill, Items)')
  BY DEF Billed, Enough, Steady
<1>1. PICK bill : Pays(bill, Items, buckets) /\ (Steady => PaysInTime(bill, Items))
  BY DEF Billed
<1>2. /\ Meter(ip) /\ handling = NoRequest
      /\ UNCHANGED <<wall, uptime, secret, spent, handling>>
  BY DEF GetChallenge, clocks
<1>3. Pays(bill, Items, buckets')
  BY <1>1, <1>2, MeterPays
<1>4. CASE UNCHANGED issued
  <2>1. Items' = Items /\ Current' = Current
    BY <1>2, <1>4 DEF Items, Good, Redeemed, Current
  <2>2. PaysInTime(bill, Items)' <=> PaysInTime(bill, Items)
    BY <1>2, <2>1 DEF PaysInTime, Opened
  <2> QED
    BY <1>1, <1>3, <2>1, <2>2
<1>5. CASE ~UNCHANGED issued
  <2>1. Allowed(buckets, ip, uptime)
    BY <1>5 DEF GetChallenge
  <2>2. PICK nonce \in Nonces \ {c.nonce : c \in issued} :
                issued' = issued \cup {SignChallenge(secret, nonce, wall)}
    BY <1>5 DEF GetChallenge
  <2> DEFINE new == SignChallenge(secret, nonce, wall)
             x == <<nonce, "issue">>
  <2>3. new.secret = secret /\ new.nonce = nonce /\ new.issue_ts = wall
    BY DEF SignChallenge
  <2> HIDE DEF new
  <2>4. issued' = issued \cup {new}
    BY <2>2 DEF new
  <2>5. Current' = Current \cup {new} /\ \A c \in Current : c.nonce # nonce
    BY <1>2, <2>2, <2>3, <2>4 DEF Current
  <2>6. Good' = Good \cup {nonce} /\ nonce \notin Good
    <3>1. Good = {c.nonce : c \in Current}
      BY DEF Good, Current
    <3>2. Good' = {c.nonce : c \in Current'}
      BY DEF Good, Current
    <3> QED
      BY <3>1, <3>2, <2>3, <2>5
  <2>7. nonce \notin Redeemed /\ Redeemed' = Redeemed
    BY <1>2, <2>6, RecordsAreGood DEF Redeemed
  <2>8. Items' = Items \cup {x} /\ x \notin Items /\ <<nonce, "redeem">> \notin Items'
    BY <2>6, <2>7 DEF Items
  <2>9. PICK place \in Places : /\ PaidWithin(place, buckets')
                                /\ place[2] >= Accrued(0, uptime)
                                /\ \A y \in Items : Apart(bill[y], place)
    BY <1>1, <1>2, <2>1, MeterPays
  <2>10. PICK more : /\ Pays(more, Items \cup {x}, buckets')
                     /\ more[x] = place
                     /\ \A y \in Items : more[y] = bill[y]
    <3> HIDE DEF x
    <3> DEFINE ext == Extended(bill, Items, x, place)
    <3>1. /\ Pays(ext, Items \cup {x}, buckets')
          /\ ext[x] = place
          /\ \A y \in Items : ext[y] = bill[y]
      <4>1. x \notin Items
        BY <2>8
      <4>2. place \in Places /\ PaidWithin(place, buckets')
        BY <2>9
      <4>3. \A y \in Items : Apart(bill[y], place)
        BY <2>9
      <4>4. Pays(ext, Items \cup {x}, buckets')
        BY <1>3, <4>1, <4>2, <4>3, BillExtends
      <4> QED
        BY <4>1, <4>4 DEF Extended
    <3> HIDE DEF ext
    <3> QED
      BY <3>1
  <2>11. ASSUME Steady PROVE PaysInTime(more, Items)'
    <3>1. PaysInTime(bill, Items)
      BY <1>1, <2>11
    <3>2. wall \in Nat /\ uptime \in Nat
      BY TimesAreNat
    <3>3. \A c : Opened(c)' = Opened(c)
      BY <1>2 DEF Opened
    <3> SUFFICES ASSUME NEW c \in Current', NEW use \in {"issue", "redeem"},
                        <<c.nonce, use>> \in Items'
                 PROVE  more[<<c.nonce, use>>][2] >= Accrued(0, Opened(c))
      BY <3>3 DEF PaysInTime
    <3>4. CASE c \in Current
      <4>1. <<c.nonce, use>> \in Items
        BY <3>4, <2>5, <2>8
      <4> QED
        BY <3>1, <3>4, <4>1, <2>10 DEF PaysInTime
    <3>5. CASE c = new
      <4>1. <<c.nonce, use>> = x
        BY <3>5, <2>3, <2>8
      <4>2. Opened(c) = uptime
        BY <3>2, <3>5, <2>3 DEF Opened
      <4> QED
        BY <4>1, <4>2, <2>9, <2>10
    <3> QED
      BY <3>4, <3>5, <2>5
  <2> QED
    BY <2>8, <2>10, <2>11
<1> QED
  BY <1>4, <1>5

\* verify_auth goes on only against payment.
LEMMA BeginAuthBilled ==
    ASSUME IInv, InOrder, Billed, NEW ip \in Ips,
           NEW request \in RequestsFrom(issued) \cup {Unparsable}, BeginAuth(ip, request)
    PROVE  Billed'
<1> SUFFICES ASSUME Enough
             PROVE  \E bill : Pays(bill, Items', buckets')
                              /\ (Steady => PaysInTime(bill, Items)')
  BY DEF Billed, Enough, Steady
<1>1. PICK bill : Pays(bill, Items, buckets) /\ (Steady => PaysInTime(bill, Items))
  BY DEF Billed
<1>2. /\ Meter(ip) /\ handling = NoRequest
      /\ UNCHANGED <<wall, uptime, secret, issued, spent>>
  BY DEF BeginAuth, clocks
<1>3. Pays(bill, Items, buckets')
  BY <1>1, <1>2, MeterPays
<1>4. Current' = Current /\ Good' = Good /\ \A c : Opened(c)' = Opened(c)
  BY <1>2 DEF Current, Good, Opened
<1>5. CASE Items' = Items
  <2>1. PaysInTime(bill, Items)' <=> PaysInTime(bill, Items)
    BY <1>4, <1>5 DEF PaysInTime
  <2> QED
    BY <1>1, <1>3, <1>5, <2>1
<1>6. CASE Items' # Items
  <2> DEFINE n == request.nonce
             x == <<n, "redeem">>
  <2>1. Allowed(buckets, ip, uptime) /\ handling' = request
    BY <1>2, <1>4, <1>6 DEF BeginAuth, Items, Redeemed
  <2>2. Redeemed' = Redeemed \cup {n}
    BY <1>2, <1>4, <1>6, <2>1 DEF Redeemed, Items
  <2> HIDE DEF n
  <2>3. Items' = Items \cup {x} /\ x \notin Items
    BY <1>4, <1>6, <2>2 DEF Items
  <2>4. PICK place \in Places : /\ PaidWithin(place, buckets')
                                /\ place[2] >= Accrued(0, uptime)
                                /\ \A y \in Items : Apart(bill[y], place)
    BY <1>1, <1>2, <2>1, MeterPays
  <2>5. PICK more : /\ Pays(more, Items \cup {x}, buckets')
                    /\ more[x] = place
                    /\ \A y \in Items : more[y] = bill[y]
    <3> HIDE DEF x
    <3> DEFINE ext == Extended(bill, Items, x, place)
    <3>1. /\ Pays(ext, Items \cup {x}, buckets')
          /\ ext[x] = place
          /\ \A y \in Items : ext[y] = bill[y]
      <4>1. x \notin Items
        BY <2>3
      <4>2. place \in Places /\ PaidWithin(place, buckets')
        BY <2>4
      <4>3. \A y \in Items : Apart(bill[y], place)
        BY <2>4
      <4>4. Pays(ext, Items \cup {x}, buckets')
        BY <1>3, <4>1, <4>2, <4>3, BillExtends
      <4> QED
        BY <4>1, <4>4 DEF Extended
    <3> HIDE DEF ext
    <3> QED
      BY <3>1
  <2>6. ASSUME Steady PROVE PaysInTime(more, Items)'
    <3> SUFFICES ASSUME NEW c \in Current, NEW use \in {"issue", "redeem"},
                        <<c.nonce, use>> \in Items'
                 PROVE  more[<<c.nonce, use>>][2] >= Accrued(0, Opened(c))
      BY <1>4 DEF PaysInTime
    <3>1. CASE <<c.nonce, use>> \in Items
      BY <3>1, <1>1, <2>5, <2>6 DEF PaysInTime
    <3>2. CASE <<c.nonce, use>> = x
      <4>1. Opened(c) \in Nat /\ uptime \in Nat /\ Opened(c) <= uptime
        BY <2>6, TimesAreNat DEF InOrder
      <4>2. /\ Accrued(0, Opened(c)) \in Nat /\ Accrued(Opened(c), uptime) \in Nat
            /\ Accrued(0, Opened(c)) + Accrued(Opened(c), uptime) = Accrued(0, uptime)
        BY <4>1, SpendingGrows
      <4>3. place[2] \in Nat
        BY DEF Places
      <4> QED
        BY <3>2, <4>2, <4>3, <2>4, <2>5
    <3> QED
      BY <3>1, <3>2, <2>3
  <2> QED
    BY <2>3, <2>5, <2>6
<1> QED
  BY <1>5, <1>6

\* Every challenge of the running process, and every request that redeemed
\* one, was paid for.
THEOREM EverythingIsPaid == Spec => []Billed
<1>1. Init => Billed
  <2> SUFFICES ASSUME Init PROVE Billed
    OBVIOUS
  <2>1. Items = {}
    BY EmptyIsDict DEF Init, Items, Good, Redeemed, Current
  <2> QED
    BY <2>1 DEF Billed, Pays, PaysInTime
<1>2. IInv /\ InOrder /\ Billed /\ [Next]_vars => Billed'
  <2> SUFFICES ASSUME IInv, InOrder, Billed, [Next]_vars PROVE Billed'
    OBVIOUS
  <2>1. CASE \E ip \in Ips : GetChallenge(ip)
    BY <2>1, GetChallengeBilled
  <2>2. CASE \E ip \in Ips, request \in RequestsFrom(issued) \cup {Unparsable} :
                  BeginAuth(ip, request)
    BY <2>2, BeginAuthBilled
  <2>3. CASE FinishAuth
    <3>1. /\ handling # NoRequest /\ handling' = NoRequest
          /\ UNCHANGED <<wall, uptime, secret, issued, buckets>>
      BY <2>3 DEF FinishAuth, clocks
    <3>2. Keys(spent') \subseteq Keys(spent) \cup {handling.nonce}
      <4>1. CASE Accept(handling)
        BY <2>3, <4>1, AcceptKeys
      <4>2. CASE Refuse(handling)
        BY <4>2, AfterContainsValues DEF Refuse, AfterCheck
      <4> QED
        BY <2>3, <4>1, <4>2 DEF FinishAuth
    <3>3. Items' \subseteq Items
      BY <3>1, <3>2 DEF Items, Good, Redeemed, Current
    <3>4. Current' = Current /\ \A c : Opened(c)' = Opened(c)
      BY <3>1 DEF Current, Opened
    <3>5. \A bill : Pays(bill, Items, buckets) => Pays(bill, Items', buckets')
      BY <3>1, <3>3 DEF Pays
    <3>6. \A bill : PaysInTime(bill, Items) => PaysInTime(bill, Items)'
      BY <3>3, <3>4 DEF PaysInTime
    <3> QED
      BY <3>5, <3>6 DEF Billed, Enough, Steady
  <2>4. CASE Tick
    <3>1. /\ wall' = wall + 1 /\ uptime' = uptime + 1
          /\ UNCHANGED <<secret, issued, spent, buckets, handling>>
      BY <2>4 DEF Tick
    <3>2. Items' = Items /\ Current' = Current /\ Current \subseteq issued
      BY <3>1 DEF Items, Good, Redeemed, Current
    <3>3. \A c \in Current : Opened(c)' = Opened(c)
      BY <3>1, <3>2, TimesAreNat DEF Opened
    <3>4. \A bill : PaysInTime(bill, Items) => PaysInTime(bill, Items)'
      BY <3>2, <3>3 DEF PaysInTime
    <3> QED
      BY <3>1, <3>2, <3>4 DEF Billed, Enough, Steady
  <2>5. CASE SetClock
    <3>1. UNCHANGED <<secret, issued, spent, buckets, handling>> /\ ~Steady
      BY <2>5 DEF SetClock, IInv, TypeOK, Steady
    <3>2. Items' = Items
      BY <3>1 DEF Items, Good, Redeemed, Current
    <3> QED
      BY <3>1, <3>2 DEF Billed, Enough, Steady
  <2>6. CASE Restart
    <3>1. Good' = {} /\ Keys(spent') = {} /\ handling' = NoRequest
      BY <2>6, RestartLeavesNone, EmptyIsDict DEF Restart
    <3>2. Items' = {}
      BY <3>1 DEF Items, Redeemed
    <3> QED
      BY <3>2 DEF Billed, Pays, PaysInTime
  <2>7. CASE UNCHANGED vars
    BY <2>7 DEF vars, clocks, Billed, Enough, Steady, Items, Good, Redeemed, PaysInTime,
                Current, Opened
  <2> QED
    BY <2>1, <2>2, <2>3, <2>4, <2>5, <2>6, <2>7 DEF Next
<1> QED
  BY <1>1, <1>2, AuthInvariant, RedeemedInOrder, PTL DEF Spec

\* No IP has spent more than a burst and its refill.
LEMMA SpentSoFar ==
    ASSUME IInv, NEW place \in Places, PaidWithin(place, buckets)
    PROVE  place[2] + Grain <= Full + Accrued(0, uptime)
<1> DEFINE b == Get(buckets, place[1])
<1>1. b.tokens \in Nat /\ b.last \in Nat /\ b.last <= uptime /\ uptime \in Nat
  <2>1. b \in Bucket /\ b.last <= uptime
    BY DEF IInv, TypeOK, IsDict, Get, PaidWithin
  <2> QED
    BY <2>1, BoundsAreNat, FullIsNat DEF Bucket, IInv, TypeOK
<1>2. place[2] + Grain + b.tokens <= Full + Accrued(0, b.last)
  BY DEF PaidWithin
<1>3. /\ Accrued(0, b.last) \in Nat /\ Accrued(b.last, uptime) \in Nat
      /\ Accrued(0, b.last) + Accrued(b.last, uptime) = Accrued(0, uptime)
  BY <1>1, SpendingGrows
<1>4. place[2] \in Nat
  BY DEF Places
<1> HIDE DEF b
<1> QED
  BY <1>1, <1>2, <1>3, <1>4, FullIsNat

\* Different items were paid for with different grains, so there are no more
\* of them than the grains between any two points pay for.
LEMMA PaymentsCounted ==
    ASSUME NEW items, NEW bill, NEW low \in Nat, NEW high \in Nat, low <= high,
           \A x \in items : /\ bill[x] \in Places
                            /\ low <= bill[x][2]
                            /\ bill[x][2] + Grain <= high,
           \A x, y \in items : x # y => Apart(bill[x], bill[y])
    PROVE  /\ IsFiniteSet(items)
           /\ Cardinality(items) * Grain <= Cardinality(Ips) * (high - low)
<1> DEFINE range == (low + 1) .. high
           grains == items \X (1 .. Grain)
           funds == Ips \X range
           f == [g \in grains |-> <<bill[g[1]][1], bill[g[1]][2] + g[2]>>]
           h == [x \in items |-> <<bill[x][1], bill[x][2] + 1>>]
<1>1. \A x \in items : bill[x][1] \in Ips /\ bill[x][2] \in Nat
  BY DEF Places
<1>2. Grain \in Nat \ {0}
  BY FullIsNat
<1>3. ASSUME NEW x \in items, NEW i \in 1 .. Grain
      PROVE  bill[x][2] + i \in range
  BY <1>1, <1>2
<1>4. ASSUME NEW x \in items, NEW i \in 1 .. Grain,
             NEW y \in items, NEW j \in 1 .. Grain,
             bill[x][1] = bill[y][1], bill[x][2] + i = bill[y][2] + j
      PROVE  x = y /\ i = j
  <2>1. x = y
    BY <1>1, <1>2, <1>4 DEF Apart
  <2> QED
    BY <2>1, <1>1, <1>4
<1> HIDE DEF range
<1>5. f \in Injection(grains, funds)
  <2>1. \A g \in grains : g[1] \in items /\ g[2] \in 1 .. Grain /\ g = <<g[1], g[2]>>
    OBVIOUS
  <2>2. \A g \in grains : f[g] = <<bill[g[1]][1], bill[g[1]][2] + g[2]>>
    OBVIOUS
  <2>3. f \in [grains -> funds]
    BY <1>1, <1>3, <2>1
  <2> HIDE DEF f, grains
  <2>4. \A g, k \in grains : f[g] = f[k] => g = k
    BY <1>4, <2>1, <2>2
  <2> QED
    BY <2>3, <2>4 DEF Injection, IsInjective
<1>6. h \in Injection(items, funds)
  <2>1. 1 \in 1 .. Grain
    BY <1>2
  <2>2. h \in [items -> funds]
    BY <1>1, <1>3, <2>1
  <2>3. \A x, y \in items : h[x] = h[y] => x = y
    BY <1>4, <2>1
  <2> QED
    BY <2>2, <2>3 DEF Injection, IsInjective
<1> HIDE DEF grains, funds, f, h
<1>7. IsFiniteSet(funds) /\ Cardinality(funds) = Cardinality(Ips) * (high - low)
  <2>1. IsFiniteSet(range) /\ Cardinality(range) = high - low
    <3> DEFINE first == low + 1
    <3>1. /\ first \in Int /\ high \in Int
          /\ (IF first > high THEN 0 ELSE high - first + 1) = high - low
      OBVIOUS
    <3>2. range = first .. high
      BY DEF range
    <3> HIDE DEF first
    <3> QED
      BY <3>1, <3>2, FS_Interval
  <2> QED
    BY <2>1, FS_Product, AuthServerAssumption DEF funds
<1>8. IsFiniteSet(items) /\ Cardinality(grains) = Cardinality(items) * Grain
  <2>1. IsFiniteSet(items)
    BY <1>6, <1>7, FS_Injection
  <2>2. IsFiniteSet(1 .. Grain) /\ Cardinality(1 .. Grain) = Grain
    BY <1>2, FS_Interval
  <2> QED
    BY <2>1, <2>2, FS_Product DEF grains
<1>9. Cardinality(grains) <= Cardinality(funds)
  BY <1>5, <1>7, FS_Injection
<1> QED
  BY <1>7, <1>8, <1>9

\* As long as every IP can be tracked, the challenges one process hands out
\* fit the bursts and the refills of the IPs, for every number of IPs and
\* however the requests are spread.
THEOREM ChallengesWithinBudget == Spec => []IssuedWithinBudget
<1>1. IInv /\ Billed => IssuedWithinBudget
  <2> SUFFICES ASSUME IInv, Billed, Enough
               PROVE  Cardinality(Current) * Grain
                         <= Cardinality(Ips) * (Full + Rate * uptime)
    BY DEF IssuedWithinBudget, Enough, Current
  <2>1. PICK bill : Pays(bill, Items, buckets)
    BY DEF Billed
  <2> DEFINE paid == [c \in Current |-> bill[<<c.nonce, "issue">>]]
             budget == Full + Accrued(0, uptime)
  <2>2. uptime \in Nat /\ Accrued(0, uptime) \in Nat /\ Accrued(0, uptime) = Rate * uptime
    <3>1. uptime \in Nat /\ uptime <= uptime /\ uptime - 0 = uptime
      BY TimesAreNat
    <3>2. Accrued(0, uptime) \in Nat
      BY <3>1, SpendingGrows
    <3> QED
      BY <3>1, <3>2 DEF Accrued
  <2>3. budget \in Nat /\ 0 <= budget /\ budget - 0 = budget
    BY <2>2, FullIsNat
  <2>4. \A c \in Current : <<c.nonce, "issue">> \in Items
    BY DEF Current, Good, Items
  <2>5. ASSUME NEW c \in Current
        PROVE  paid[c] \in Places /\ 0 <= paid[c][2] /\ paid[c][2] + Grain <= budget
    <3>1. paid[c] \in Places /\ PaidWithin(paid[c], buckets)
      BY <2>1, <2>4 DEF Pays
    <3> HIDE DEF paid
    <3> QED
      BY <3>1, SpentSoFar DEF Places
  <2>6. ASSUME NEW c \in Current, NEW d \in Current, c # d
        PROVE  Apart(paid[c], paid[d])
    <3>1. c.nonce # d.nonce
      BY <2>6 DEF IInv, DistinctNonces, Current
    <3> QED
      BY <3>1, <2>1, <2>4 DEF Pays
  <2> HIDE DEF paid, budget
  <2>7. Cardinality(Current) * Grain <= Cardinality(Ips) * (budget - 0)
    BY <2>3, <2>5, <2>6, PaymentsCounted
  <2> QED
    BY <2>2, <2>3, <2>7 DEF budget
<1> QED
  BY <1>1, AuthInvariant, EverythingIsPaid, PTL

\* If the clock is never set and the oldest record of a full set is live when
\* a nonce is added, then every record, and that nonce, is of a challenge of
\* the last 2 * TTL seconds.
LEMMA RecentWhenEvicting ==
    ASSUME IInv, InOrder, Steady, FinishAuth,
           NEW o \in Keys(spent), o = Oldest(spent), wall <= Get(spent, o),
           NEW m \in Keys(spent) \cup {handling.nonce}
    PROVE  \E c \in Current : c.nonce = m /\ wall <= c.issue_ts + TTL + TTL
<1>1. /\ wall \in Nat /\ TTL \in Nat
      /\ \A c \in issued : c.issue_ts \in Nat
      /\ \A k \in Keys(spent) : Get(spent, k) \in Nat
  BY TimesAreNat
<1>2. CASE m \in Keys(spent)
  <2>1. PICK c \in Current : c.nonce = m /\ Get(spent, m) = c.issue_ts + TTL
    BY <1>2 DEF IInv, RecordsWhatWasAccepted, Current
  <2>2. Get(spent, o) <= Get(spent, m) + TTL
    <3>1. CASE m = o
      BY <3>1, <1>1
    <3>2. CASE m # o
      <4>1. IsDict(spent, Nonces, Nat)
        BY DEF IInv, TypeOK
      <4>2. spent[o].at < spent[m].at
        BY <4>1, <1>2, <3>2, OldestIsFirst
      <4> QED
        BY <4>2, <1>2 DEF InOrder
    <3> QED
      BY <3>1, <3>2
  <2>3. c.issue_ts \in Nat /\ Get(spent, o) \in Nat
    BY <1>1 DEF Current
  <2> QED
    BY <1>1, <2>1, <2>2, <2>3
<1>3. CASE m = handling.nonce
  <2> DEFINE c == SignChallenge(secret, handling.nonce, handling.issue_ts)
  <2>1. handling # NoRequest
    BY DEF FinishAuth
  <2>2. c \in issued /\ c.secret = secret /\ c.nonce = m /\ c.issue_ts = handling.issue_ts
    BY <1>3, <2>1 DEF IInv, Genuine, SignChallenge
  <2> HIDE DEF c
  <2>3. Get(spent, o) <= c.issue_ts + TTL + TTL
    BY <2>1, <2>2 DEF InOrder
  <2>4. c \in Current /\ c.issue_ts \in Nat /\ Get(spent, o) \in Nat
    BY <1>1, <2>2 DEF Current
  <2> QED
    BY <1>1, <2>2, <2>3, <2>4
<1> QED
  BY <1>2, <1>3

\* The grains of all IPs in 2 * TTL seconds do not pay for handing out and
\* redeeming one challenge more than there is room for.
LEMMA NoRoomForMore ==
    ASSUME IInv, Billed, LargeEnough,
           NEW nonces, IsFiniteSet(nonces), Cardinality(nonces) = MaxSize + 1,
           \A m \in nonces : \E c \in Current :
               c.nonce = m /\ Opened(c) \in 0 .. uptime /\ wall <= c.issue_ts + TTL + TTL,
           nonces \X {"issue", "redeem"} \subseteq Items,
           Steady
    PROVE  FALSE
<1> DEFINE items == nonces \X {"issue", "redeem"}
           since == IF uptime >= TTL + TTL THEN uptime - (TTL + TTL) ELSE 0
           low == Accrued(0, since)
           high == Full + Accrued(0, uptime)
<1>1. PICK bill : Pays(bill, Items, buckets) /\ PaysInTime(bill, Items)
  BY DEF Billed, Enough, LargeEnough
<1>2. /\ wall \in Nat /\ uptime \in Nat /\ TTL \in Nat
      /\ \A c \in issued : c.issue_ts \in Nat
  BY TimesAreNat
<1>3. since \in Nat /\ since <= uptime /\ uptime - since <= TTL + TTL
  BY <1>2
<1> HIDE DEF since
<1>4. /\ low \in Nat /\ Accrued(since, uptime) \in Nat
      /\ low + Accrued(since, uptime) = Accrued(0, uptime)
  BY <1>2, <1>3, SpendingGrows
<1>5. high \in Nat /\ low <= high /\ high - low = Full + Accrued(since, uptime)
  BY <1>4, FullIsNat
<1>6. ASSUME NEW x \in items
      PROVE  bill[x] \in Places /\ low <= bill[x][2] /\ bill[x][2] + Grain <= high
  <2>1. bill[x] \in Places /\ PaidWithin(bill[x], buckets)
    BY <1>1 DEF Pays
  <2>2. PICK m \in nonces, use \in {"issue", "redeem"} : x = <<m, use>>
    BY DEF items
  <2>3. PICK c \in Current : /\ c.nonce = m /\ Opened(c) \in 0 .. uptime
                             /\ wall <= c.issue_ts + TTL + TTL
    OBVIOUS
  <2>4. c.issue_ts \in Nat
    BY <1>2 DEF Current
  <2>5. Opened(c) \in Nat /\ since <= Opened(c)
    BY <1>2, <2>3, <2>4 DEF since, Opened
  <2>6. Accrued(0, Opened(c)) \in Nat /\ low <= Accrued(0, Opened(c))
    <3>1. /\ Accrued(since, Opened(c)) \in Nat
          /\ Accrued(0, Opened(c)) \in Nat
          /\ low + Accrued(since, Opened(c)) = Accrued(0, Opened(c))
      <4>1. Opened(c) <= Opened(c)
        BY <2>5
      <4> QED
        BY <1>3, <2>5, <4>1, SpendingGrows
    <3> HIDE DEF low
    <3> QED
      BY <3>1, <1>4
  <2>7. bill[x][2] >= Accrued(0, Opened(c))
    BY <1>1, <2>2, <2>3 DEF PaysInTime
  <2>8. bill[x][2] \in Nat
    BY <2>1 DEF Places
  <2> HIDE DEF low, high
  <2>9. bill[x][2] + Grain <= high
    BY <2>1, SpentSoFar DEF high
  <2> QED
    BY <1>4, <2>1, <2>6, <2>7, <2>8, <2>9
<1>7. \A x, y \in items : x # y => Apart(bill[x], bill[y])
  BY <1>1 DEF Pays
<1>8. IsFiniteSet(items) /\ Cardinality(items) = (MaxSize + 1) * 2
  <2>1. IsFiniteSet({"issue", "redeem"}) /\ Cardinality({"issue", "redeem"}) = 2
    <3>1. {"issue", "redeem"} = {"issue"} \cup {"redeem"} /\ "redeem" \notin {"issue"}
      OBVIOUS
    <3>2. IsFiniteSet({"issue"}) /\ Cardinality({"issue"}) = 1
      BY FS_Singleton
    <3>3. /\ IsFiniteSet({"issue"} \cup {"redeem"})
          /\ Cardinality({"issue"} \cup {"redeem"}) = 1 + 1
      BY <3>1, <3>2, FS_AddElement
    <3> QED
      BY <3>1, <3>3
  <2> QED
    BY <2>1, FS_Product
<1> HIDE DEF items, low, high
<1>9. Cardinality(items) * Grain <= Cardinality(Ips) * (high - low)
  BY <1>4, <1>5, <1>6, <1>7, PaymentsCounted
<1>10. Accrued(since, uptime) <= 2 * TTL * Rate
  <2>1. \A r, d, e \in Nat : d <= e => r * d <= e * r
    OBVIOUS
  <2>2. uptime - since \in Nat /\ 2 * TTL \in Nat /\ uptime - since <= 2 * TTL
    BY <1>2, <1>3
  <2> QED
    BY <2>1, <2>2, FullIsNat DEF Accrued
<1>11. Cardinality(Ips) * (high - low) <= Cardinality(Ips) * (Full + 2 * TTL * Rate)
  <2>1. \A n, d, e \in Nat : d <= e => n * d <= n * e
    OBVIOUS
  <2>2. Cardinality(Ips) \in Nat
    BY FS_CardinalityType, AuthServerAssumption
  <2>3. \A r, t \in Nat : 2 * t * r \in Nat
    OBVIOUS
  <2>4. high - low \in Nat /\ Full + 2 * TTL * Rate \in Nat
    BY <1>2, <1>4, <1>5, <2>3, FullIsNat
  <2>5. high - low <= Full + 2 * TTL * Rate
    BY <1>2, <1>4, <1>5, <1>10, <2>3, FullIsNat
  <2> QED
    BY <2>1, <2>2, <2>4, <2>5
<1>12. Cardinality(items) * Grain = 2 * Grain * (MaxSize + 1)
  <2>1. \A a, g \in Nat : (a * 2) * g = 2 * g * a
    OBVIOUS
  <2>2. MaxSize + 1 \in Nat
    BY MaxSizeAssumption
  <2> QED
    BY <1>8, <2>1, <2>2, FullIsNat
<1>13. 2 * Grain * (MaxSize + 1) > Cardinality(Ips) * (Full + 2 * TTL * Rate)
  BY DEF LargeEnough
<1> QED
  <2>1. \A m, n \in Nat : m * n \in Nat
    OBVIOUS
  <2>2. /\ 2 * Grain * (MaxSize + 1) \in Nat
        /\ Cardinality(Ips) * (Full + 2 * TTL * Rate) \in Nat
        /\ Cardinality(Ips) * (high - low) \in Nat
    <3>1. Cardinality(Ips) \in Nat
      BY FS_CardinalityType, AuthServerAssumption
    <3>2. 2 * Grain \in Nat /\ MaxSize + 1 \in Nat /\ high - low \in Nat
      BY <1>4, <1>5, FullIsNat, MaxSizeAssumption
    <3>3. 2 * TTL \in Nat
      BY <1>2
    <3>4. 2 * TTL * Rate \in Nat
      BY <2>1, <3>3, FullIsNat
    <3>5. Full + 2 * TTL * Rate \in Nat
      BY <3>4, FullIsNat
    <3> QED
      BY <2>1, <3>1, <3>2, <3>5
  <2> QED
    BY <2>2, <1>9, <1>11, <1>12, <1>13

\* If max_size is as large as the rates make it necessary, the spent set
\* forgets no nonce whose challenge is still fresh: for every TTL, rate,
\* burst and number of IPs, a record that a running process drops has
\* expired, provided that the clock is never set.
THEOREM EvictionIsHarmless == Spec => EvictsOnlyExpired
<1> DEFINE Harmless == \A n \in Keys(spent) \ Keys(spent') :
              LargeEnough /\ MaxJumps = 0 /\ secret' = secret => wall > Get(spent, n)
<1>1. IInv /\ InOrder /\ Billed /\ [Next]_vars => [Harmless]_vars
  <2> SUFFICES ASSUME IInv, InOrder, Billed, Next,
                      NEW o \in Keys(spent), o \notin Keys(spent'),
                      LargeEnough, Steady, secret' = secret
               PROVE  wall > Get(spent, o)
    BY Zenon DEF Steady
  <2>1. FinishAuth
    <3>1. ASSUME Restart PROVE FALSE
      BY <3>1, BoundsAreNat DEF Restart, IInv, TypeOK, Secrets
    <3> QED
      BY <3>1 DEF Next, GetChallenge, BeginAuth, Tick, SetClock
  <2> DEFINE n == handling.nonce
             checked == AfterCheck(handling)
             Q == Keys(spent) \cup {n}
  <2>2. CASE o \notin Keys(checked)
    BY <2>2, AfterContainsValues DEF AfterCheck, Expired
  <2>3. CASE o \in Keys(checked)
    <3> SUFFICES ASSUME ~(wall > Get(spent, o)) PROVE FALSE
      OBVIOUS
    <3>1. wall <= Get(spent, o)
      BY TimesAreNat
    <3>2. n \notin Keys(spent) /\ o = Oldest(spent) /\ Size(spent) >= MaxSize
      BY <2>1, <2>3, EvictsOldest
    <3>3. IsFiniteSet(Q) /\ Cardinality(Q) = MaxSize + 1
      <4>1. IsFiniteSet(Keys(spent)) /\ Cardinality(Keys(spent)) = MaxSize
        <5>1. IsDict(spent, Nonces, Nat) /\ Size(spent) <= MaxSize
          BY DEF IInv, TypeOK
        <5>2. Size(spent) \in Nat /\ Size(spent) = MaxSize
          BY <5>1, <3>2, SizeIsNat, MaxSizeAssumption
        <5> QED
          BY <5>1, <5>2 DEF IsDict, Size
      <4>2. IsFiniteSet(Q)
            /\ Cardinality(Q) = IF n \in Keys(spent) THEN Cardinality(Keys(spent))
                                ELSE Cardinality(Keys(spent)) + 1
        BY <4>1, FS_AddElement
      <4> QED
        BY <4>1, <4>2, <3>2
    <3>4. \A m \in Q : \E c \in Current : /\ c.nonce = m /\ Opened(c) \in 0 .. uptime
                                          /\ wall <= c.issue_ts + TTL + TTL
      BY <2>1, <3>1, <3>2, RecentWhenEvicting DEF InOrder
    <3>5. Q \X {"issue", "redeem"} \subseteq Items
      <4>1. Q = Redeemed
        BY <2>1 DEF FinishAuth, Redeemed
      <4>2. Q \subseteq Good
        BY <3>4 DEF Current, Good
      <4> HIDE DEF Q
      <4> QED
        BY <4>1, <4>2 DEF Items
    <3> HIDE DEF Q
    <3> QED
      BY <3>3, <3>4, <3>5, NoRoomForMore
  <2> QED
    BY <2>2, <2>3
<1> QED
  BY <1>1, AuthInvariant, RedeemedInOrder, EverythingIsPaid, PTL DEF Spec, EvictsOnlyExpired
=============================================================================
