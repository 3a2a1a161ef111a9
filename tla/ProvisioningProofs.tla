------------------------- MODULE ProvisioningProofs -------------------------
(***************************************************************************)
(* What clients may expect of the server, for any number of them, any      *)
(* network between them and any number of mishaps.                         *)
(***************************************************************************)
EXTENDS Provisioning, FiniteSetTheorems, TLAPS

\* A client holds a challenge exactly while it waits, one drawn for it, and
\* has an outcome exactly when it has exited.
Held(c) ==
    /\ stage[c] = "wait" <=> nonce[c] # NoNonce
    /\ stage[c] = "wait" => nonce[c][1] = c
    /\ stage[c] = "exited" <=> outcome[c] # "none"
    /\ stage[c] = "exited" => path[c] = "/cert"

\* The only request under way with a client's challenge is the one it awaits.
Owned(c) ==
    stage[c] = "wait" => \A m \in net : m.nonce = nonce[c] => m = Request(c, nonce[c])

\* What a client without a mishap awaits is under way, with a challenge that
\* is good and not spent.
Safe(c) ==
    stage[c] = "wait" /\ c \notin hit =>
        Request(c, nonce[c]) \in net /\ nonce[c] \in valid \ spent

Blamed(c) == outcome[c] = "failed" => c \in hit

\* A request carries a challenge drawn for its own client.
Named == \A m \in net : m.nonce[1] = m.client

InOrder(c) == Held(c) /\ Owned(c) /\ Safe(c) /\ Blamed(c)

IInv == TypeOK /\ Named /\ \A c \in Clients : InOrder(c)

-----------------------------------------------------------------------------
\* What the parts of the actions do.

\* Every client connects from an address.
LEMMA AddressTyped == ASSUME TypeOK, NEW c \in Clients PROVE Address(c) \in Addresses
BY DEF TypeOK, Address, Addresses

\* Metering takes a token, if there is one, from the client's address.
LEMMA MeterEffect ==
    ASSUME TypeOK, NEW c \in Clients, Meter(c)
    PROVE  /\ tokens' \in [Addresses -> 0 .. Capacity]
           /\ \A a \in Addresses \ {Address(c)} : tokens'[a] = tokens[a]
           /\ tokens'[Address(c)] = IF Allowed(c) THEN tokens[Address(c)] - 1 ELSE 0
<1>1. Address(c) \in Addresses
  BY AddressTyped
<1>2. tokens \in [Addresses -> 0 .. Capacity] /\ Capacity \in Nat
  BY ProvisioningAssumption DEF TypeOK
<1> QED
  BY <1>1, <1>2 DEF Meter, Allowed

\* A request under way is of a client and carries a nonce.
LEMMA MessageTyped ==
    ASSUME TypeOK, NEW m \in net
    PROVE  m.client \in Clients /\ m.nonce \in Nonces /\ m.path \in Paths
BY DEF TypeOK, Message

\* Serving a request may spend its challenge, if it is good.
LEMMA ServeEffect ==
    ASSUME TypeOK, NEW m \in net, Serve(m)
    PROVE  /\ tokens' \in [Addresses -> 0 .. Capacity]
           /\ spent' \subseteq Nonces
           /\ valid' = valid
           /\ \/ spent' = spent
              \/ Authentic(m) /\ spent' = spent \cup {m.nonce}
BY MessageTyped, MeterEffect DEF Serve, TypeOK

\* Only c's part of the clients' state changes.
OnlyOf(c) ==
    \A d \in Clients \ {c} : /\ stage'[d] = stage[d] /\ path'[d] = path[d]
                             /\ nonce'[d] = nonce[d] /\ outcome'[d] = outcome[d]

ClientsTyped ==
    /\ stage \in [Clients -> {"exited", "ask", "wait"}]
    /\ path \in [Clients -> Paths]
    /\ nonce \in [Clients -> Nonces \cup {NoNonce}]
    /\ outcome \in [Clients -> {"none", "done", "refused", "failed"}]

\* The end of a run.
LEMMA EndsEffect ==
    ASSUME TypeOK, NEW c \in Clients, NEW how \in {"done", "refused", "failed"}, Ends(c, how)
    PROVE  /\ ClientsTyped'
           /\ OnlyOf(c)
           /\ stage'[c] = "exited" /\ path'[c] = "/cert"
           /\ nonce'[c] = NoNonce /\ outcome'[c] = how
BY DEF TypeOK, Ends, MovesTo, ClientsTyped, OnlyOf, Paths

\* A run takes an answer: it goes on to /privkey, or it ends.
LEMMA TakeEffect ==
    ASSUME TypeOK, NEW c \in Clients, NEW status, Take(c, status)
    PROVE  /\ ClientsTyped'
           /\ OnlyOf(c)
           /\ nonce'[c] = NoNonce
           /\ \/ /\ status = 200 /\ path[c] = "/cert"
                 /\ stage'[c] = "ask" /\ path'[c] = "/privkey" /\ outcome'[c] = outcome[c]
              \/ /\ stage'[c] = "exited" /\ path'[c] = "/cert"
                 /\ outcome'[c] = IF status = 200 THEN "done"
                                  ELSE IF status = 429 THEN "refused" ELSE "failed"
<1>1. CASE status = 200 /\ path[c] = "/cert"
  BY <1>1 DEF TypeOK, Take, MovesTo, ClientsTyped, OnlyOf, Paths
<1>2. CASE ~(status = 200 /\ path[c] = "/cert")
  <2> DEFINE how == IF status = 200 THEN "done" ELSE IF status = 429 THEN "refused" ELSE "failed"
  <2>1. Ends(c, how)
    BY <1>2 DEF Take
  <2>2. how \in {"done", "refused", "failed"}
    OBVIOUS
  <2> QED
    BY <2>1, <2>2, EndsEffect
<1> QED
  BY <1>1, <1>2

-----------------------------------------------------------------------------
\* What is left of the invariant to a client whose run an action leaves alone.
LEMMA KeepsOrder ==
    ASSUME IInv, NEW d \in Clients,
           stage'[d] = stage[d], path'[d] = path[d],
           nonce'[d] = nonce[d], outcome'[d] = outcome[d],
           hit \subseteq hit',
           \A m \in net' \ net : m.nonce # nonce[d],
           stage[d] = "wait" /\ d \notin hit' =>
               Request(d, nonce[d]) \in net' /\ nonce[d] \in valid' \ spent'
    PROVE  InOrder(d)'
<1>1. InOrder(d)
  BY DEF IInv
<1>3. Request(d, nonce[d])' = Request(d, nonce[d])
  BY DEF Request
<1>4. Held(d)' /\ Blamed(d)'
  BY <1>1 DEF InOrder, Held, Blamed
<1>5. Owned(d)'
  BY <1>1, <1>3 DEF InOrder, Owned
<1>6. Safe(d)'
  BY <1>1, <1>3 DEF Safe
<1> QED
  BY <1>4, <1>5, <1>6 DEF InOrder

\* The same of an action upon another client's run.
LEMMA LeftAlone ==
    ASSUME IInv, NEW d \in Clients, NEW c, d # c, OnlyOf(c),
           hit \subseteq hit',
           \A m \in net' \ net : m.nonce # nonce[d],
           stage[d] = "wait" /\ d \notin hit' =>
               Request(d, nonce[d]) \in net' /\ nonce[d] \in valid' \ spent'
    PROVE  InOrder(d)'
<1>1. /\ stage'[d] = stage[d] /\ path'[d] = path[d]
      /\ nonce'[d] = nonce[d] /\ outcome'[d] = outcome[d]
  BY DEF OnlyOf
<1> QED
  BY <1>1, KeepsOrder

\* And of one upon no client's run.
LEMMA AllLeftAlone ==
    ASSUME IInv, UNCHANGED client_vars, hit \subseteq hit', net' \subseteq net,
           \A d \in Clients : stage[d] = "wait" /\ d \notin hit' =>
               Request(d, nonce[d]) \in net' /\ nonce[d] \in valid' \ spent'
    PROVE  Named' /\ (\A d \in Clients : InOrder(d))'
<1>1. Named'
  BY DEF IInv, Named
<1>2. ASSUME NEW d \in Clients PROVE InOrder(d)'
  <2>1. UNCHANGED <<stage, path, nonce, outcome>>
    BY DEF client_vars
  <2> QED
    BY <2>1, KeepsOrder
<1> QED
  BY <1>1, <1>2

\* A run that ended is in order, if it has a mishap to blame its failure on.
LEMMA EndedInOrder ==
    ASSUME NEW c \in Clients, stage'[c] = "exited", path'[c] = "/cert",
           nonce'[c] = NoNonce, outcome'[c] # "none",
           outcome'[c] = "failed" => c \in hit'
    PROVE  InOrder(c)'
BY DEF InOrder, Held, Owned, Safe, Blamed

\* The end of one run is of no concern to the others.
LEMMA EndsInOrder ==
    ASSUME IInv, NEW c \in Clients, NEW how \in {"done", "refused", "failed"}, Ends(c, how),
           UNCHANGED <<valid, spent, net>>, hit \subseteq hit',
           how = "failed" => c \in hit'
    PROVE  Named' /\ (\A d \in Clients : InOrder(d))'
<1>1. /\ OnlyOf(c)
      /\ stage'[c] = "exited" /\ path'[c] = "/cert"
      /\ nonce'[c] = NoNonce /\ outcome'[c] = how
  BY EndsEffect DEF IInv
<1>2. InOrder(c)'
  BY <1>1, EndedInOrder
<1>3. ASSUME NEW d \in Clients, d # c PROVE InOrder(d)'
  <2>1. stage[d] = "wait" /\ d \notin hit' =>
            Request(d, nonce[d]) \in net' /\ nonce[d] \in valid' \ spent'
    BY DEF IInv, InOrder, Safe
  <2> QED
    BY <1>1, <1>3, <2>1, LeftAlone
<1>4. Named'
  BY DEF IInv, Named
<1> QED
  BY <1>2, <1>3, <1>4

\* Serving a request does no harm to what another client awaits.
LEMMA ServeSpares ==
    ASSUME IInv, NEW m \in net, Serve(m), NEW d \in Clients,
           stage[d] = "wait", d \notin hit, ~(Awaited(m) /\ m.client = d)
    PROVE  /\ Request(d, nonce[d]) \in net \ {m}
           /\ nonce[d] \in valid' \ spent'
<1>1. Request(d, nonce[d]) \in net /\ nonce[d] \in valid \ spent
  BY DEF IInv, InOrder, Safe
<1>2. m # Request(d, nonce[d])
  BY DEF Awaited, AtStage, Request
<1>3. m.nonce # nonce[d]
  BY <1>2 DEF IInv, InOrder, Owned
<1>4. valid' = valid /\ spent' \subseteq spent \cup {m.nonce}
  BY ServeEffect DEF IInv
<1> QED
  BY <1>1, <1>2, <1>3, <1>4

-----------------------------------------------------------------------------
\* Each action keeps the invariant.

\* The initial states.
LEMMA InitInv == Init => IInv
<1> SUFFICES ASSUME Init PROVE IInv
  OBVIOUS
<1>1. TypeOK
  BY ProvisioningAssumption DEF Init, TypeOK, FullBuckets, Paths, Addresses
<1>2. Named /\ \A c \in Clients : InOrder(c)
  BY DEF Init, Named, InOrder, Held, Owned, Safe, Blamed
<1> QED
  BY <1>1, <1>2 DEF IInv

\* GET /challenge.
LEMMA AskInv == ASSUME IInv, NEW c \in Clients, Ask(c) PROVE IInv'
<1>0. TypeOK
  BY DEF IInv
<1>1. /\ stage[c] = "ask" /\ Meter(c)
      /\ UNCHANGED <<via, spent, hit, strays, mishaps>>
  BY DEF Ask, AtStage, history
<1>2. tokens' \in [Addresses -> 0 .. Capacity]
  BY <1>0, <1>1, MeterEffect
<1>3. CASE Ends(c, "refused") /\ UNCHANGED <<valid, net>>
  <2>1. ClientsTyped'
    BY <1>0, <1>3, EndsEffect
  <2>2. TypeOK'
    BY <1>0, <1>1, <1>2, <1>3, <2>1 DEF TypeOK, ClientsTyped
  <2>3. Named' /\ (\A d \in Clients : InOrder(d))'
    BY <1>1, <1>3, EndsInOrder
  <2> QED
    BY <2>2, <2>3 DEF IInv
<1>4. CASE ~(Ends(c, "refused") /\ UNCHANGED <<valid, net>>)
  <2>1. PICK i \in Undrawn(c) :
            /\ valid' = valid \cup {<<c, i>>}
            /\ nonce' = [nonce EXCEPT ![c] = <<c, i>>]
            /\ net' = net \cup {Request(c, <<c, i>>)}
    BY <1>4 DEF Ask
  <2>2. MovesTo(c, "wait") /\ UNCHANGED <<path, outcome>>
    BY <1>4 DEF Ask
  <2> DEFINE n == <<c, i>>
             new == Request(c, n)
  <2>3. /\ n \in Nonces /\ n # NoNonce /\ n[1] = c
        /\ n \notin valid \cup spent
        /\ \A m \in net : m.nonce # n
    BY ProvisioningAssumption DEF Undrawn, Nonces
  <2>4. /\ new.client = c /\ new.nonce = n /\ new \in Message
    BY <1>0, <2>3 DEF Request, Message, TypeOK
  <2>5. /\ stage' = [stage EXCEPT ![c] = "wait"]
        /\ stage'[c] = "wait" /\ nonce'[c] = n
        /\ path'[c] = path[c] /\ outcome'[c] = outcome[c]
        /\ OnlyOf(c)
    BY <1>0, <2>1, <2>2 DEF MovesTo, OnlyOf, TypeOK
  <2>6. Request(c, n)' = new
    BY <2>2 DEF Request
  <2> HIDE DEF n, new
  <2>7. net' = net \cup {new} /\ valid' = valid \cup {n} /\ nonce' = [nonce EXCEPT ![c] = n]
    BY <2>1 DEF n, new
  <2>8. TypeOK'
    BY <1>0, <1>1, <1>2, <2>2, <2>3, <2>4, <2>5, <2>7 DEF TypeOK
  <2>9. Named'
    BY <2>3, <2>4, <2>7 DEF IInv, Named
  <2>10. InOrder(c)'
    <3>1. Held(c)'
      BY <1>1, <2>3, <2>5 DEF IInv, InOrder, Held
    <3>2. Owned(c)'
      BY <2>3, <2>5, <2>6, <2>7 DEF Owned
    <3>3. Safe(c)'
      BY <1>1, <2>3, <2>5, <2>6, <2>7 DEF Safe
    <3>4. Blamed(c)'
      BY <1>1, <2>5 DEF IInv, InOrder, Blamed
    <3> QED
      BY <3>1, <3>2, <3>3, <3>4 DEF InOrder
  <2>11. ASSUME NEW d \in Clients, d # c PROVE InOrder(d)'
    <3>1. stage[d] = "wait" /\ d \notin hit' =>
              Request(d, nonce[d]) \in net' /\ nonce[d] \in valid' \ spent'
      BY <1>1, <2>7 DEF IInv, InOrder, Safe
    <3>2. CASE stage[d] = "wait"
      <4>1. nonce[d] # n
        BY <2>3, <2>11, <3>2 DEF IInv, InOrder, Held
      <4> QED
        BY <1>1, <2>4, <2>5, <2>7, <2>11, <3>1, <4>1, LeftAlone
    <3>3. CASE stage[d] # "wait"
      <4>1. nonce[d] = NoNonce
        BY <3>3 DEF IInv, InOrder, Held
      <4> QED
        BY <1>1, <2>3, <2>4, <2>5, <2>7, <2>11, <3>1, <4>1, LeftAlone
    <3> QED
      BY <3>2, <3>3
  <2> QED
    BY <2>8, <2>9, <2>10, <2>11 DEF IInv
<1> QED
  BY <1>3, <1>4

\* An answer that reaches its client ends the run only as the status says.
LEMMA TakenInOrder ==
    ASSUME IInv, NEW c \in Clients, stage[c] = "wait", NEW status, Take(c, status),
           c \in hit' \/ status \in {200, 429}
    PROVE  InOrder(c)'
<1>0. TypeOK
  BY DEF IInv
<1>1. CASE status = 200 /\ stage'[c] = "ask" /\ outcome'[c] = outcome[c]
  <2>1. nonce'[c] = NoNonce
    BY <1>0, TakeEffect
  <2>2. outcome[c] = "none"
    BY DEF IInv, InOrder, Held
  <2> QED
    BY <1>1, <2>1, <2>2 DEF InOrder, Held, Owned, Safe, Blamed
<1>2. CASE ~(status = 200 /\ stage'[c] = "ask" /\ outcome'[c] = outcome[c])
  <2>1. /\ nonce'[c] = NoNonce /\ stage'[c] = "exited" /\ path'[c] = "/cert"
        /\ outcome'[c] = IF status = 200 THEN "done"
                         ELSE IF status = 429 THEN "refused" ELSE "failed"
    BY <1>0, <1>2, TakeEffect
  <2> QED
    BY <2>1, EndedInOrder
<1> QED
  BY <1>1, <1>2

\* A protected request and its answer.
LEMMA DeliverInv == ASSUME IInv, NEW m \in net, Deliver(m) PROVE IInv'
<1> DEFINE c == m.client
           status == Status(m, TRUE)
<1>0. TypeOK /\ c \in Clients
  BY MessageTyped DEF IInv
<1>1. /\ Serve(m) /\ net' = net \ {m}
      /\ UNCHANGED <<via, hit, mishaps>>
      /\ IF Awaited(m) THEN Take(c, status) ELSE UNCHANGED client_vars
  BY DEF Deliver
<1>2. strays' \in [Addresses -> Nat]
  BY <1>0, AddressTyped DEF Deliver, StrayUnlessAwaited, Stray, TypeOK
<1>3. /\ tokens' \in [Addresses -> 0 .. Capacity]
      /\ spent' \subseteq Nonces /\ valid' = valid
  BY <1>0, <1>1, ServeEffect
<1>4. ClientsTyped' /\ OnlyOf(c)
  <2>1. CASE Awaited(m)
    BY <1>0, <1>1, <2>1, TakeEffect
  <2>2. CASE ~Awaited(m)
    BY <1>0, <1>1, <2>2 DEF client_vars, OnlyOf, ClientsTyped, TypeOK
  <2> QED
    BY <2>1, <2>2
<1>5. TypeOK'
  BY <1>0, <1>1, <1>2, <1>3, <1>4 DEF TypeOK, ClientsTyped
<1>6. Named'
  BY <1>1 DEF IInv, Named
<1>7. ASSUME NEW d \in Clients, d # c PROVE InOrder(d)'
  <2>1. stage[d] = "wait" /\ d \notin hit' =>
            Request(d, nonce[d]) \in net' /\ nonce[d] \in valid' \ spent'
    BY <1>1, <1>7, ServeSpares
  <2> QED
    BY <1>1, <1>4, <1>7, <2>1, LeftAlone
<1>8. InOrder(c)'
  <2>1. CASE Awaited(m)
    <3>1. stage[c] = "wait" /\ m.nonce = nonce[c]
      BY <2>1 DEF Awaited, AtStage
    <3>2. c \notin hit => Authentic(m)
      BY <1>0, <3>1 DEF IInv, InOrder, Safe, Authentic
    <3>3. Authentic(m) => status \in {200, 429}
      BY DEF Status
    <3> HIDE DEF status
    <3> QED
      BY <1>0, <1>1, <2>1, <3>1, <3>2, <3>3, TakenInOrder
  <2>2. CASE ~Awaited(m)
    <3>1. UNCHANGED <<stage, path, nonce, outcome>>
      BY <1>1, <2>2 DEF client_vars
    <3>2. Request(c, nonce[c])' = Request(c, nonce[c])
      BY <3>1 DEF Request
    <3>3. stage[c] = "wait" /\ c \notin hit' =>
              Request(c, nonce[c]) \in net' /\ nonce[c] \in valid' \ spent'
      BY <1>0, <1>1, <2>2, ServeSpares
    <3>4. InOrder(c)
      BY <1>0 DEF IInv
    <3> HIDE DEF c
    <3>5. Held(c)' /\ Blamed(c)'
      BY <1>1, <3>1, <3>4 DEF InOrder, Held, Blamed
    <3>6. Owned(c)'
      BY <1>1, <3>1, <3>2, <3>4 DEF InOrder, Owned
    <3>7. Safe(c)'
      BY <3>1, <3>2, <3>3 DEF Safe
    <3> QED
      BY <3>5, <3>6, <3>7 DEF InOrder
  <2> QED
    BY <2>1, <2>2
<1> QED
  BY <1>5, <1>6, <1>7, <1>8 DEF IInv

\* A client whose request is not under way any more has had a mishap.
LEMMA GiveUpInv == ASSUME IInv, NEW c \in Clients, GiveUp(c) PROVE IInv'
<1>0. TypeOK
  BY DEF IInv
<1>1. /\ Ends(c, "failed")
      /\ UNCHANGED <<via, tokens, valid, spent, net, hit, strays, mishaps>>
  BY DEF GiveUp, server_vars, history
<1>2. c \in hit
  BY DEF GiveUp, AtStage, IInv, InOrder, Safe
<1>3. ClientsTyped'
  BY <1>0, <1>1, EndsEffect
<1>4. TypeOK'
  BY <1>0, <1>1, <1>3 DEF TypeOK, ClientsTyped
<1>5. Named' /\ (\A d \in Clients : InOrder(d))'
  BY <1>1, <1>2, EndsInOrder
<1> QED
  BY <1>4, <1>5 DEF IInv

\* A mishap strikes clients, and is counted.
LEMMA MishapEffect ==
    ASSUME TypeOK, NEW struck \in SUBSET Clients, Mishap(struck)
    PROVE  hit' = hit \cup struck /\ hit' \subseteq Clients /\ mishaps' \in 0 .. MaxMishaps
BY ProvisioningAssumption DEF Mishap, TypeOK

\* GET /challenge without an answer.
LEMMA LoseChallengeInv == ASSUME IInv, NEW c \in Clients, LoseChallenge(c) PROVE IInv'
<1>0. TypeOK
  BY DEF IInv
<1>1. /\ Ends(c, "failed") /\ Mishap({c})
      /\ UNCHANGED <<via, valid, spent, net, strays>>
  BY DEF LoseChallenge
<1>2. tokens' \in [Addresses -> 0 .. Capacity]
  BY <1>0, MeterEffect DEF LoseChallenge, TypeOK
<1>3. hit' = hit \cup {c} /\ hit' \subseteq Clients /\ mishaps' \in 0 .. MaxMishaps
  BY <1>0, <1>1, MishapEffect
<1>4. ClientsTyped'
  BY <1>0, <1>1, EndsEffect
<1>5. TypeOK'
  BY <1>0, <1>1, <1>2, <1>3, <1>4 DEF TypeOK, ClientsTyped
<1>6. Named' /\ (\A d \in Clients : InOrder(d))'
  BY <1>1, <1>3, EndsInOrder
<1> QED
  BY <1>5, <1>6 DEF IInv

\* An answer later than the timeout.
LEMMA TimeOutInv == ASSUME IInv, NEW m \in net, TimeOut(m) PROVE IInv'
<1> DEFINE c == m.client
<1>0. TypeOK /\ c \in Clients
  BY MessageTyped DEF IInv
<1>1. /\ Ends(c, "failed") /\ Mishap({c})
      /\ UNCHANGED <<via, tokens, valid, spent, net, strays>>
  BY DEF TimeOut, server_vars
<1> HIDE DEF c
<1>3. hit' = hit \cup {c} /\ hit' \subseteq Clients /\ mishaps' \in 0 .. MaxMishaps
  BY <1>0, <1>1, MishapEffect
<1>4. ClientsTyped'
  BY <1>0, <1>1, EndsEffect
<1>5. TypeOK'
  BY <1>0, <1>1, <1>3, <1>4 DEF TypeOK, ClientsTyped
<1>6. Named' /\ (\A d \in Clients : InOrder(d))'
  BY <1>0, <1>1, <1>3, EndsInOrder
<1> QED
  BY <1>5, <1>6 DEF IInv

\* A lost request.
LEMMA LoseRequestInv == ASSUME IInv, NEW m \in net, LoseRequest(m) PROVE IInv'
<1>0. TypeOK /\ m.client \in Clients
  BY MessageTyped DEF IInv
<1>1. /\ Mishap({m.client}) /\ net' = net \ {m}
      /\ UNCHANGED <<via, tokens, valid, spent, client_vars, strays>>
  BY DEF LoseRequest, server_vars
<1>2. /\ hit' = hit \cup {m.client} /\ hit' \subseteq Clients /\ mishaps' \in 0 .. MaxMishaps
  BY <1>0, <1>1, MishapEffect
<1>3. TypeOK'
  BY <1>0, <1>1, <1>2 DEF TypeOK, client_vars
<1>4. ASSUME NEW d \in Clients, stage[d] = "wait", d \notin hit'
      PROVE  Request(d, nonce[d]) \in net' /\ nonce[d] \in valid' \ spent'
  <2>1. m # Request(d, nonce[d])
    BY <1>2, <1>4 DEF Request
  <2> QED
    BY <1>1, <1>2, <1>4, <2>1 DEF IInv, InOrder, Safe
<1> QED
  BY <1>1, <1>2, <1>3, <1>4, AllLeftAlone DEF IInv

\* A request served in vain: its answer is lost, or it is a copy.
LEMMA ServedInVain ==
    ASSUME IInv, NEW m \in net, Serve(m), Mishap({m.client}), net' \in {net, net \ {m}},
           UNCHANGED <<via, client_vars>>, strays' = strays \/ Stray(m)
    PROVE  IInv'
<1>0. TypeOK /\ m.client \in Clients
  BY MessageTyped DEF IInv
<1>1. /\ hit' = hit \cup {m.client} /\ hit' \subseteq Clients /\ mishaps' \in 0 .. MaxMishaps
  BY <1>0, MishapEffect
<1>2. /\ tokens' \in [Addresses -> 0 .. Capacity]
      /\ spent' \subseteq Nonces /\ valid' = valid
  BY <1>0, ServeEffect
<1>3. strays' \in [Addresses -> Nat]
  BY <1>0, AddressTyped DEF Stray, TypeOK
<1>4. TypeOK'
  BY <1>0, <1>1, <1>2, <1>3 DEF TypeOK, client_vars
<1>5. ASSUME NEW d \in Clients, stage[d] = "wait", d \notin hit'
      PROVE  Request(d, nonce[d]) \in net' /\ nonce[d] \in valid' \ spent'
  BY <1>1, <1>5, ServeSpares
<1> QED
  BY <1>1, <1>4, <1>5, AllLeftAlone DEF IInv

\* A lost answer.
LEMMA LoseAnswerInv == ASSUME IInv, NEW m \in net, LoseAnswer(m) PROVE IInv'
<1>1. strays' = strays \/ Stray(m)
  BY DEF LoseAnswer, StrayUnlessAwaited
<1> QED
  BY <1>1, ServedInVain DEF LoseAnswer

\* A repeated request.
LEMMA RepeatInv == ASSUME IInv, NEW m \in net, Repeat(m) PROVE IInv'
BY ServedInVain DEF Repeat

\* A PEM file that cannot be read.
LEMMA FailToReadInv == ASSUME IInv, NEW m \in net, FailToRead(m) PROVE IInv'
<1> DEFINE c == m.client
           status == Status(m, FALSE)
<1>0. TypeOK /\ c \in Clients
  BY MessageTyped DEF IInv
<1>1. /\ Serve(m) /\ net' = net \ {m} /\ Mishap({c})
      /\ UNCHANGED <<via, strays>>
      /\ Take(c, status)
      /\ stage[c] = "wait"
  BY DEF FailToRead, Awaited, AtStage
<1> HIDE DEF status
<1>2. hit' = hit \cup {c} /\ hit' \subseteq Clients /\ mishaps' \in 0 .. MaxMishaps
  BY <1>0, <1>1, MishapEffect
<1>3. /\ tokens' \in [Addresses -> 0 .. Capacity]
      /\ spent' \subseteq Nonces /\ valid' = valid
  BY <1>0, <1>1, ServeEffect
<1>4. ClientsTyped' /\ OnlyOf(c)
  BY <1>0, <1>1, TakeEffect
<1>5. TypeOK'
  BY <1>0, <1>1, <1>2, <1>3, <1>4 DEF TypeOK, ClientsTyped
<1>6. Named'
  BY <1>1 DEF IInv, Named
<1>7. ASSUME NEW d \in Clients, d # c PROVE InOrder(d)'
  <2>1. stage[d] = "wait" /\ d \notin hit' =>
            Request(d, nonce[d]) \in net' /\ nonce[d] \in valid' \ spent'
    BY <1>1, <1>2, <1>7, ServeSpares
  <2> QED
    BY <1>1, <1>2, <1>4, <1>7, <2>1, LeftAlone
<1>8. InOrder(c)'
  BY <1>0, <1>1, <1>2, TakenInOrder
<1> QED
  BY <1>5, <1>6, <1>7, <1>8 DEF IInv

\* Challenges that grow too old, or are of a process that is gone: whoever
\* holds one is struck.
LEMMA VoidedInOrder ==
    ASSUME IInv, UNCHANGED <<net, client_vars>>, hit \subseteq hit',
           \A d \in Clients :
               nonce[d] \in Nonces \ (valid' \ spent') => nonce[d] \notin valid \ spent \/ d \in hit'
    PROVE  Named' /\ (\A d \in Clients : InOrder(d))'
<1>1. ASSUME NEW d \in Clients, stage[d] = "wait", d \notin hit'
      PROVE  Request(d, nonce[d]) \in net' /\ nonce[d] \in valid' \ spent'
  <2>1. Request(d, nonce[d]) \in net /\ nonce[d] \in valid \ spent
    BY <1>1 DEF IInv, InOrder, Safe
  <2>2. nonce[d] \in Nonces
    BY <2>1 DEF IInv, TypeOK
  <2> QED
    BY <1>1, <2>1, <2>2
<1> QED
  BY <1>1, AllLeftAlone

\* TTL seconds pass.
LEMMA ExpireInv == ASSUME IInv, NEW n \in valid \ spent, Expire(n) PROVE IInv'
<1>0. TypeOK /\ Holders({n}) \in SUBSET Clients
  BY DEF IInv, Holders
<1>1. /\ Mishap(Holders({n})) /\ valid' = valid \ {n}
      /\ UNCHANGED <<via, tokens, spent, net, client_vars, strays>>
  BY DEF Expire
<1>2. /\ hit' = hit \cup Holders({n}) /\ hit' \subseteq Clients /\ mishaps' \in 0 .. MaxMishaps
  BY <1>0, <1>1, MishapEffect
<1>3. TypeOK'
  BY <1>0, <1>1, <1>2 DEF TypeOK, client_vars
<1>4. \A d \in Clients :
          nonce[d] \in Nonces \ (valid' \ spent') => nonce[d] \notin valid \ spent \/ d \in hit'
  BY <1>1, <1>2 DEF Holders
<1> QED
  BY <1>1, <1>2, <1>3, <1>4, VoidedInOrder DEF IInv

\* Buckets start full.
LEMMA FullBucketsTyped == FullBuckets \in [Addresses -> 0 .. Capacity]
BY ProvisioningAssumption DEF FullBuckets

\* Another process.
LEMMA RestartInv == ASSUME IInv, Restart PROVE IInv'
<1>0. TypeOK /\ Holders(Nonces) \in SUBSET Clients
  BY DEF IInv, Holders
<1>1. /\ Mishap(Holders(Nonces)) /\ tokens' = FullBuckets /\ valid' = {} /\ spent' = {}
      /\ UNCHANGED <<via, net, client_vars, strays>>
  BY DEF Restart
<1>2. /\ hit' = hit \cup Holders(Nonces) /\ hit' \subseteq Clients /\ mishaps' \in 0 .. MaxMishaps
  BY <1>0, <1>1, MishapEffect
<1>3. TypeOK'
  BY <1>0, <1>1, <1>2, FullBucketsTyped DEF TypeOK, client_vars
<1>4. \A d \in Clients :
          nonce[d] \in Nonces \ (valid' \ spent') => nonce[d] \notin valid \ spent \/ d \in hit'
  BY <1>2 DEF Holders
<1> QED
  BY <1>1, <1>2, <1>3, <1>4, VoidedInOrder DEF IInv

\* A refill.
LEMMA RefillInv == ASSUME IInv, Refill PROVE IInv'
<1>1. UNCHANGED <<via, valid, spent, net, client_vars, hit, strays, mishaps>>
  BY DEF Refill, history
<1>2. tokens' \in [Addresses -> 0 .. Capacity]
  BY ProvisioningAssumption DEF Refill, IInv, TypeOK
<1>3. TypeOK'
  BY <1>1, <1>2 DEF IInv, TypeOK, client_vars
<1> QED
  BY <1>1, <1>3, AllLeftAlone DEF IInv, InOrder, Safe

\* The next day.
LEMMA NewDayInv == ASSUME IInv, NewDay PROVE IInv'
<1>1. /\ tokens' = FullBuckets /\ valid' = {} /\ spent' = {}
      /\ stage' = [c \in Clients |-> "ask"] /\ outcome' = [c \in Clients |-> "none"]
      /\ hit' = {} /\ strays' = [a \in Addresses |-> 0]
      /\ UNCHANGED <<via, net, path, nonce, mishaps>>
  BY DEF NewDay
<1>2. TypeOK'
  BY <1>1, FullBucketsTyped DEF IInv, TypeOK
<1>3. Named'
  BY <1>1 DEF IInv, Named
<1>4. ASSUME NEW d \in Clients PROVE InOrder(d)'
  <2>1. nonce[d] = NoNonce
    BY DEF NewDay, AtStage, IInv, InOrder, Held
  <2> QED
    BY <1>1, <2>1 DEF InOrder, Held, Owned, Safe, Blamed
<1> QED
  BY <1>2, <1>3, <1>4 DEF IInv

\* Nothing happens.
LEMMA StutterInv == ASSUME IInv, UNCHANGED vars PROVE IInv'
<1>1. /\ UNCHANGED <<via, tokens, valid, spent, net, hit, strays, mishaps>>
      /\ UNCHANGED client_vars
  BY DEF vars, server_vars, history
<1>2. TypeOK'
  BY <1>1 DEF IInv, TypeOK, client_vars
<1> QED
  BY <1>1, <1>2, AllLeftAlone DEF IInv, InOrder, Safe

-----------------------------------------------------------------------------
\* The actions of a step, one by one.
LEMMA StepCases ==
    ASSUME Next
    PROVE  \/ \E c \in Clients : \/ Ask(c)
                                 \/ GiveUp(c)
                                 \/ LoseChallenge(c)
           \/ \E m \in net : \/ Deliver(m)
                             \/ LoseRequest(m)
                             \/ LoseAnswer(m)
                             \/ Repeat(m)
                             \/ FailToRead(m)
                             \/ TimeOut(m)
           \/ \E n \in valid \ spent : Expire(n)
           \/ Restart
           \/ Refill
           \/ NewDay
BY DEF Next, Progress, Trouble

\* Every step keeps the invariant.
LEMMA StepInv == ASSUME IInv, [Next]_vars PROVE IInv'
<1>1. CASE UNCHANGED vars
  BY <1>1, StutterInv
<1>2. CASE Next
  BY <1>2, StepCases, AskInv, GiveUpInv, LoseChallengeInv, DeliverInv, LoseRequestInv,
     LoseAnswerInv, RepeatInv, FailToReadInv, TimeOutInv, ExpireInv, RestartInv,
     RefillInv, NewDayInv
<1> QED
  BY <1>1, <1>2

\* Every reachable state has the invariant the theorems below rest on: what a
\* client that had no mishap waits for is under way with a good challenge, and
\* nobody else can use that challenge up.
THEOREM ProvisioningInvariant == Spec => []IInv
BY InitInv, StepInv, PTL DEF Spec

\* Every variable keeps to its set.
THEOREM ProvisioningTyped == Spec => []TypeOK
<1>1. IInv => TypeOK
  BY DEF IInv
<1> QED
  BY <1>1, ProvisioningInvariant, PTL

\* A run fails only for a mishap of its own day that struck its own client.
THEOREM NoRunFailsAnother == Spec => []FailsOnlyForMishap
<1>1. IInv => FailsOnlyForMishap
  BY DEF IInv, InOrder, Blamed, FailsOnlyForMishap
<1> QED
  BY <1>1, ProvisioningInvariant, PTL

-----------------------------------------------------------------------------
\* Who is refused, and why.

\* The tokens that a run has cost, at most, and the four it takes when it has
\* ended; one less if its last request was refused.
Used(c) ==
    CASE stage[c] = "ask" -> IF path[c] = "/cert" THEN 0 ELSE 2
      [] stage[c] = "wait" -> (IF path[c] = "/cert" THEN 1 ELSE 3)
                                + (IF Request(c, nonce[c]) \in net THEN 0 ELSE 1)
      [] OTHER -> IF outcome[c] = "refused" THEN 3 ELSE 4

\* They are counted as pairs, of a run and a number from 1 to 4.
At(a) == {c \in Clients : Address(c) = a}

Places(a) == At(a) \X (1 .. 4)

Slots(a) == {s \in Places(a) : s[2] <= Used(s[1])}

\* What is missing from a bucket was used by the runs of its address, or by
\* requests nobody waited for.
Covered(a) == Capacity <= tokens[a] + Cardinality(Slots(a)) + strays[a]

Refused(a) == {c \in At(a) : outcome[c] = "refused"}

Crowded(a) ==
    Refused(a) # {} =>
        Capacity + Cardinality(Refused(a)) <= 4 * Cardinality(At(a)) + strays[a]

CInv == IInv /\ \A a \in Addresses : Covered(a) /\ Crowded(a)

\* A step raises what runs have used and strays, never the tokens they explain.
Rises ==
    /\ \A c \in Clients : Used(c)' >= Used(c)
    /\ \A a \in Addresses : strays'[a] >= strays[a]
    /\ via' = via

Pays(a) ==
    /\ \A b \in Addresses \ {a} : tokens'[b] = tokens[b]
    /\ \/ tokens'[a] = tokens[a]
       \/ /\ tokens'[a] = tokens[a] - 1
          /\ \/ strays'[a] = strays[a] + 1
             \/ \E c \in At(a) : Used(c) < 4 /\ Used(c)' >= Used(c) + 1

RefusedForWant ==
    \A c \in Clients :
        outcome'[c] = "refused" => outcome[c] = "refused" \/ tokens'[Address(c)] = 0

\* A run uses from none to four.
LEMMA UsedTyped ==
    ASSUME TypeOK, TypeOK', NEW c \in Clients
    PROVE  Used(c) \in 0 .. 4 /\ Used(c)' \in 0 .. 4
BY DEF TypeOK, Used

\* A run another client's step leaves alone has used as much as before, or, if
\* its request was lost, more.
LEMMA UsedElsewhere ==
    ASSUME TypeOK, TypeOK', NEW d \in Clients,
           stage'[d] = stage[d], path'[d] = path[d],
           nonce'[d] = nonce[d], outcome'[d] = outcome[d],
           \A m \in net' \ net : m.client # d
    PROVE  Used(d)' >= Used(d)
<1>1. Request(d, nonce[d])' = Request(d, nonce[d]) /\ Request(d, nonce[d]).client = d
  BY DEF Request
<1>2. Request(d, nonce[d])' \in net' => Request(d, nonce[d]) \in net
  BY <1>1
<1>3. Used(d)' \in 0 .. 4 /\ Used(d) \in 0 .. 4
  BY UsedTyped
<1> QED
  BY <1>1, <1>2, <1>3 DEF Used

\* The same of all runs but one.
LEMMA RisesElsewhere ==
    ASSUME TypeOK, TypeOK', NEW c \in Clients, OnlyOf(c), Used(c)' >= Used(c),
           \A m \in net' \ net : m.client = c
    PROVE  \A d \in Clients : Used(d)' >= Used(d)
<1> SUFFICES ASSUME NEW d \in Clients, d # c PROVE Used(d)' >= Used(d)
  OBVIOUS
<1>1. /\ stage'[d] = stage[d] /\ path'[d] = path[d]
      /\ nonce'[d] = nonce[d] /\ outcome'[d] = outcome[d]
  BY DEF OnlyOf
<1> QED
  BY <1>1, UsedElsewhere

\* And of all runs.
LEMMA RisesEverywhere ==
    ASSUME TypeOK, TypeOK', UNCHANGED client_vars, net' \subseteq net
    PROVE  \A d \in Clients : Used(d)' >= Used(d)
<1>1. UNCHANGED <<stage, path, nonce, outcome>>
  BY DEF client_vars
<1> QED
  BY <1>1, UsedElsewhere

\* A run that ended has used all it can.
LEMMA UsedAtEnd ==
    ASSUME NEW c \in Clients, stage'[c] = "exited"
    PROVE  Used(c)' = IF outcome'[c] = "refused" THEN 3 ELSE 4
BY DEF Used

\* What a run takes in answer to what it awaited costs one more token, unless
\* it was refused for want of one.
LEMMA UsedByAnswer ==
    ASSUME IInv, IInv', NEW m \in net, Awaited(m), NEW readable \in BOOLEAN,
           Take(m.client, Status(m, readable))
    PROVE  /\ Used(m.client) < 4
           /\ Used(m.client)' >= Used(m.client)
           /\ Allowed(m.client) => Used(m.client)' >= Used(m.client) + 1
           /\ outcome'[m.client] = "refused" => ~Allowed(m.client)
<1> DEFINE c == m.client
           status == Status(m, readable)
<1>0. TypeOK /\ TypeOK' /\ c \in Clients
  BY MessageTyped DEF IInv
<1>1. /\ stage[c] = "wait" /\ path[c] \in Paths
      /\ m = Request(c, nonce[c])
  <2>1. stage[c] = "wait" /\ m.nonce = nonce[c]
    BY DEF Awaited, AtStage
  <2> QED
    BY <1>0, <2>1 DEF IInv, InOrder, Owned, TypeOK
<1>2. Used(c) = IF path[c] = "/cert" THEN 1 ELSE 3
  BY <1>1 DEF Used
<1>3. status \in {200, 401, 429, 500} /\ (status = 429 <=> ~Allowed(c))
  BY DEF Status
<1>4. outcome[c] = "none"
  BY <1>0, <1>1 DEF IInv, InOrder, Held
<1> HIDE DEF status
<1>5. CASE /\ status = 200 /\ path[c] = "/cert"
           /\ stage'[c] = "ask" /\ path'[c] = "/privkey" /\ outcome'[c] = outcome[c]
  <2>1. Used(c)' = 2
    BY <1>5 DEF Used
  <2> QED
    BY <1>2, <1>3, <1>4, <1>5, <2>1
<1>6. CASE /\ stage'[c] = "exited" /\ path'[c] = "/cert"
           /\ outcome'[c] = IF status = 200 THEN "done"
                            ELSE IF status = 429 THEN "refused" ELSE "failed"
  <2>1. Used(c)' = IF outcome'[c] = "refused" THEN 3 ELSE 4
    BY <1>0, <1>6, UsedAtEnd
  <2>2. outcome'[c] = "refused" <=> status = 429
    BY <1>6
  <2> QED
    BY <1>2, <1>3, <2>1, <2>2
<1> QED
  BY <1>0, <1>5, <1>6, TakeEffect DEF status

\* A request nobody awaits is counted where it is metered.
LEMMA StrayEffect ==
    ASSUME TypeOK, NEW m \in net, Stray(m)
    PROVE  /\ Address(m.client) \in Addresses
           /\ strays'[Address(m.client)] = strays[Address(m.client)] + 1
           /\ \A a \in Addresses : strays'[a] >= strays[a]
BY MessageTyped, AddressTyped DEF Stray, TypeOK

\* What metering takes from a bucket.
LEMMA MeterPays ==
    ASSUME TypeOK, NEW c \in Clients, Meter(c),
           Allowed(c) => \/ strays'[Address(c)] = strays[Address(c)] + 1
                         \/ \E d \in At(Address(c)) : Used(d) < 4 /\ Used(d)' >= Used(d) + 1
    PROVE  Pays(Address(c))
<1>1. Address(c) \in Addresses /\ tokens[Address(c)] \in Nat
  BY AddressTyped, ProvisioningAssumption DEF TypeOK
<1> QED
  BY <1>1, MeterEffect DEF Pays, Allowed

\* An answer reaches its client, with the file read or not.
LEMMA AnswerPays ==
    ASSUME IInv, IInv', NEW m \in net, Awaited(m), NEW readable \in BOOLEAN,
           Take(m.client, Status(m, readable)), Serve(m), net' = net \ {m},
           UNCHANGED <<via, strays>>
    PROVE  Rises /\ Pays(Address(m.client)) /\ RefusedForWant
<1> DEFINE c == m.client
<1>0. TypeOK /\ TypeOK' /\ c \in Clients
  BY MessageTyped DEF IInv
<1>1. /\ Used(c) < 4
      /\ Used(c)' >= Used(c)
      /\ Allowed(c) => Used(c)' >= Used(c) + 1
      /\ outcome'[c] = "refused" => ~Allowed(c)
  BY UsedByAnswer
<1>2. OnlyOf(c)
  BY <1>0, TakeEffect
<1>3. Meter(c)
  BY DEF Serve
<1>4. c \in At(Address(c))
  BY <1>0 DEF At
<1> HIDE DEF c
<1>5. Rises
  <2>1. \A d \in Clients : Used(d)' >= Used(d)
    BY <1>0, <1>1, <1>2, RisesElsewhere
  <2>2. \A a \in Addresses : strays'[a] >= strays[a]
    BY <1>0 DEF TypeOK
  <2> QED
    BY <2>1, <2>2 DEF Rises
<1>6. Pays(Address(c))
  BY <1>0, <1>1, <1>3, <1>4, MeterPays
<1>7. RefusedForWant
  <2>1. ~Allowed(c) => tokens'[Address(c)] = 0
    BY <1>0, <1>3, MeterEffect
  <2> QED
    BY <1>1, <1>2, <2>1 DEF RefusedForWant, OnlyOf
<1> QED
  BY <1>5, <1>6, <1>7 DEF c

\* A request is served in vain.
LEMMA VainPays ==
    ASSUME IInv, IInv', NEW m \in net, Serve(m), net' \in {net, net \ {m}},
           UNCHANGED <<via, client_vars>>,
           \/ Stray(m)
           \/ Awaited(m) /\ net' = net \ {m} /\ UNCHANGED strays
    PROVE  Rises /\ Pays(Address(m.client)) /\ RefusedForWant
<1> DEFINE c == m.client
<1>0. TypeOK /\ TypeOK' /\ c \in Clients
  BY MessageTyped DEF IInv
<1>1. \A d \in Clients : Used(d)' >= Used(d)
  BY <1>0, RisesEverywhere
<1>2. UNCHANGED <<stage, path, nonce, outcome>>
  BY DEF client_vars
<1>3. Meter(c)
  BY DEF Serve
<1>4. RefusedForWant
  BY <1>2 DEF RefusedForWant
<1>5. CASE Stray(m)
  <2>1. /\ strays'[Address(c)] = strays[Address(c)] + 1
        /\ \A a \in Addresses : strays'[a] >= strays[a]
    BY <1>0, <1>5, StrayEffect
  <2>2. Pays(Address(c))
    BY <1>0, <1>3, <2>1, MeterPays
  <2> QED
    BY <1>1, <1>4, <2>1, <2>2 DEF Rises
<1>6. CASE Awaited(m) /\ net' = net \ {m} /\ UNCHANGED strays
  <2>1. /\ stage[c] = "wait" /\ m = Request(c, nonce[c])
    <3>1. stage[c] = "wait" /\ m.nonce = nonce[c]
      BY <1>6 DEF Awaited, AtStage
    <3> QED
      BY <1>0, <3>1 DEF IInv, InOrder, Owned
  <2>2. Request(c, nonce[c])' = m
    BY <1>2, <2>1 DEF Request
  <2>3. Used(c) = IF path[c] = "/cert" THEN 1 ELSE 3
    BY <2>1 DEF Used
  <2>4. Used(c)' = (IF path[c] = "/cert" THEN 1 ELSE 3) + 1
    BY <1>2, <1>6, <2>1, <2>2 DEF Used
  <2>5. c \in At(Address(c))
    BY <1>0 DEF At
  <2> HIDE DEF c
  <2>6. Pays(Address(c))
    BY <1>0, <1>3, <2>3, <2>4, <2>5, MeterPays
  <2>7. \A a \in Addresses : strays'[a] >= strays[a]
    BY <1>0, <1>6 DEF TypeOK
  <2> QED
    BY <1>1, <1>4, <2>6, <2>7 DEF Rises, c
<1> QED
  BY <1>5, <1>6

\* GET /challenge is metered, and a refusal ends the run.
LEMMA AskPays ==
    ASSUME IInv, IInv', NEW c \in Clients, Ask(c)
    PROVE  Rises /\ Pays(Address(c)) /\ RefusedForWant
<1>0. TypeOK /\ TypeOK'
  BY DEF IInv
<1>1. /\ stage[c] = "ask" /\ path[c] \in Paths /\ Meter(c)
      /\ UNCHANGED <<via, strays>>
  BY <1>0 DEF Ask, AtStage, history, TypeOK
<1>2. Used(c) = IF path[c] = "/cert" THEN 0 ELSE 2
  BY <1>1 DEF Used
<1>3. \A a \in Addresses : strays'[a] >= strays[a]
  BY <1>0, <1>1 DEF TypeOK
<1>4. c \in At(Address(c))
  BY DEF At
<1>5. CASE ~Allowed(c) /\ Ends(c, "refused") /\ UNCHANGED net
  <2>1. OnlyOf(c) /\ stage'[c] = "exited" /\ outcome'[c] = "refused"
    BY <1>0, <1>5, EndsEffect
  <2>2. Used(c)' = 3
    BY <2>1, UsedAtEnd
  <2>3. \A d \in Clients : Used(d)' >= Used(d)
    BY <1>0, <1>2, <1>5, <2>1, <2>2, RisesElsewhere
  <2>4. Pays(Address(c))
    BY <1>0, <1>1, <1>5, MeterPays
  <2>5. tokens'[Address(c)] = 0
    BY <1>0, <1>1, <1>5, MeterEffect
  <2>6. RefusedForWant
    BY <2>1, <2>5 DEF RefusedForWant, OnlyOf
  <2> QED
    BY <1>1, <1>3, <2>3, <2>4, <2>6 DEF Rises
<1>6. CASE ~(~Allowed(c) /\ Ends(c, "refused") /\ UNCHANGED net)
  <2>1. PICK i \in Undrawn(c) :
            /\ nonce' = [nonce EXCEPT ![c] = <<c, i>>]
            /\ net' = net \cup {Request(c, <<c, i>>)}
    BY <1>6 DEF Ask
  <2>2. /\ stage' = [stage EXCEPT ![c] = "wait"]
        /\ UNCHANGED <<path, outcome>>
    BY <1>6 DEF Ask, MovesTo
  <2>3. OnlyOf(c) /\ stage'[c] = "wait" /\ path'[c] = path[c]
    BY <1>0, <2>1, <2>2 DEF OnlyOf, TypeOK
  <2>4. Used(c)' >= Used(c) + 1 /\ Used(c) < 4
    BY <1>1, <1>2, <2>3 DEF Used, Paths
  <2>5. \A m \in net' \ net : m.client = c
    BY <2>1 DEF Request
  <2>6. \A d \in Clients : Used(d)' >= Used(d)
    BY <1>0, <1>2, <2>3, <2>4, <2>5, RisesElsewhere, UsedTyped
  <2>7. Pays(Address(c))
    BY <1>0, <1>1, <1>4, <2>4, MeterPays
  <2>8. RefusedForWant
    BY <2>2 DEF RefusedForWant
  <2> QED
    BY <1>1, <1>3, <2>6, <2>7, <2>8 DEF Rises
<1> QED
  BY <1>5, <1>6

\* A run that fails has used all it can.
LEMMA FailurePays ==
    ASSUME IInv, IInv', NEW c \in Clients, Ends(c, "failed"),
           UNCHANGED <<via, net, strays>>,
           UNCHANGED tokens \/ (Meter(c) /\ stage[c] = "ask")
    PROVE  Rises /\ Pays(Address(c)) /\ RefusedForWant
<1>0. TypeOK /\ TypeOK'
  BY DEF IInv
<1>1. OnlyOf(c) /\ stage'[c] = "exited" /\ outcome'[c] = "failed"
  BY <1>0, EndsEffect
<1>2. Used(c)' = 4 /\ Used(c) \in 0 .. 4
  BY <1>0, <1>1, UsedAtEnd, UsedTyped
<1>3. \A d \in Clients : Used(d)' >= Used(d)
  BY <1>0, <1>1, <1>2, RisesElsewhere
<1>4. \A a \in Addresses : strays'[a] >= strays[a]
  BY <1>0 DEF TypeOK
<1>5. ASSUME UNCHANGED tokens PROVE Pays(Address(c))
  BY <1>5 DEF Pays
<1>6. ASSUME Meter(c), stage[c] = "ask" PROVE Pays(Address(c))
  <2>1. Used(c) < 4 /\ Used(c)' >= Used(c) + 1
    BY <1>2, <1>6 DEF Used
  <2>2. c \in At(Address(c))
    BY DEF At
  <2> QED
    BY <1>0, <1>6, <2>1, <2>2, MeterPays
<1>7. RefusedForWant
  BY <1>1 DEF RefusedForWant, OnlyOf
<1>8. Pays(Address(c))
  BY <1>5, <1>6
<1> QED
  BY <1>3, <1>4, <1>7, <1>8 DEF Rises

\* Nothing is metered, and no run goes on.
LEMMA NothingPays ==
    ASSUME IInv, IInv', UNCHANGED <<via, tokens, client_vars, strays>>, net' \subseteq net,
           NEW a \in Addresses
    PROVE  Rises /\ Pays(a) /\ RefusedForWant
<1>0. TypeOK /\ TypeOK'
  BY DEF IInv
<1>1. \A d \in Clients : Used(d)' >= Used(d)
  BY <1>0, RisesEverywhere
<1>2. \A b \in Addresses : strays'[b] >= strays[b]
  BY <1>0 DEF TypeOK
<1>3. outcome' = outcome
  BY DEF client_vars
<1> QED
  BY <1>1, <1>2, <1>3 DEF Rises, Pays, RefusedForWant

\* Every step but a refill, a restart and the next day is paid for.
LEMMA StepPays ==
    ASSUME IInv, IInv', Next, ~Refill, ~Restart, ~NewDay, Addresses # {}
    PROVE  Rises /\ RefusedForWant /\ \E a \in Addresses : Pays(a)
<1>0. TypeOK
  BY DEF IInv
<1>1. ASSUME NEW c \in Clients, Ask(c) \/ GiveUp(c) \/ LoseChallenge(c)
      PROVE  Rises /\ RefusedForWant /\ Pays(Address(c))
  <2>1. CASE Ask(c)
    BY <2>1, AskPays
  <2>2. CASE GiveUp(c)
    BY <2>2, FailurePays DEF GiveUp, server_vars, history
  <2>3. CASE LoseChallenge(c)
    BY <2>3, FailurePays DEF LoseChallenge, AtStage
  <2> QED
    BY <1>1, <2>1, <2>2, <2>3
<1>2. ASSUME NEW m \in net, Deliver(m) \/ LoseAnswer(m) \/ Repeat(m) \/ FailToRead(m) \/ TimeOut(m)
      PROVE  Rises /\ RefusedForWant /\ Pays(Address(m.client))
  <2>1. CASE Deliver(m)
    <3>1. CASE Awaited(m)
      BY <2>1, <3>1, AnswerPays DEF Deliver, StrayUnlessAwaited
    <3>2. CASE ~Awaited(m)
      BY <2>1, <3>2, VainPays DEF Deliver, StrayUnlessAwaited
    <3> QED
      BY <3>1, <3>2
  <2>2. CASE LoseAnswer(m)
    BY <2>2, VainPays DEF LoseAnswer, StrayUnlessAwaited
  <2>3. CASE Repeat(m)
    BY <2>3, VainPays DEF Repeat
  <2>4. CASE FailToRead(m)
    BY <2>4, AnswerPays DEF FailToRead
  <2>5. CASE TimeOut(m)
    BY <1>0, <2>5, FailurePays, MessageTyped DEF TimeOut, server_vars
  <2> QED
    BY <1>2, <2>1, <2>2, <2>3, <2>4, <2>5
<1>3. ASSUME NEW m \in net, LoseRequest(m), NEW a \in Addresses
      PROVE  Rises /\ RefusedForWant /\ Pays(a)
  BY <1>3, NothingPays DEF LoseRequest, server_vars
<1>4. ASSUME NEW n \in valid \ spent, Expire(n), NEW a \in Addresses
      PROVE  Rises /\ RefusedForWant /\ Pays(a)
  BY <1>4, NothingPays DEF Expire
<1>5. \A c \in Clients : Address(c) \in Addresses
  BY <1>0, AddressTyped
<1>6. \A m \in net : m.client \in Clients
  BY <1>0, MessageTyped
<1> QED
  BY <1>1, <1>2, <1>3, <1>4, <1>5, <1>6, StepCases

\* Four are four.
LEMMA OneToFour == IsFiniteSet(1 .. 4) /\ Cardinality(1 .. 4) = 4
<1>1. 1 \in Int /\ 4 \in Int
  OBVIOUS
<1>2. IsFiniteSet(1 .. 4) /\ Cardinality(1 .. 4) = IF 1 > 4 THEN 0 ELSE 4 - 1 + 1
  BY <1>1, FS_Interval
<1> QED
  BY <1>2

\* Places are finitely many.
LEMMA PlacesFinite ==
    ASSUME NEW a
    PROVE  /\ IsFiniteSet(At(a)) /\ IsFiniteSet(Places(a))
           /\ Cardinality(Places(a)) = 4 * Cardinality(At(a))
           /\ Cardinality(At(a)) \in Nat
<1>0. At(a) \in SUBSET Clients
  BY DEF At
<1>1. IsFiniteSet(At(a))
  <2>1. IsFiniteSet(Clients)
    BY ProvisioningAssumption
  <2> QED
    BY <1>0, <2>1, FS_Subset
<1>2. IsFiniteSet(1 .. 4) /\ Cardinality(1 .. 4) = 4
  BY OneToFour
<1>3. Cardinality(At(a)) \in Nat
  BY <1>1, FS_CardinalityType
<1>4. IsFiniteSet(Places(a)) /\ Cardinality(Places(a)) = Cardinality(At(a)) * 4
  BY <1>1, <1>2, FS_Product DEF Places
<1> QED
  BY <1>1, <1>3, <1>4

\* So are slots.
LEMMA SlotsFinite ==
    ASSUME NEW a, NEW S \in SUBSET Places(a)
    PROVE  IsFiniteSet(S) /\ Cardinality(S) \in Nat
BY PlacesFinite, FS_Subset, FS_CardinalityType

\* A step that pays keeps the account.
LEMMA PaysCovers ==
    ASSUME TypeOK, TypeOK', Rises, NEW b \in Addresses, Pays(b), NEW a \in Addresses,
           Covered(a)
    PROVE  Covered(a)'
<1>1. /\ tokens[a] \in Nat /\ tokens'[a] \in Nat /\ strays[a] \in Nat /\ strays'[a] \in Nat
      /\ Capacity \in Nat /\ strays'[a] >= strays[a]
  BY ProvisioningAssumption DEF TypeOK, Rises
<1>2. At(a)' = At(a) /\ Places(a)' = Places(a)
  BY DEF Rises, At, Places, Address
<1>3. Slots(a) \in SUBSET Places(a) /\ Slots(a)' \in SUBSET Places(a)
  BY <1>2 DEF Slots
<1>4. /\ IsFiniteSet(Slots(a)) /\ IsFiniteSet(Slots(a)')
      /\ Cardinality(Slots(a)) \in Nat /\ Cardinality(Slots(a)') \in Nat
  BY <1>3, SlotsFinite
<1>5. \A c \in Clients : /\ Used(c) \in Nat /\ Used(c)' \in Nat /\ Used(c)' \in 0 .. 4
                         /\ Used(c)' >= Used(c)
  BY UsedTyped DEF Rises
<1>6. Slots(a) \subseteq Slots(a)'
  BY <1>2, <1>5 DEF Slots, Places, At
<1>7. Cardinality(Slots(a)) <= Cardinality(Slots(a)')
  BY <1>4, <1>6, FS_Subset
<1>8. CASE tokens'[a] = tokens[a] \/ strays'[a] = strays[a] + 1
  BY <1>1, <1>4, <1>7, <1>8 DEF Covered, Pays
<1>9. CASE ~(tokens'[a] = tokens[a] \/ strays'[a] = strays[a] + 1)
  <2>1. a = b /\ tokens'[a] = tokens[a] - 1
    BY <1>9 DEF Pays
  <2>2. PICK c \in At(a) : Used(c) < 4 /\ Used(c)' >= Used(c) + 1
    BY <1>9, <2>1 DEF Pays
  <2> DEFINE s == <<c, Used(c) + 1>>
  <2>3. c \in Clients
    BY DEF At
  <2>4. s \in Slots(a)' /\ s \notin Slots(a)
    BY <1>2, <1>5, <2>2, <2>3 DEF Slots, Places
  <2> HIDE DEF s
  <2>5. Slots(a) \cup {s} \subseteq Slots(a)'
    BY <1>6, <2>4
  <2>6. Cardinality(Slots(a) \cup {s}) = Cardinality(Slots(a)) + 1
    BY <1>4, <2>4, FS_AddElement
  <2>7. Cardinality(Slots(a)) + 1 <= Cardinality(Slots(a)')
    BY <1>4, <2>5, <2>6, FS_Subset
  <2> QED
    BY <1>1, <1>4, <2>1, <2>7 DEF Covered
<1> QED
  BY <1>8, <1>9

\* So does one that only adds tokens.
LEMMA FullCovers ==
    ASSUME TypeOK, TypeOK', NEW a \in Addresses,
           \/ tokens'[a] = Capacity
           \/ /\ tokens'[a] >= tokens[a]
              /\ UNCHANGED <<via, net, client_vars, strays>>
              /\ Covered(a)
    PROVE  Covered(a)'
<1>1. /\ tokens[a] \in Nat /\ tokens'[a] \in Nat /\ strays[a] \in Nat /\ strays'[a] \in Nat
      /\ Capacity \in Nat
  BY ProvisioningAssumption DEF TypeOK
<1>2. Slots(a) \in SUBSET Places(a) /\ Slots(a)' \in SUBSET Places(a)'
  BY DEF Slots
<1>3. Cardinality(Slots(a)) \in Nat
  BY <1>2, SlotsFinite
<1>4. Cardinality(Slots(a)') \in Nat
  <2>1. At(a)' \in SUBSET Clients
    BY DEF At
  <2>2. IsFiniteSet(At(a)')
    <3>1. IsFiniteSet(Clients)
      BY ProvisioningAssumption
    <3> QED
      BY <2>1, <3>1, FS_Subset
  <2>3. IsFiniteSet(1 .. 4)
    BY OneToFour
  <2>4. IsFiniteSet(Places(a)')
    BY <2>2, <2>3, FS_Product DEF Places
  <2> QED
    BY <1>2, <2>4, FS_Subset, FS_CardinalityType
<1>5. CASE tokens'[a] = Capacity
  BY <1>1, <1>4, <1>5 DEF Covered
<1>6. CASE /\ tokens'[a] >= tokens[a]
           /\ UNCHANGED <<via, net, client_vars, strays>>
           /\ Covered(a)
  <2>1. \A c : Used(c)' = Used(c) /\ Address(c)' = Address(c)
    BY <1>6 DEF Used, Request, Address, client_vars
  <2>2. Slots(a)' = Slots(a)
    BY <2>1 DEF Slots, Places, At
  <2> QED
    BY <1>1, <1>3, <1>6, <2>2 DEF Covered
<1> QED
  BY <1>5, <1>6

\* At(a) is what the module calls Here(a), and nobody is at any other address.
LEMMA AtIsHere ==
    ASSUME NEW a
    PROVE  At(a) = Here(a)
BY DEF At, Here, Address

\* Nobody uses an address that is none.
LEMMA NobodyElsewhere ==
    ASSUME TypeOK, NEW a, a \notin Addresses
    PROVE  At(a) = {}
BY AddressTyped DEF At

\* Those refused have left a place unused.
LEMMA RefusedLeavePlaces ==
    ASSUME IInv, NEW a
    PROVE  /\ IsFiniteSet(Refused(a)) /\ Cardinality(Refused(a)) \in Nat
           /\ Cardinality(Slots(a)) \in Nat
           /\ Cardinality(Slots(a)) + Cardinality(Refused(a)) <= 4 * Cardinality(At(a))
<1> DEFINE unused == Refused(a) \X {4}
<1>1. Refused(a) \in SUBSET At(a)
  BY DEF Refused
<1>2. IsFiniteSet(Refused(a)) /\ Cardinality(Refused(a)) \in Nat
  BY <1>1, PlacesFinite, FS_Subset, FS_CardinalityType
<1>3. IsFiniteSet({4}) /\ Cardinality({4}) = 1
  BY FS_Singleton
<1>4. IsFiniteSet(unused) /\ Cardinality(unused) = Cardinality(Refused(a)) * 1
  BY <1>2, <1>3, FS_Product
<1>5. unused \in SUBSET Places(a)
  BY <1>1 DEF Places
<1>6. Slots(a) \in SUBSET Places(a)
  BY DEF Slots
<1>7. IsFiniteSet(Slots(a)) /\ Cardinality(Slots(a)) \in Nat
  BY <1>6, SlotsFinite
<1>8. Slots(a) \cap unused = {}
  <2> SUFFICES ASSUME NEW c \in Refused(a), <<c, 4>> \in Slots(a) PROVE FALSE
    OBVIOUS
  <2>1. c \in Clients /\ outcome[c] = "refused"
    BY DEF Refused, At
  <2>2. stage[c] = "exited"
    BY <2>1 DEF IInv, InOrder, Held
  <2>3. Used(c) = 3
    BY <2>1, <2>2 DEF Used
  <2> QED
    BY <2>3 DEF Slots
<1> HIDE DEF unused
<1>9. Slots(a) \cup unused \in SUBSET Places(a)
  BY <1>5, <1>6
<1>10. Cardinality(Slots(a) \cup unused) <= Cardinality(Places(a))
  BY <1>9, PlacesFinite, FS_Subset
<1>11. Cardinality(Slots(a) \cup unused) = Cardinality(Slots(a)) + Cardinality(unused)
  <2>1. Cardinality({}) = 0
    BY FS_EmptySet
  <2>2. Cardinality(Slots(a) \cup unused)
           = Cardinality(Slots(a)) + Cardinality(unused) - Cardinality(Slots(a) \cap unused)
    BY <1>4, <1>7, FS_Union
  <2>3. Cardinality(Slots(a) \cap unused) = 0
    BY <1>8, <2>1
  <2> QED
    BY <1>2, <1>4, <1>7, <2>2, <2>3
<1> QED
  BY <1>2, <1>4, <1>7, <1>10, <1>11, PlacesFinite

\* An empty bucket that is accounted for crowds the address.
EmptyCrowds == \A a \in Addresses : Covered(a) /\ tokens[a] = 0 => Crowded(a)

LEMMA EmptyIsCrowded == IInv => EmptyCrowds
<1> SUFFICES ASSUME IInv, NEW a \in Addresses, Covered(a), tokens[a] = 0
             PROVE  Crowded(a)
  BY DEF EmptyCrowds
<1>1. Capacity \in Nat /\ strays[a] \in Nat /\ Cardinality(At(a)) \in Nat
  BY ProvisioningAssumption, PlacesFinite DEF IInv, TypeOK
<1> QED
  BY <1>1, RefusedLeavePlaces DEF Covered, Crowded

\* If nobody else is refused the address remains as crowded.
LEMMA StillCrowded ==
    ASSUME TypeOK, TypeOK', NEW a \in Addresses, Crowded(a), via' = via,
           strays'[a] >= strays[a],
           \A c \in At(a) : outcome'[c] = "refused" => outcome[c] = "refused"
    PROVE  Crowded(a)'
<1>1. At(a)' = At(a)
  BY DEF At, Address
<1>2. Refused(a)' \subseteq Refused(a) /\ Refused(a) \in SUBSET At(a)
  BY <1>1 DEF Refused
<1>3. IsFiniteSet(Refused(a)) /\ Cardinality(Refused(a)) \in Nat
  BY <1>2, PlacesFinite, FS_Subset, FS_CardinalityType
<1>4. Cardinality(Refused(a)') <= Cardinality(Refused(a)) /\ Cardinality(Refused(a)') \in Nat
  BY <1>2, <1>3, FS_Subset, FS_CardinalityType
<1>5. /\ Capacity \in Nat /\ strays[a] \in Nat /\ strays'[a] \in Nat
      /\ Cardinality(At(a)) \in Nat
  BY ProvisioningAssumption, PlacesFinite DEF TypeOK
<1> QED
  BY <1>1, <1>2, <1>3, <1>4, <1>5 DEF Crowded

\* A step that pays keeps every address accounted for.
LEMMA PaysCInv ==
    ASSUME CInv, IInv', Rises, RefusedForWant, NEW b \in Addresses, Pays(b)
    PROVE  CInv'
<1>0. TypeOK /\ TypeOK'
  BY DEF CInv, IInv
<1>1. Addresses' = Addresses
  BY DEF Addresses
<1>2. ASSUME NEW a \in Addresses PROVE Covered(a)' /\ Crowded(a)'
  <2>1. Covered(a)'
    BY <1>0, PaysCovers DEF CInv
  <2>2. CASE \A c \in At(a) : outcome'[c] = "refused" => outcome[c] = "refused"
    <3>1. Crowded(a) /\ via' = via /\ strays'[a] >= strays[a]
      BY DEF CInv, Rises
    <3> QED
      BY <1>0, <2>1, <2>2, <3>1, StillCrowded
  <2>3. CASE ~ \A c \in At(a) : outcome'[c] = "refused" => outcome[c] = "refused"
    <3>1. tokens'[a] = 0
      BY <2>3 DEF RefusedForWant, At
    <3>2. EmptyCrowds'
      BY EmptyIsCrowded, PTL
    <3>3. Crowded(a)'
      BY <2>1, <3>1, <3>2 DEF EmptyCrowds
    <3> QED
      BY <2>1, <3>3
  <2> QED
    BY <2>2, <2>3
<1> QED
  BY <1>1, <1>2 DEF CInv

\* So does any step.
LEMMA StepCInv == ASSUME CInv, [Next]_vars PROVE CInv'
<1>0. TypeOK /\ TypeOK' /\ IInv /\ IInv'
  BY StepInv DEF CInv, IInv
<1>1. Addresses' = Addresses
  BY DEF Addresses
<1>2. SUFFICES ASSUME NEW a \in Addresses PROVE Covered(a)' /\ Crowded(a)'
  BY <1>0, <1>1 DEF CInv
<1>3. Covered(a) /\ Crowded(a) /\ strays[a] \in Nat /\ tokens[a] \in 0 .. Capacity
  BY <1>0 DEF CInv, TypeOK
<1>4. CASE NewDay
  <2>1. tokens'[a] = Capacity /\ \A c \in Clients : outcome'[c] # "refused"
    BY <1>4 DEF NewDay, FullBuckets
  <2>2. Covered(a)'
    BY <1>0, <2>1, FullCovers
  <2>3. Refused(a)' = {}
    BY <2>1 DEF Refused, At
  <2> QED
    BY <2>2, <2>3 DEF Crowded
<1>5. CASE Restart \/ Refill \/ UNCHANGED vars
  <2>1. UNCHANGED <<via, net, client_vars, strays>>
    BY <1>5 DEF Restart, Refill, vars, history
  <2>2. tokens'[a] = Capacity \/ tokens'[a] >= tokens[a]
    BY <1>3, <1>5, ProvisioningAssumption
       DEF Restart, Refill, vars, server_vars, FullBuckets
  <2>3. Covered(a)'
    BY <1>0, <1>3, <2>1, <2>2, FullCovers
  <2>4. via' = via /\ outcome' = outcome /\ strays'[a] >= strays[a]
    BY <1>3, <2>1 DEF client_vars
  <2>5. Crowded(a)'
    BY <1>0, <1>3, <2>4, StillCrowded
  <2> QED
    BY <2>3, <2>5
<1>6. CASE ~NewDay /\ ~(Restart \/ Refill \/ UNCHANGED vars)
  <2>1. Addresses # {} /\ Next
    BY <1>6
  <2>2. Rises /\ RefusedForWant /\ \E b \in Addresses : Pays(b)
    BY <1>0, <1>6, <2>1, StepPays
  <2>3. CInv'
    BY <1>0, <2>2, PaysCInv
  <2> QED
    BY <1>1, <2>3 DEF CInv
<1> QED
  BY <1>4, <1>5, <1>6

\* At first no bucket misses anything.
LEMMA InitCInv == Init => CInv
<1> SUFFICES ASSUME Init PROVE CInv
  OBVIOUS
<1>1. IInv
  BY InitInv
<1>2. ASSUME NEW a \in Addresses PROVE Covered(a) /\ Crowded(a)
  <2>1. tokens[a] = Capacity /\ strays[a] = 0 /\ Capacity \in Nat
    BY ProvisioningAssumption DEF Init, FullBuckets
  <2>2. Slots(a) \in SUBSET Places(a)
    BY DEF Slots
  <2>3. Cardinality(Slots(a)) \in Nat
    BY <2>2, SlotsFinite
  <2>4. Refused(a) = {}
    BY DEF Init, Refused, At
  <2> QED
    BY <2>1, <2>3, <2>4 DEF Covered, Crowded
<1> QED
  BY <1>1, <1>2 DEF CInv

\* Every token that is missing was used by a run of its address, four at most
\* by each, or by a request nobody waited for.
THEOREM TokensAreAccountedFor == Spec => []CInv
BY InitCInv, StepCInv, PTL DEF Spec

\* Runs are refused only when their address is crowded, and the more of them
\* the more it is: for any number of clients, capacity, rate and mishaps.
THEOREM RefusalsMeanCrowds == Spec => []RefusedOnlyWhenCrowded
<1>1. CInv => RefusedOnlyWhenCrowded
  BY AtIsHere DEF CInv, Crowded, Refused, RefusedOnlyWhenCrowded
<1> QED
  BY <1>1, TokensAreAccountedFor, PTL
=============================================================================
