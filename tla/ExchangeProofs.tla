---------------------------- MODULE ExchangeProofs ----------------------------
(***************************************************************************)
(* For any clients, attempts and ceilings, whatever is lost, late or       *)
(* repeated and however often the proxy restarts: what is executed is      *)
(* billed and within the ceiling, an operation executes at most once per   *)
(* attempt, and a client told that its call was served had it executed.    *)
(*                                                                         *)
(* A flight is charged to one object when it is admitted and keeps its     *)
(* place there (under), so a count of charges is one of flights.  The      *)
(* flights of an operation are as many as the client has made attempts.    *)
(***************************************************************************)
EXTENDS Exchange, FiniteSetTheorems, TLAPS

Verdicts == {"none", "served", "denied", "error"}
Digests == {Null} \cup (Clients \X Nat)

ReplyType == [verdict : Verdicts, session_id : Nat, digest : Digests]
FlightType ==
  [client : Clients, kind : {"open", "call", "amend"}, max_calls : Nat, op : Nat,
   session_id : Nat, prev : Digests, phase : {"sent", "forwarded", "replied", "broken"},
   upstream : {"unasked", "executed", "failed"}, under : Nat, reply : ReplyType]
ObjectType ==
  [owner : Clients, calls_made : Nat, max_calls : Nat, digest : Digests, chained : BOOLEAN]
ClientType ==
  [session_id : Nat, commitment_digest : Digests, op : Nat, flight : Nat, attempt : Nat,
   told : {"nothing", "raised"} \cup Verdicts]

TypeOK ==
  /\ client \in [Clients -> ClientType]
  /\ flights \in Seq(FlightType)
  /\ objects \in Seq(ObjectType)
  /\ sessions \in [1..MaxFlights -> Nat]
  /\ counter \in Nat

Under(s) == {f \in DOMAIN flights : flights[f].under = s}

\* The flights under an object are what it counts, within its ceiling; one that is only
\* sent is under none.
Billed ==
  /\ \A s \in DOMAIN objects :
       /\ IsFiniteSet(Under(s)) /\ Cardinality(Under(s)) = objects[s].calls_made
       /\ objects[s].calls_made <= objects[s].max_calls
  /\ \A f \in DOMAIN flights :
       flights[f].under <= Len(objects) /\ (flights[f].phase = "sent" => flights[f].under = 0)
  /\ \A id \in DOMAIN sessions : sessions[id] <= Len(objects)

\* The flights of an operation are of one kind, and at most as many as its attempts.
Attempted ==
  /\ \A f \in DOMAIN flights : flights[f].op \in 1..client[flights[f].client].op
  /\ \A f, g \in DOMAIN flights :
       flights[f].client = flights[g].client /\ flights[f].op = flights[g].op
         => flights[f].kind = flights[g].kind
  /\ \A c \in Clients :
       /\ Waiting(c) => client[c].flight \in FlightsOf(c, client[c].op)
       /\ client[c].attempt <= Attempts[c]
       /\ \A op \in 1..client[c].op :
            /\ IsFiniteSet(FlightsOf(c, op))
            /\ Cardinality(FlightsOf(c, op))
                 <= IF op = client[c].op THEN client[c].attempt ELSE Attempts[c]

\* A call replied to as served was executed, and so was one its client was told of.
Truthful ==
  /\ \A f \in DOMAIN flights :
       flights[f].kind = "call" /\ flights[f].reply.verdict = "served" => Executed(f)
  /\ \A c \in Clients : client[c].told = "served" =>
       \E f \in FlightsOf(c, client[c].op) : flights[f].kind = "call" => Executed(f)

IInv == TypeOK /\ Billed /\ Attempted /\ Truthful

-----------------------------------------------------------------------------
(* What steps have in common *)

\* A flight that is changed leaves the others as they are.
LEMMA FlightChanged ==
  ASSUME TypeOK, NEW f \in DOMAIN flights, NEW x \in FlightType, flights' = [flights EXCEPT ![f] = x]
  PROVE  /\ flights' \in Seq(FlightType) /\ DOMAIN flights' = DOMAIN flights
         /\ flights'[f] = x /\ \A g \in DOMAIN flights : g # f => flights'[g] = flights[g]
BY DEF TypeOK

\* A flight that is sent comes after the others.
LEMMA FlightSent ==
  ASSUME TypeOK, NEW x \in FlightType, flights' = Append(flights, x)
  PROVE  /\ flights' \in Seq(FlightType) /\ Len(flights) + 1 \notin DOMAIN flights
         /\ DOMAIN flights' = DOMAIN flights \cup {Len(flights) + 1}
         /\ flights'[Len(flights) + 1] = x
         /\ \A g \in DOMAIN flights : flights'[g] = flights[g]
BY DEF TypeOK

\* Steps that leave every flight its place keep the bill, if no object loses calls.
LEMMA BillKept ==
  ASSUME Billed, DOMAIN flights' = DOMAIN flights, sessions' = sessions, DOMAIN objects' = DOMAIN objects,
         Len(objects') = Len(objects),
         \A f \in DOMAIN flights :
           flights'[f].under = flights[f].under /\ (flights'[f].phase = "sent" => flights[f].phase = "sent"),
         \A s \in DOMAIN objects :
           objects'[s].calls_made = objects[s].calls_made /\ objects[s].calls_made <= objects'[s].max_calls
  PROVE  Billed'
<1>1. ASSUME NEW s PROVE Under(s)' = Under(s)
  BY DEF Under
<1> QED BY <1>1 DEF Billed

\* Steps that leave clients alone, and every flight its operation, keep what concerns them.
LEMMA AttemptsKept ==
  ASSUME Attempted, Truthful, client' = client, DOMAIN flights' = DOMAIN flights,
         \A f \in DOMAIN flights :
           /\ flights'[f].client = flights[f].client /\ flights'[f].op = flights[f].op
           /\ flights'[f].kind = flights[f].kind
           /\ flights[f].upstream = "executed" => flights'[f].upstream = "executed"
           /\ flights'[f].kind = "call" /\ flights'[f].reply.verdict = "served"
                => flights'[f].upstream = "executed"
  PROVE  Attempted' /\ Truthful'
<1>1. ASSUME NEW c, NEW op PROVE FlightsOf(c, op)' = FlightsOf(c, op)
  BY DEF FlightsOf
<1>2. Attempted'
  BY <1>1 DEF Attempted, Waiting
<1>3. Truthful'
  BY <1>1 DEF Truthful, Executed, FlightsOf
<1> QED BY <1>2, <1>3

-----------------------------------------------------------------------------
(* The client *)

\* A flight more under nothing keeps the bill.
LEMMA SendingIsFree ==
  ASSUME TypeOK, Billed, NEW x \in FlightType, x.under = 0, flights' = Append(flights, x),
         objects' = objects, sessions' = sessions
  PROVE  Billed'
<1> DEFINE n == Len(flights) + 1
<1>1. /\ n \notin DOMAIN flights /\ DOMAIN flights' = DOMAIN flights \cup {n} /\ flights'[n] = x
      /\ \A g \in DOMAIN flights : flights'[g] = flights[g]
  BY FlightSent
<1> HIDE DEF n
<1>2. Len(objects) \in Nat /\ DOMAIN objects = 1..Len(objects)
  BY DEF TypeOK
<1>3. ASSUME NEW s \in DOMAIN objects PROVE Under(s)' = Under(s)
  <2>1. ASSUME NEW f PROVE f \in Under(s)' <=> f \in Under(s)
    <3>1. CASE f = n
      BY <1>1, <1>2, <3>1 DEF Under
    <3>2. CASE f # n
      BY <1>1, <3>2 DEF Under
    <3> QED BY <3>1, <3>2
  <2> QED BY <2>1
<1>4. ASSUME NEW f \in DOMAIN flights'
      PROVE  flights'[f].under <= Len(objects) /\ (flights'[f].phase = "sent" => flights'[f].under = 0)
  <2>1. CASE f = n
    BY <1>1, <1>2, <2>1
  <2>2. CASE f # n
    BY <1>1, <1>4, <2>2 DEF Billed
  <2> QED BY <2>1, <2>2
<1> QED BY <1>3, <1>4 DEF Billed

\* An attempt more of the operation a client is at, or the first of its next.
LEMMA Attempting ==
  ASSUME IInv, NEW c \in Clients, NEW x \in FlightType, flights' = Append(flights, x),
         NEW y \in ClientType, client' = [client EXCEPT ![c] = y],
         x.client = c, x.op = y.op, y.flight = Len(flights) + 1, y.attempt <= Attempts[c],
         \/ y.op = client[c].op + 1 /\ y.attempt = 1 /\ y.told = "nothing"
         \/ /\ Waiting(c) /\ y.op = client[c].op /\ y.attempt = client[c].attempt + 1
            /\ y.told = client[c].told /\ x.kind = flights[client[c].flight].kind,
         x.reply.verdict = "none"
  PROVE  TypeOK' => Attempted' /\ Truthful'
<1> SUFFICES ASSUME TypeOK' PROVE Attempted' /\ Truthful'
  OBVIOUS
<1> DEFINE n == Len(flights) + 1
           After(d, op) == {f \in DOMAIN flights' : flights'[f].client = d /\ flights'[f].op = op}
<1>0. TypeOK /\ Attempted /\ Truthful
  BY DEF IInv
<1>1. /\ n \notin DOMAIN flights /\ DOMAIN flights' = DOMAIN flights \cup {n} /\ flights'[n] = x
      /\ \A g \in DOMAIN flights : flights'[g] = flights[g]
  BY <1>0, FlightSent
<1>2. client'[c] = y /\ \A d \in Clients : d # c => client'[d] = client[d]
  BY <1>0 DEF TypeOK
<1>3. n \in Nat /\ n > 0 /\ y.flight = n
  BY <1>0 DEF TypeOK
<1> HIDE DEF n
<1>4. ASSUME NEW d, NEW op
      PROVE  /\ (d = c /\ op = y.op) => After(d, op) = FlightsOf(d, op) \cup {n}
             /\ ~(d = c /\ op = y.op) => After(d, op) = FlightsOf(d, op)
             /\ n \notin FlightsOf(d, op)
  <2>1. ASSUME NEW f PROVE f \in After(d, op) <=> f \in FlightsOf(d, op) \/ (f = n /\ d = c /\ op = y.op)
    <3>1. CASE f = n
      BY <1>1, <3>1 DEF FlightsOf
    <3>2. CASE f # n
      BY <1>1, <3>2 DEF FlightsOf
    <3> QED BY <3>1, <3>2
  <2> QED BY <1>1, <2>1 DEF FlightsOf
<1>5. /\ client[c].op \in Nat /\ client[c].attempt \in Nat /\ y.op \in Nat /\ y.attempt \in Nat
      /\ \A f \in DOMAIN flights : flights[f].client \in Clients /\ flights[f].op \in Nat
  <2>1. client[c] \in ClientType /\ \A f \in DOMAIN flights : flights[f] \in FlightType
    BY <1>0 DEF TypeOK
  <2> QED BY <2>1 DEF ClientType, FlightType
<1> HIDE DEF After
<1>6. ASSUME y.op = client[c].op + 1 PROVE FlightsOf(c, y.op) = {}
  BY <1>0, <1>5, <1>6 DEF FlightsOf, Attempted
<1>7. \A f \in DOMAIN flights' : flights'[f].op \in 1..client'[flights'[f].client].op
  <2>1. flights'[n].op \in 1..client'[flights'[n].client].op
    <3>1. y.op >= 1
      <4>1. CASE y.op = client[c].op + 1
        BY <1>5, <4>1
      <4>2. CASE Waiting(c) /\ y.op = client[c].op
        BY <1>0, <1>5, <4>2 DEF Attempted, FlightsOf
      <4> QED BY <4>1, <4>2
    <3> QED BY <1>1, <1>2, <1>5, <3>1
  <2>2. ASSUME NEW f \in DOMAIN flights PROVE flights'[f].op \in 1..client'[flights'[f].client].op
    <3>1. flights[f].op \in 1..client[flights[f].client].op
      BY <1>0 DEF Attempted
    <3> QED BY <1>1, <1>2, <1>5, <3>1
  <2> QED BY <1>1, <2>1, <2>2
<1>8. ASSUME NEW f \in DOMAIN flights, flights[f].client = c, flights[f].op = y.op
      PROVE  flights[f].kind = x.kind
  <2>1. CASE y.op = client[c].op + 1
    BY <1>6, <1>8, <2>1 DEF FlightsOf
  <2>2. CASE Waiting(c) /\ y.op = client[c].op /\ x.kind = flights[client[c].flight].kind
    BY <1>0, <1>8, <2>2 DEF Attempted, FlightsOf
  <2> QED BY <2>1, <2>2
<1>9. ASSUME NEW f \in DOMAIN flights', NEW g \in DOMAIN flights',
             flights'[f].client = flights'[g].client, flights'[f].op = flights'[g].op
      PROVE  flights'[f].kind = flights'[g].kind
  <2>1. CASE f \in DOMAIN flights /\ g \in DOMAIN flights
    BY <1>0, <1>1, <1>9, <2>1 DEF Attempted
  <2>2. CASE f = n \/ g = n
    BY <1>1, <1>8, <1>9, <2>2
  <2> QED BY <1>1, <2>1, <2>2
<1>10. ASSUME NEW d \in Clients
       PROVE  /\ Waiting(d)' => client'[d].flight \in After(d, client'[d].op)
              /\ client'[d].attempt <= Attempts[d]
  BY <1>0, <1>2, <1>3, <1>4 DEF Attempted, Waiting
<1>11. ASSUME NEW d \in Clients, NEW op \in 1..client'[d].op
       PROVE  /\ IsFiniteSet(After(d, op))
              /\ Cardinality(After(d, op))
                   <= IF op = client'[d].op THEN client'[d].attempt ELSE Attempts[d]
  <2>1. CASE d # c
    BY <1>0, <1>2, <1>4, <1>11, <2>1 DEF Attempted
  <2>2. CASE d = c /\ op # y.op
    <3>1. op \in 1..client[c].op
      BY <1>2, <1>5, <1>11, <2>2
    <3>2. Attempts[c] \in Nat /\ client[c].attempt <= Attempts[c]
      BY <1>0, ExchangeAssumption DEF Attempted
    <3>3. /\ IsFiniteSet(FlightsOf(c, op))
          /\ Cardinality(FlightsOf(c, op)) <= IF op = client[c].op THEN client[c].attempt ELSE Attempts[c]
      BY <1>0, <3>1 DEF Attempted
    <3>4. Cardinality(FlightsOf(c, op)) \in Nat
      BY <3>3, FS_CardinalityType
    <3> QED BY <1>2, <1>4, <1>5, <2>2, <3>2, <3>3, <3>4
  <2>3. CASE d = c /\ op = y.op
    <3>1. IsFiniteSet(FlightsOf(c, op)) /\ Cardinality(FlightsOf(c, op)) <= y.attempt - 1
      <4>1. CASE y.op = client[c].op + 1 /\ y.attempt = 1
        <5>1. FlightsOf(c, op) = {}
          BY <1>6, <2>3, <4>1
        <5>2. IsFiniteSet({}) /\ Cardinality({}) = 0
          BY FS_EmptySet
        <5> QED BY <4>1, <5>1, <5>2
      <4>2. CASE y.op = client[c].op /\ y.attempt = client[c].attempt + 1
        BY <1>0, <1>2, <1>5, <1>11, <2>3, <4>2 DEF Attempted
      <4> QED BY <4>1, <4>2
    <3>2. Cardinality(FlightsOf(c, op)) \in Nat
      BY <3>1, FS_CardinalityType
    <3>3. /\ IsFiniteSet(After(c, op))
          /\ Cardinality(After(c, op)) = Cardinality(FlightsOf(c, op)) + 1
      BY <1>4, <2>3, <3>1, FS_AddElement
    <3> QED BY <1>2, <1>5, <2>3, <3>1, <3>2, <3>3
  <2> QED BY <2>1, <2>2, <2>3
<1>12. Attempted'
  <2>1. \A d, op : FlightsOf(d, op)' = After(d, op)
    BY DEF FlightsOf, After
  <2>2. \A d : FlightsOf(d, client[d].op)' = After(d, client'[d].op)
    BY DEF FlightsOf, After
  <2>3. \A d \in Clients : Waiting(d)' => client'[d].flight \in FlightsOf(d, client[d].op)'
    BY <1>10, <2>2
  <2> HIDE DEF After
  <2> QED BY <1>7, <1>9, <1>10, <1>11, <2>1, <2>3 DEF Attempted
<1>13. \A f \in DOMAIN flights' :
         flights'[f].kind = "call" /\ flights'[f].reply.verdict = "served" => Executed(f)'
  BY <1>0, <1>1 DEF Truthful, Executed
<1>14. ASSUME NEW d \in Clients, client'[d].told = "served"
       PROVE  \E f \in After(d, client'[d].op) : flights'[f].kind = "call" => Executed(f)'
  <2>1. client[d].told = "served" /\ client'[d].op = client[d].op
    BY <1>2, <1>14
  <2>2. PICK f \in FlightsOf(d, client[d].op) : flights[f].kind = "call" => Executed(f)
    BY <1>0, <2>1 DEF Truthful
  <2>3. f \in After(d, client'[d].op) /\ f \in DOMAIN flights
    BY <1>4, <2>1, <2>2 DEF FlightsOf
  <2> QED BY <1>1, <2>2, <2>3 DEF Executed
<1> QED BY <1>12, <1>13, <1>14 DEF Truthful, FlightsOf, After

\* The types of what flights, objects and clients are made of.
LEMMA Fields ==
  ASSUME TypeOK
  PROVE  /\ \A f \in DOMAIN flights : flights[f] \in FlightType
         /\ \A s \in DOMAIN objects : objects[s] \in ObjectType
         /\ \A c \in Clients : client[c] \in ClientType
         /\ Len(flights) \in Nat /\ DOMAIN flights = 1..Len(flights)
         /\ Len(objects) \in Nat /\ DOMAIN objects = 1..Len(objects)
BY DEF TypeOK

\* A reply with nothing in it.
LEMMA NoReplyTyped == NoReply \in ReplyType
BY DEF NoReply, ReplyType, Verdicts, Digests, NoId

\* An operation begins.
LEMMA BeginsOperation ==
  ASSUME IInv, NEW c \in Clients, NEW kind \in Kinds, Begin(c, kind)
  PROVE  IInv'
<1> DEFINE y == [client[c] EXCEPT !.op = client[c].op + 1, !.attempt = 1,
                                  !.flight = Len(flights) + 1, !.told = "nothing"]
<1>1. PICK ceiling \in IF kind = "open" THEN Ceilings[c] ELSE {0} :
        flights' = Append(flights, Flight(c, kind, ceiling))
  BY DEF Begin
<1> DEFINE x == Flight(c, kind, ceiling)
<1>2. /\ client[c] \in ClientType /\ TypeOK /\ Billed
      /\ kind \in {"open", "call", "amend"} /\ ceiling \in Nat
      /\ client[c].op + 1 \in Nat /\ client[c].op \in Nat /\ client[c].session_id \in Nat /\ client[c].commitment_digest \in Digests
      /\ Len(flights) + 1 \in Nat
  <2>1. client[c] \in ClientType
    BY DEF IInv, TypeOK
  <2>2. ceiling \in Nat
    BY <1>1, ExchangeAssumption
  <2> QED BY <2>1, <2>2, ExchangeAssumption, Fields DEF IInv, ClientType
<1>3. /\ x \in FlightType /\ x.under = 0 /\ x.client = c /\ x.op = client[c].op + 1
      /\ x.reply.verdict = "none"
  <2>1. NoReply \in ReplyType /\ NoReply.verdict = "none"
    BY NoReplyTyped DEF NoReply
  <2> QED BY <1>2, <2>1 DEF Flight, FlightType
<1>4. client' = [client EXCEPT ![c] = y] /\ UNCHANGED <<objects, sessions, counter>>
  BY DEF Begin
<1>5. /\ y \in ClientType /\ y.op = client[c].op + 1 /\ y.attempt = 1 /\ y.flight = Len(flights) + 1
      /\ y.told = "nothing"
  <2> DEFINE z == client[c]
             n == client[c].op + 1
             m == Len(flights) + 1
  <2>1. y = [z EXCEPT !.op = n, !.attempt = 1, !.flight = m, !.told = "nothing"]
    OBVIOUS
  <2>2. z \in ClientType /\ n \in Nat /\ m \in Nat
    BY <1>2
  <2> HIDE DEF y, z, n, m
  <2>3. y \in ClientType /\ y.op = n /\ y.attempt = 1 /\ y.flight = m /\ y.told = "nothing"
    BY <2>1, <2>2 DEF ClientType
  <2> QED BY <2>3 DEF n, m
<1> HIDE DEF x, y
<1>6. TypeOK'
  BY <1>1, <1>2, <1>3, <1>4, <1>5, FlightSent DEF TypeOK, x
<1>7. Attempts[c] >= 1
  BY ExchangeAssumption
<1>8. Billed'
  BY <1>1, <1>2, <1>3, <1>4, SendingIsFree DEF x
<1>9. Attempted' /\ Truthful'
  BY <1>1, <1>3, <1>4, <1>5, <1>6, <1>7, Attempting DEF x
<1> QED BY <1>6, <1>8, <1>9 DEF IInv

\* An attempt more.
LEMMA Retries ==
  ASSUME IInv, NEW c \in Clients, Retry(c)
  PROVE  IInv'
<1> DEFINE y == [client[c] EXCEPT !.attempt = client[c].attempt + 1, !.flight = Len(flights) + 1]
           x == Unsent(Awaited(c))
<1>1. /\ flights' = Append(flights, x) /\ Waiting(c) /\ client[c].attempt < Attempts[c]
      /\ client' = [client EXCEPT ![c] = y] /\ UNCHANGED <<objects, sessions, counter>>
  BY DEF Retry, NextAttempt, AttemptsLeft
<1>2. /\ client[c] \in ClientType /\ TypeOK /\ Billed
      /\ client[c].attempt \in Nat /\ client[c].attempt + 1 \in Nat /\ Len(flights) + 1 \in Nat
  <2>1. client[c] \in ClientType
    BY DEF IInv, TypeOK
  <2> QED BY <2>1, Fields DEF IInv, ClientType
<1>3. /\ Awaited(c) \in FlightType /\ Awaited(c).client = c /\ Awaited(c).op = client[c].op
  BY <1>1, <1>2, Fields DEF IInv, Attempted, FlightsOf, Awaited
<1>4. /\ x \in FlightType /\ x.under = 0 /\ x.client = c /\ x.op = client[c].op
      /\ x.kind = flights[client[c].flight].kind /\ x.reply.verdict = "none"
  <2>1. NoReply \in ReplyType /\ NoReply.verdict = "none"
    BY NoReplyTyped DEF NoReply
  <2>2. Awaited(c).kind = flights[client[c].flight].kind
    BY DEF Awaited
  <2> QED BY <1>3, <2>1, <2>2 DEF Unsent, FlightType
<1>5. /\ y \in ClientType /\ y.op = client[c].op /\ y.attempt = client[c].attempt + 1
      /\ y.flight = Len(flights) + 1 /\ y.told = client[c].told
  <2> DEFINE z == client[c]
             n == client[c].attempt + 1
             m == Len(flights) + 1
  <2>1. y = [z EXCEPT !.attempt = n, !.flight = m]
    OBVIOUS
  <2>2. z \in ClientType /\ n \in Nat /\ m \in Nat
    BY <1>2
  <2> HIDE DEF y, z, n, m
  <2>3. /\ y \in ClientType /\ y.op = z.op /\ y.attempt = n /\ y.flight = m
        /\ y.told = z.told
    BY <2>1, <2>2 DEF ClientType
  <2> QED BY <2>3 DEF z, n, m
<1> HIDE DEF x, y
<1>6. TypeOK'
  BY <1>1, <1>2, <1>4, <1>5, FlightSent DEF TypeOK
<1>7. y.attempt <= Attempts[c]
  BY <1>1, <1>2, <1>5, ExchangeAssumption
<1>8. Billed'
  BY <1>1, <1>2, <1>4, SendingIsFree
<1>9. Attempted' /\ Truthful'
  BY <1>1, <1>4, <1>5, <1>6, <1>7, Attempting
<1> QED BY <1>6, <1>8, <1>9 DEF IInv

\* An operation ends: the client raises, or tells what it was replied.
LEMMA OperationOver ==
  ASSUME IInv, NEW c \in Clients, GiveUp(c) \/ Receive(c)
  PROVE  IInv'
<1>0. /\ client[c] \in ClientType /\ TypeOK /\ Billed /\ Attempted /\ Truthful
      /\ UNCHANGED <<flights, objects, sessions, counter>>
      /\ Waiting(c) /\ client[c].flight \in FlightsOf(c, client[c].op)
  BY DEF IInv, TypeOK, GiveUp, Receive, Attempted
<1>1. PICK y \in ClientType :
        /\ client' = [client EXCEPT ![c] = y]
        /\ y.op = client[c].op /\ y.attempt = client[c].attempt /\ y.flight = 0
        /\ y.told = "served" => Awaited(c).reply.verdict = "served"
  <2>1. CASE GiveUp(c)
    <3> DEFINE y == [client[c] EXCEPT !.flight = 0, !.told = "raised"]
    <3>1. /\ y \in ClientType /\ y.op = client[c].op /\ y.attempt = client[c].attempt
          /\ y.flight = 0 /\ y.told # "served"
      BY <1>0 DEF ClientType
    <3>2. client' = [client EXCEPT ![c] = y]
      BY <2>1 DEF GiveUp
    <3> QED BY <3>1, <3>2
  <2>2. CASE Receive(c)
    <3> DEFINE r == Awaited(c).reply
               id == IF r.session_id # NoId THEN r.session_id ELSE client[c].session_id
               digest == IF r.digest # Null THEN r.digest ELSE client[c].commitment_digest
               told == Told(r.verdict)
               y == [client[c] EXCEPT !.flight = 0, !.told = told, !.session_id = id,
                                      !.commitment_digest = digest]
    <3>1. r \in ReplyType
      BY <1>0, Fields DEF FlightsOf, Awaited, FlightType
    <3>2. id \in Nat /\ digest \in Digests /\ told \in Verdicts /\ (told = "served" => r.verdict = "served")
      BY <1>0, <3>1 DEF ReplyType, ClientType, Told, Verdicts
    <3>3. client' = [client EXCEPT ![c] = y]
      BY <2>2 DEF Receive
    <3> HIDE DEF id, digest, told
    <3>4. /\ y \in ClientType /\ y.op = client[c].op /\ y.attempt = client[c].attempt
          /\ y.flight = 0 /\ y.told = told
      BY <1>0, <3>2 DEF ClientType
    <3> QED BY <3>2, <3>3, <3>4
  <2> QED BY <2>1, <2>2
<1>2. client'[c] = y /\ \A d \in Clients : d # c => client'[d] = client[d]
  BY <1>0, <1>1 DEF TypeOK
<1>3. TypeOK'
  BY <1>0, <1>1 DEF TypeOK
<1>4. Billed'
  BY <1>0 DEF Billed, Under
<1>5. \A d \in Clients : client'[d].op = client[d].op /\ client'[d].attempt = client[d].attempt
  BY <1>1, <1>2
<1>6. \A d, op : FlightsOf(d, op)' = FlightsOf(d, op)
  BY <1>0 DEF FlightsOf
<1>7. ASSUME NEW d \in Clients PROVE FlightsOf(d, client[d].op)' = FlightsOf(d, client[d].op)
  BY <1>0, <1>5 DEF FlightsOf
<1>8. Attempted'
  <2>1. \A f \in DOMAIN flights : flights'[f].op \in 1..client'[flights'[f].client].op
    BY <1>0, <1>5, Fields DEF Attempted, FlightType
  <2>2. ASSUME NEW d \in Clients
        PROVE  /\ Waiting(d)' => client'[d].flight \in FlightsOf(d, client[d].op)'
               /\ client'[d].attempt <= Attempts[d]
    BY <1>0, <1>1, <1>2, <1>5, <1>7 DEF Attempted, Waiting
  <2>3. ASSUME NEW d \in Clients, NEW op \in 1..client'[d].op
        PROVE  /\ IsFiniteSet(FlightsOf(d, op)')
               /\ Cardinality(FlightsOf(d, op)')
                    <= IF op = client'[d].op THEN client'[d].attempt ELSE Attempts[d]
    BY <1>0, <1>5, <1>6 DEF Attempted
  <2> QED BY <1>0, <2>1, <2>2, <2>3 DEF Attempted
<1>9. Truthful'
  <2>1. ASSUME NEW d \in Clients, client'[d].told = "served"
        PROVE  \E f \in FlightsOf(d, client[d].op) : flights[f].kind = "call" => Executed(f)
    <3>1. CASE d # c
      BY <1>0, <1>2, <2>1, <3>1 DEF Truthful
    <3>2. CASE d = c
      <4>1. Awaited(c).reply.verdict = "served" /\ client[c].flight \in DOMAIN flights
        BY <1>0, <1>1, <1>2, <2>1, <3>2 DEF FlightsOf
      <4>2. flights[client[c].flight].kind = "call" => Executed(client[c].flight)
        BY <1>0, <4>1 DEF Truthful, Awaited
      <4> QED BY <1>0, <3>2, <4>2
    <3> QED BY <3>1, <3>2
  <2> QED BY <1>0, <1>7, <2>1 DEF Truthful, Executed
<1> QED BY <1>3, <1>4, <1>8, <1>9 DEF IInv

-----------------------------------------------------------------------------
(* The proxy and upstream *)

\* A flight that moves on as the same request, served only if executed, keeps what
\* concerns the clients.
LEMMA FlightMoves ==
  ASSUME IInv, NEW f \in DOMAIN flights, NEW x \in FlightType, flights' = [flights EXCEPT ![f] = x],
         client' = client, x.client = flights[f].client, x.op = flights[f].op, x.kind = flights[f].kind,
         flights[f].upstream = "executed" => x.upstream = "executed",
         x.kind = "call" /\ x.reply.verdict = "served" => x.upstream = "executed"
  PROVE  Attempted' /\ Truthful'
<1>1. /\ DOMAIN flights' = DOMAIN flights /\ flights'[f] = x
      /\ \A g \in DOMAIN flights : g # f => flights'[g] = flights[g]
  BY FlightChanged DEF IInv
<1>2. ASSUME NEW g \in DOMAIN flights
      PROVE  /\ flights'[g].client = flights[g].client /\ flights'[g].op = flights[g].op
             /\ flights'[g].kind = flights[g].kind
             /\ flights[g].upstream = "executed" => flights'[g].upstream = "executed"
             /\ flights'[g].kind = "call" /\ flights'[g].reply.verdict = "served"
                  => flights'[g].upstream = "executed"
  <2>1. CASE g = f
    BY <1>1, <2>1
  <2>2. CASE g # f
    BY <1>1, <2>2 DEF IInv, Truthful, Executed
  <2> QED BY <2>1, <2>2
<1> QED BY <1>1, <1>2, AttemptsKept DEF IInv

\* One that keeps its place too keeps the bill.
LEMMA FlightStays ==
  ASSUME IInv, NEW f \in DOMAIN flights, NEW x \in FlightType, flights' = [flights EXCEPT ![f] = x],
         x.under = flights[f].under, x.phase # "sent", sessions' = sessions,
         DOMAIN objects' = DOMAIN objects, Len(objects') = Len(objects),
         \A s \in DOMAIN objects :
           /\ objects'[s].calls_made = objects[s].calls_made /\ objects'[s].max_calls \in Nat
           /\ objects[s].max_calls <= objects'[s].max_calls
  PROVE  Billed'
<1>1. /\ DOMAIN flights' = DOMAIN flights /\ flights'[f] = x
      /\ \A g \in DOMAIN flights : g # f => flights'[g] = flights[g]
  BY FlightChanged DEF IInv
<1>2. ASSUME NEW s \in DOMAIN objects PROVE objects[s].calls_made <= objects'[s].max_calls
  <2>1. /\ objects[s].calls_made \in Nat /\ objects[s].max_calls \in Nat
        /\ objects[s].calls_made <= objects[s].max_calls
    BY Fields DEF IInv, ObjectType, Billed
  <2> QED BY <2>1
<1>3. ASSUME NEW g \in DOMAIN flights
      PROVE  /\ flights'[g].under = flights[g].under
             /\ flights'[g].phase = "sent" => flights[g].phase = "sent"
  <2>1. CASE g = f
    BY <1>1, <2>1
  <2>2. CASE g # f
    BY <1>1, <2>2
  <2> QED BY <2>1, <2>2
<1> QED BY <1>1, <1>2, <1>3, BillKept DEF IInv

\* A reply.
LEMMA Replied ==
  ASSUME TypeOK, NEW f \in DOMAIN flights, NEW verdict \in Verdicts, NEW id \in Nat,
         NEW digest \in Digests, Replies(f, verdict, id, digest)
  PROVE  \E x \in FlightType :
           /\ flights' = [flights EXCEPT ![f] = x] /\ x.client = flights[f].client
           /\ x.op = flights[f].op /\ x.kind = flights[f].kind /\ x.under = flights[f].under
           /\ x.phase = "replied" /\ x.upstream = flights[f].upstream /\ x.reply.verdict = verdict
<1> DEFINE z == flights[f]
           r == [verdict |-> verdict, session_id |-> id, digest |-> digest]
           x == [z EXCEPT !.phase = "replied", !.reply = r]
<1>1. flights' = [flights EXCEPT ![f] = x]
  BY Fields DEF Replies
<1>2. z \in FlightType /\ r \in ReplyType /\ r.verdict = verdict
  BY Fields DEF ReplyType
<1> HIDE DEF z, r
<1>3. /\ x \in FlightType /\ x.client = z.client /\ x.op = z.op /\ x.kind = z.kind
      /\ x.under = z.under /\ x.phase = "replied" /\ x.upstream = z.upstream /\ x.reply = r
  BY <1>2 DEF FlightType
<1> HIDE DEF x
<1>4. x.client = flights[f].client /\ x.op = flights[f].op /\ x.kind = flights[f].kind
      /\ x.under = flights[f].under /\ x.upstream = flights[f].upstream
  BY <1>3 DEF z
<1> QED BY <1>1, <1>2, <1>3, <1>4

\* Refused, returned or abandoned: objects and sessions stay.
LEMMA Answers ==
  ASSUME IInv, NEW f \in DOMAIN flights, Refuse(f) \/ Return(f)
  PROVE  IInv'
<1>1. PICK verdict \in Verdicts :
        /\ Replies(f, verdict, NoId, Null)
        /\ verdict = "served" => flights[f].upstream = "executed"
  <2>1. CASE Refuse(f)
    BY <2>1 DEF Refuse, Verdicts
  <2>2. CASE Return(f)
    <3>1. flights[f].upstream \in {"unasked", "executed", "failed"}
      BY Fields DEF IInv, FlightType
    <3> QED BY <2>2, <3>1 DEF Return, UpstreamAnswered, Verdicts
  <2> QED BY <2>1, <2>2
<1>2. UNCHANGED <<client, objects, sessions, counter>>
  BY DEF Refuse, Return
<1>3. NoId \in Nat /\ Null \in Digests
  BY DEF NoId, Digests
<1>4. PICK x \in FlightType :
        /\ flights' = [flights EXCEPT ![f] = x] /\ x.client = flights[f].client
        /\ x.op = flights[f].op /\ x.kind = flights[f].kind /\ x.under = flights[f].under
        /\ x.phase = "replied" /\ x.upstream = flights[f].upstream /\ x.reply.verdict = verdict
  BY <1>1, <1>3, Replied DEF IInv
<1>5. TypeOK'
  BY <1>2, <1>4, FlightChanged DEF IInv, TypeOK
<1>6. Attempted' /\ Truthful'
  BY <1>1, <1>2, <1>4, FlightMoves
<1>7. Billed'
  <2>1. \A s \in DOMAIN objects :
          objects[s].max_calls \in Nat /\ objects[s].max_calls <= objects[s].max_calls
    BY Fields DEF IInv, ObjectType
  <2> QED BY <1>2, <1>4, <2>1, FlightStays
<1> QED BY <1>5, <1>6, <1>7 DEF IInv

\* Upstream is not reached, at the handshake or for a call.
LEMMA Breaks ==
  ASSUME IInv, NEW f \in DOMAIN flights, OpenFails(f) \/ Abandon(f)
  PROVE  IInv'
<1> DEFINE z == flights[f]
           x == [z EXCEPT !.phase = "broken"]
<1>1. flights' = [flights EXCEPT ![f] = x]
  BY Fields DEF IInv, OpenFails, Abandon
<1>2. UNCHANGED <<client, objects, sessions>> /\ counter' \in Nat
  BY DEF OpenFails, Abandon, ChargeKept, IInv, TypeOK
<1>3. z \in FlightType /\ (z.kind = "call" /\ z.reply.verdict = "served" => z.upstream = "executed")
  BY Fields DEF IInv, Truthful, Executed
<1> HIDE DEF z
<1>4. /\ x \in FlightType /\ x.client = z.client /\ x.op = z.op /\ x.kind = z.kind
      /\ x.under = z.under /\ x.phase = "broken" /\ x.upstream = z.upstream /\ x.reply = z.reply
  BY <1>3 DEF FlightType
<1> HIDE DEF x
<1> USE DEF z
<1>5. TypeOK'
  BY <1>1, <1>2, <1>4, FlightChanged DEF IInv, TypeOK
<1>6. Attempted' /\ Truthful'
  BY <1>1, <1>2, <1>3, <1>4, FlightMoves
<1>7. Billed'
  <2>1. \A s \in DOMAIN objects :
          objects[s].max_calls \in Nat /\ objects[s].max_calls <= objects[s].max_calls
    BY Fields DEF IInv, ObjectType
  <2> QED BY <1>1, <1>2, <1>4, <2>1, FlightStays
<1> QED BY <1>5, <1>6, <1>7 DEF IInv

\* Upstream gets to a call, in time or not.
LEMMA Executes ==
  ASSUME IInv, NEW f \in DOMAIN flights, Execute(f)
  PROVE  IInv'
<1> DEFINE z == flights[f]
<1>1. PICK outcome \in {"executed", "failed"} : flights' = [flights EXCEPT ![f].upstream = outcome]
  BY DEF Execute
<1> DEFINE x == [z EXCEPT !.upstream = outcome]
<1>2. flights' = [flights EXCEPT ![f] = x]
  BY <1>1, Fields DEF IInv
<1>3. UNCHANGED <<client, objects, sessions, counter>>
  BY DEF Execute
<1>4. /\ z \in FlightType /\ (z.kind = "call" /\ z.reply.verdict = "served" => z.upstream = "executed")
      /\ z.upstream = "unasked" /\ z.phase # "sent"
  BY Fields DEF IInv, Truthful, Executed, Execute, Billed
<1> HIDE DEF z
<1>5. /\ x \in FlightType /\ x.client = z.client /\ x.op = z.op /\ x.kind = z.kind
      /\ x.under = z.under /\ x.phase = z.phase /\ x.upstream = outcome /\ x.reply = z.reply
  BY <1>4 DEF FlightType
<1> HIDE DEF x
<1> USE DEF z
<1>6. TypeOK'
  BY <1>2, <1>3, <1>5, FlightChanged DEF IInv, TypeOK
<1>7. Attempted' /\ Truthful'
  BY <1>2, <1>3, <1>4, <1>5, FlightMoves
<1>8. Billed'
  <2>1. \A s \in DOMAIN objects :
          objects[s].max_calls \in Nat /\ objects[s].max_calls <= objects[s].max_calls
    BY Fields DEF IInv, ObjectType
  <2> QED BY <1>2, <1>3, <1>4, <1>5, <2>1, FlightStays
<1> QED BY <1>6, <1>7, <1>8 DEF IInv

\* A session's id leads to its object.
LEMMA SessionFound ==
  ASSUME IInv, NEW f \in DOMAIN flights, SessionOf(f) # 0
  PROVE  SessionOf(f) \in DOMAIN objects
<1>1. flights[f].session_id \in DOMAIN sessions /\ SessionOf(f) = sessions[flights[f].session_id]
  BY DEF SessionOf
<1>2. SessionOf(f) \in Nat /\ SessionOf(f) <= Len(objects)
  BY <1>1 DEF IInv, Billed, TypeOK
<1> QED BY <1>2, Fields DEF IInv

\* A commitment is amended.
LEMMA Amends ==
  ASSUME IInv, NEW f \in DOMAIN flights, Amend(f)
  PROVE  IInv'
<1> DEFINE s == SessionOf(f)
           o == objects[s]
           digest == Digest(o.owner, o.max_calls + 1)
           chained == o.chained /\ flights[f].prev = o.digest
           n == o.max_calls + 1
           p == [o EXCEPT !.max_calls = n, !.digest = digest, !.chained = chained]
<1>1. /\ Replies(f, "served", NoId, digest) /\ objects' = [objects EXCEPT ![s] = p]
      /\ UNCHANGED <<client, sessions, counter>> /\ flights[f].kind = "amend"
  BY DEF Amend, Arrived
<1>2. s \in DOMAIN objects
  BY SessionFound DEF Amend
<1>3. o \in ObjectType /\ o.max_calls \in Nat /\ n \in Nat /\ o.max_calls <= n /\ chained \in BOOLEAN
  <2>1. o \in ObjectType
    BY <1>2, Fields DEF IInv
  <2>2. o.max_calls \in Nat /\ o.chained \in BOOLEAN
    BY <2>1 DEF ObjectType
  <2> QED BY <2>1, <2>2
<1>4. digest \in Digests
  BY <1>3 DEF Digest, Digests, ObjectType
<1> HIDE DEF digest, chained, n, o
<1>5. p \in ObjectType /\ p.calls_made = o.calls_made /\ p.max_calls = n
  BY <1>3, <1>4 DEF ObjectType
<1> HIDE DEF p, s
<1>6. NoId \in Nat /\ "served" \in Verdicts
  BY DEF NoId, Verdicts
<1>7. PICK x \in FlightType :
        /\ flights' = [flights EXCEPT ![f] = x] /\ x.client = flights[f].client
        /\ x.op = flights[f].op /\ x.kind = flights[f].kind /\ x.under = flights[f].under
        /\ x.phase = "replied" /\ x.upstream = flights[f].upstream /\ x.reply.verdict = "served"
  BY <1>1, <1>4, <1>6, Replied DEF IInv
<1>8. /\ objects' \in Seq(ObjectType) /\ DOMAIN objects' = DOMAIN objects
      /\ Len(objects') = Len(objects) /\ objects'[s] = p
      /\ \A t \in DOMAIN objects : t # s => objects'[t] = objects[t]
  BY <1>1, <1>2, <1>5 DEF IInv, TypeOK
<1>9. TypeOK'
  BY <1>1, <1>7, <1>8, FlightChanged DEF IInv, TypeOK
<1>10. Attempted' /\ Truthful'
  BY <1>1, <1>7, FlightMoves
<1>11. Billed'
  <2>1. ASSUME NEW t \in DOMAIN objects
        PROVE  /\ objects'[t].calls_made = objects[t].calls_made /\ objects'[t].max_calls \in Nat
               /\ objects[t].max_calls <= objects'[t].max_calls
    <3>1. CASE t = s
      BY <1>3, <1>5, <1>8, <3>1 DEF o
    <3>2. CASE t # s
      BY <1>8, <3>2, Fields DEF IInv, ObjectType
    <3> QED BY <3>1, <3>2
  <2> QED BY <1>1, <1>7, <1>8, <2>1, FlightStays
<1> QED BY <1>9, <1>10, <1>11 DEF IInv

\* A call is admitted: it comes under its session's object, which had a call left.
LEMMA Admits ==
  ASSUME IInv, NEW f \in DOMAIN flights, Admit(f)
  PROVE  IInv'
<1> DEFINE s == SessionOf(f)
           o == objects[s]
           z == flights[f]
           n == o.calls_made + 1
           p == [o EXCEPT !.calls_made = n]
           x == [z EXCEPT !.phase = "forwarded", !.under = s]
<1>1. UNCHANGED <<client, sessions, counter>> /\ o.calls_made < o.max_calls /\ z.phase = "sent"
  BY DEF Admit, CallsLeft, Arrived
<1>2. s \in DOMAIN objects /\ s \in Nat /\ s # 0
  BY SessionFound, Fields DEF Admit, IInv
<1>3. /\ flights' = [flights EXCEPT ![f] = x] /\ objects' = [objects EXCEPT ![s] = p]
  BY <1>2, Fields DEF IInv, Admit
<1>4. /\ z \in FlightType /\ z.under = 0
      /\ (z.kind = "call" /\ z.reply.verdict = "served" => z.upstream = "executed")
  BY <1>1, Fields DEF IInv, Truthful, Executed, Billed
<1>5. o \in ObjectType /\ o.calls_made \in Nat /\ o.max_calls \in Nat /\ n \in Nat /\ n <= o.max_calls
  <2>1. o \in ObjectType
    BY <1>2, Fields DEF IInv
  <2>2. o.calls_made \in Nat /\ o.max_calls \in Nat
    BY <2>1 DEF ObjectType
  <2> QED BY <1>1, <2>1, <2>2
<1> HIDE DEF o, z, s
<1>6. /\ x \in FlightType /\ x.client = z.client /\ x.op = z.op /\ x.kind = z.kind
      /\ x.under = s /\ x.phase = "forwarded" /\ x.upstream = z.upstream /\ x.reply = z.reply
  BY <1>2, <1>4 DEF FlightType
<1> HIDE DEF n
<1>7. p \in ObjectType /\ p.calls_made = n /\ p.max_calls = o.max_calls
  BY <1>5 DEF ObjectType
<1> HIDE DEF p, x
<1>8. /\ objects' \in Seq(ObjectType) /\ DOMAIN objects' = DOMAIN objects
      /\ Len(objects') = Len(objects) /\ objects'[s] = p
      /\ \A t \in DOMAIN objects : t # s => objects'[t] = objects[t]
  BY <1>2, <1>3, <1>7 DEF IInv, TypeOK
<1>9. /\ flights' \in Seq(FlightType) /\ DOMAIN flights' = DOMAIN flights /\ flights'[f] = x
      /\ \A g \in DOMAIN flights : g # f => flights'[g] = flights[g]
  BY <1>3, <1>6, FlightChanged DEF IInv
<1>10. TypeOK'
  BY <1>1, <1>8, <1>9 DEF IInv, TypeOK
<1>11. Attempted' /\ Truthful'
  BY <1>1, <1>3, <1>4, <1>6, FlightMoves DEF z
<1>12. ASSUME NEW t \in DOMAIN objects
       PROVE  /\ IsFiniteSet(Under(t)') /\ Cardinality(Under(t)') = objects'[t].calls_made
              /\ objects'[t].calls_made <= objects'[t].max_calls
  <2>1. /\ IsFiniteSet(Under(t)) /\ Cardinality(Under(t)) = objects[t].calls_made
        /\ objects[t].calls_made <= objects[t].max_calls
    BY DEF IInv, Billed
  <2>2. CASE t = s
    <3>1. Under(t)' = Under(t) \cup {f} /\ f \notin Under(t)
      BY <1>2, <1>4, <1>6, <1>9, <2>2 DEF Under, z
    <3>2. IsFiniteSet(Under(t)') /\ Cardinality(Under(t)') = Cardinality(Under(t)) + 1
      BY <2>1, <3>1, FS_AddElement
    <3>3. objects[t] = o /\ objects'[t] = p
      BY <1>8, <2>2 DEF o
    <3> QED BY <1>5, <1>7, <2>1, <3>2, <3>3 DEF n
  <2>3. CASE t # s
    <3>1. t # 0
      BY Fields DEF IInv
    <3>2. ASSUME NEW g PROVE g \in Under(t)' <=> g \in Under(t)
      <4>1. CASE g = f
        BY <1>4, <1>6, <1>9, <2>3, <3>1, <4>1 DEF Under, z
      <4>2. CASE g # f
        BY <1>9, <4>2 DEF Under
      <4> QED BY <4>1, <4>2
    <3>3. Under(t)' = Under(t)
      BY <3>2
    <3> QED BY <1>8, <2>1, <2>3, <3>3
  <2> QED BY <2>2, <2>3
<1>13. ASSUME NEW g \in DOMAIN flights
       PROVE  flights'[g].under <= Len(objects) /\ (flights'[g].phase = "sent" => flights'[g].under = 0)
  <2>1. CASE g = f
    BY <1>2, <1>6, <1>9, <2>1, Fields DEF IInv
  <2>2. CASE g # f
    BY <1>9, <2>2 DEF IInv, Billed
  <2> QED BY <2>1, <2>2
<1>14. Billed'
  BY <1>1, <1>8, <1>9, <1>12, <1>13 DEF IInv, Billed
<1> QED BY <1>10, <1>11, <1>14 DEF IInv

\* A session is opened: its object is a new one, with no flight under it.
LEMMA Opens ==
  ASSUME IInv, NEW f \in DOMAIN flights, Open(f)
  PROVE  IInv'
<1> DEFINE z == flights[f]
           id == IF z.session_id = NoId THEN counter + 1 ELSE z.session_id
           digest == Digest(z.client, z.max_calls)
           o == [owner |-> z.client, calls_made |-> 0, max_calls |-> z.max_calls,
                 digest |-> digest, chained |-> TRUE]
           n == Len(objects) + 1
<1>1. /\ Replies(f, "served", id, digest) /\ objects' = Append(objects, o)
      /\ sessions' = [sessions EXCEPT ![id] = n] /\ client' = client
      /\ counter' = (IF z.session_id = NoId THEN counter + 1 ELSE counter)
      /\ z.kind = "open" /\ z.phase = "sent"
  BY DEF Open, Arrived
<1>2. /\ z \in FlightType /\ z.under = 0 /\ z.max_calls \in Nat /\ z.client \in Clients
      /\ z.session_id \in Nat /\ counter \in Nat
  <2>1. z \in FlightType /\ z.under = 0 /\ counter \in Nat
    BY <1>1, Fields DEF IInv, Billed, TypeOK
  <2> QED BY <2>1 DEF FlightType
<1>3. id \in Nat /\ digest \in Digests /\ counter' \in Nat
  BY <1>1, <1>2 DEF Digest, Digests
<1> HIDE DEF id, digest
<1>4. o \in ObjectType /\ o.calls_made = 0 /\ o.max_calls \in Nat
  BY <1>2, <1>3 DEF ObjectType
<1> HIDE DEF o
<1>5. "served" \in Verdicts
  BY DEF Verdicts
<1>6. PICK x \in FlightType :
        /\ flights' = [flights EXCEPT ![f] = x] /\ x.client = flights[f].client
        /\ x.op = flights[f].op /\ x.kind = flights[f].kind /\ x.under = flights[f].under
        /\ x.phase = "replied" /\ x.upstream = flights[f].upstream /\ x.reply.verdict = "served"
  BY <1>1, <1>3, <1>5, Replied DEF IInv
<1> HIDE DEF z
<1>7. /\ flights' \in Seq(FlightType) /\ DOMAIN flights' = DOMAIN flights /\ flights'[f] = x
      /\ \A g \in DOMAIN flights : g # f => flights'[g] = flights[g]
  BY <1>6, FlightChanged DEF IInv
<1>8. /\ objects' \in Seq(ObjectType) /\ DOMAIN objects' = DOMAIN objects \cup {n}
      /\ Len(objects') = n /\ objects'[n] = o /\ n \notin DOMAIN objects
      /\ \A t \in DOMAIN objects : objects'[t] = objects[t]
  BY <1>1, <1>4 DEF IInv, TypeOK
<1>9. /\ sessions' \in [1..MaxFlights -> Nat] /\ DOMAIN sessions' = DOMAIN sessions
      /\ \A i \in DOMAIN sessions : sessions'[i] = n \/ sessions'[i] = sessions[i]
  <2>1. sessions \in [1..MaxFlights -> Nat] /\ n \in Nat
    BY Fields DEF IInv, TypeOK
  <2> HIDE DEF n
  <2> QED BY <1>1, <2>1
<1>10. TypeOK'
  BY <1>1, <1>3, <1>7, <1>8, <1>9 DEF IInv, TypeOK
<1>11. Attempted' /\ Truthful'
  BY <1>1, <1>6, FlightMoves DEF z
<1>12. ASSUME NEW t PROVE Under(t)' = Under(t)
  <2>1. ASSUME NEW g \in DOMAIN flights PROVE flights'[g].under = flights[g].under
    <3>1. CASE g = f
      BY <1>6, <1>7, <3>1
    <3>2. CASE g # f
      BY <1>7, <3>2
    <3> QED BY <3>1, <3>2
  <2> QED BY <1>7, <2>1 DEF Under
<1>13. Len(objects) \in Nat /\ n \in Nat /\ Len(objects) <= n /\ DOMAIN objects = 1..Len(objects)
  BY Fields DEF IInv
<1>14. Under(n) = {}
  <2>1. \A g \in DOMAIN flights : flights[g].under \in Nat /\ flights[g].under <= Len(objects)
    BY Fields DEF IInv, Billed, FlightType
  <2> QED BY <1>13, <2>1 DEF Under
<1> HIDE DEF n
<1>15. ASSUME NEW t \in DOMAIN objects'
       PROVE  /\ IsFiniteSet(Under(t)') /\ Cardinality(Under(t)') = objects'[t].calls_made
              /\ objects'[t].calls_made <= objects'[t].max_calls
  <2>1. CASE t = n
    <3>1. IsFiniteSet({}) /\ Cardinality({}) = 0
      BY FS_EmptySet
    <3>2. Under(t)' = {}
      BY <1>12, <1>14, <2>1
    <3> QED BY <1>4, <1>8, <2>1, <3>1, <3>2
  <2>2. CASE t \in DOMAIN objects
    BY <1>8, <1>12, <2>2 DEF IInv, Billed
  <2> QED BY <1>8, <2>1, <2>2
<1>16. ASSUME NEW g \in DOMAIN flights
       PROVE  flights'[g].under <= n /\ (flights'[g].phase = "sent" => flights'[g].under = 0)
  <2>1. CASE g = f
    BY <1>2, <1>6, <1>7, <1>13, <2>1 DEF z
  <2>2. CASE g # f
    <3>1. flights[g].under \in Nat
      BY Fields DEF IInv, FlightType
    <3> QED BY <1>7, <1>13, <2>2, <3>1 DEF IInv, Billed
  <2> QED BY <2>1, <2>2
<1>17. ASSUME NEW i \in DOMAIN sessions PROVE sessions'[i] <= n
  <2>1. sessions[i] \in Nat /\ sessions[i] <= Len(objects)
    BY DEF IInv, Billed, TypeOK
  <2> QED BY <1>9, <1>13, <2>1
<1>18. Billed'
  BY <1>7, <1>8, <1>9, <1>15, <1>16, <1>17 DEF Billed
<1> QED BY <1>10, <1>11, <1>18 DEF IInv

\* The proxy restarts: objects and flights stay where they are.
LEMMA Restarts ==
  ASSUME IInv, ProxyRestarts
  PROVE  IInv'
<1>1. /\ UNCHANGED <<client, objects>> /\ counter' = 0
      /\ sessions' = [id \in DOMAIN sessions |-> 0]
      /\ flights' = [f \in DOMAIN flights |->
           IF flights[f].phase = "forwarded" THEN [flights[f] EXCEPT !.phase = "broken"] ELSE flights[f]]
  BY DEF ProxyRestarts
<1>2. ASSUME NEW f \in DOMAIN flights
      PROVE  /\ flights'[f] \in FlightType /\ flights'[f].client = flights[f].client
             /\ flights'[f].op = flights[f].op /\ flights'[f].kind = flights[f].kind
             /\ flights'[f].under = flights[f].under /\ flights'[f].upstream = flights[f].upstream
             /\ flights'[f].reply = flights[f].reply
             /\ (flights'[f].phase = "sent" => flights[f].phase = "sent")
  <2> DEFINE z == flights[f]
             x == [z EXCEPT !.phase = "broken"]
  <2>1. z \in FlightType /\ flights'[f] = IF z.phase = "forwarded" THEN x ELSE z
    BY <1>1, Fields DEF IInv
  <2> HIDE DEF z
  <2>2. /\ x \in FlightType /\ x.client = z.client /\ x.op = z.op /\ x.kind = z.kind
        /\ x.under = z.under /\ x.phase = "broken" /\ x.upstream = z.upstream /\ x.reply = z.reply
    BY <2>1 DEF FlightType
  <2> HIDE DEF x
  <2> QED BY <2>1, <2>2 DEF z
<1>3. DOMAIN flights' = DOMAIN flights /\ flights' \in Seq(FlightType)
  <2>1. DOMAIN flights = 1..Len(flights) /\ Len(flights) \in Nat
    BY Fields DEF IInv
  <2>2. flights' \in [1..Len(flights) -> FlightType]
    BY <1>1, <1>2, <2>1
  <2> QED BY <1>1, <2>1, <2>2
<1>4. sessions' \in [1..MaxFlights -> Nat] /\ DOMAIN sessions' = DOMAIN sessions
  BY <1>1 DEF IInv, TypeOK
<1>5. TypeOK'
  BY <1>1, <1>3, <1>4 DEF IInv, TypeOK
<1>6. Attempted' /\ Truthful'
  <2>1. \A f \in DOMAIN flights :
          flights[f].kind = "call" /\ flights[f].reply.verdict = "served"
            => flights[f].upstream = "executed"
    BY DEF IInv, Truthful, Executed
  <2> QED BY <1>1, <1>2, <1>3, <2>1, AttemptsKept DEF IInv
<1>7. ASSUME NEW s PROVE Under(s)' = Under(s)
  BY <1>2, <1>3 DEF Under
<1>8. Billed'
  <2>1. ASSUME NEW id \in DOMAIN sessions' PROVE sessions'[id] <= Len(objects)
    BY <1>1, <1>4, Fields DEF IInv
  <2> QED BY <1>1, <1>2, <1>3, <1>7, <2>1 DEF IInv, Billed
<1> QED BY <1>5, <1>6, <1>8 DEF IInv

-----------------------------------------------------------------------------
(* The theorems *)

LEMMA InitIInv == Init => IInv
<1> SUFFICES ASSUME Init PROVE IInv
  OBVIOUS
<1>1. TypeOK
  BY DEF Init, TypeOK, ClientType, NoId, Digests
<1>2. DOMAIN flights = {} /\ DOMAIN objects = {} /\ Len(objects) = 0
  BY DEF Init
<1>3. Billed
  BY <1>2 DEF Init, Billed
<1>4. \A c \in Clients : client[c].op = 0 /\ client[c].attempt = 0 /\ client[c].flight = 0
                         /\ client[c].told = "nothing" /\ 0 <= Attempts[c]
  BY ExchangeAssumption DEF Init
<1>5. Attempted /\ Truthful
  BY <1>2, <1>4 DEF Attempted, Truthful, Waiting
<1> QED BY <1>1, <1>3, <1>5 DEF IInv

LEMMA NextIInv == IInv /\ [Next]_vars => IInv'
<1> SUFFICES ASSUME IInv, [Next]_vars PROVE IInv'
  OBVIOUS
<1>1. ASSUME NEW c \in Clients, Operates(c) PROVE IInv'
  BY <1>1, BeginsOperation DEF Operates
<1>2. ASSUME NEW c \in Clients, GoesOn(c) PROVE IInv'
  BY <1>2, Retries, OperationOver DEF GoesOn
<1>3. ASSUME NEW f \in DOMAIN flights, Handles(f) PROVE IInv'
  BY <1>3, Opens, Breaks, Amends, Answers, Admits DEF Handles
<1>4. ASSUME NEW f \in DOMAIN flights, Execute(f) PROVE IInv'
  BY <1>4, Executes
<1>5. CASE ProxyRestarts
  BY <1>5, Restarts
<1>6. CASE UNCHANGED vars
  <2>1. /\ client' = client /\ flights' = flights /\ objects' = objects
        /\ sessions' = sessions /\ counter' = counter
    BY <1>6 DEF vars
  <2>2. TypeOK' /\ Billed'
    BY <2>1 DEF IInv, TypeOK, Billed, Under
  <2>3. Attempted' /\ Truthful'
    <3>1. \A f \in DOMAIN flights :
            flights[f].kind = "call" /\ flights[f].reply.verdict = "served"
              => flights[f].upstream = "executed"
      BY DEF IInv, Truthful, Executed
    <3> QED BY <2>1, <3>1, AttemptsKept DEF IInv
  <2> QED BY <2>2, <2>3 DEF IInv
<1> QED BY <1>1, <1>2, <1>3, <1>4, <1>5, <1>6 DEF Next

LEMMA AlwaysIInv == Spec => []IInv
BY InitIInv, NextIInv, PTL DEF Spec

\* Whatever is lost, late or repeated, the calls executed under a commitment are billed to
\* it and within its ceiling (dispatch, verify_call).
THEOREM CeilingHolds == Spec => []ExecutedWithinCeiling
<1>1. IInv => ExecutedWithinCeiling
  <2> SUFFICES ASSUME IInv, NEW s \in DOMAIN objects
               PROVE  /\ Cardinality(Under(s)) = objects[s].calls_made
                      /\ objects[s].calls_made <= objects[s].max_calls
                      /\ Cardinality({f \in DOMAIN flights : flights[f].under = s /\ Executed(f)})
                           <= objects[s].calls_made
    BY DEF ExecutedWithinCeiling, Under
  <2> DEFINE ran == {f \in DOMAIN flights : flights[f].under = s /\ Executed(f)}
  <2>1. /\ IsFiniteSet(Under(s)) /\ Cardinality(Under(s)) = objects[s].calls_made
        /\ objects[s].calls_made <= objects[s].max_calls
    BY DEF IInv, Billed
  <2>2. ran \subseteq Under(s)
    BY DEF Under
  <2>3. Cardinality(ran) <= Cardinality(Under(s))
    BY <2>1, <2>2, FS_Subset
  <2> QED BY <2>1, <2>3
<1> QED BY <1>1, AlwaysIInv, PTL

\* One call of the client's API runs the tool at most once per attempt (_post).
THEOREM AttemptsBoundExecutions == Spec => []AtMostPerAttempt
<1>1. IInv => AtMostPerAttempt
  <2> SUFFICES ASSUME IInv, NEW c \in Clients, NEW op \in 1..client[c].op
               PROVE  Cardinality({f \in FlightsOf(c, op) : Executed(f)}) <= Attempts[c]
    BY DEF AtMostPerAttempt
  <2> DEFINE ran == {f \in FlightsOf(c, op) : Executed(f)}
  <2>1. /\ IsFiniteSet(FlightsOf(c, op)) /\ client[c].attempt <= Attempts[c]
        /\ Cardinality(FlightsOf(c, op)) <= IF op = client[c].op THEN client[c].attempt ELSE Attempts[c]
    BY DEF IInv, Attempted
  <2>2. ran \subseteq FlightsOf(c, op)
    OBVIOUS
  <2> HIDE DEF ran
  <2>3. IsFiniteSet(ran) /\ Cardinality(ran) <= Cardinality(FlightsOf(c, op))
    BY <2>1, <2>2, FS_Subset
  <2>4. Cardinality(ran) \in Nat /\ Cardinality(FlightsOf(c, op)) \in Nat
    BY <2>1, <2>3, FS_CardinalityType
  <2>5. client[c].attempt \in Nat /\ Attempts[c] \in Nat
    BY Fields, ExchangeAssumption DEF IInv, ClientType
  <2>6. Cardinality(FlightsOf(c, op)) <= Attempts[c]
    BY <2>1, <2>4, <2>5
  <2>7. Cardinality(ran) <= Attempts[c]
    BY <2>3, <2>4, <2>5, <2>6
  <2> QED BY <2>7 DEF ran
<1> QED BY <1>1, AlwaysIInv, PTL

\* A client told that its call was served can rely on it that the tool ran for it
\* (dispatch, _parse).
THEOREM ServedWasExecuted == Spec => []ServedMeansExecuted
<1>1. IInv => ServedMeansExecuted
  <2> SUFFICES ASSUME IInv, NEW c \in Clients, client[c].told = "served",
                      NEW g \in FlightsOf(c, client[c].op), flights[g].kind = "call"
               PROVE  \E f \in FlightsOf(c, client[c].op) : Executed(f)
    BY DEF ServedMeansExecuted
  <2>1. PICK f \in FlightsOf(c, client[c].op) : flights[f].kind = "call" => Executed(f)
    BY DEF IInv, Truthful
  <2>2. flights[f].kind = flights[g].kind
    BY DEF IInv, Attempted, FlightsOf
  <2> QED BY <2>1, <2>2
<1> QED BY <1>1, AlwaysIInv, PTL

=============================================================================
