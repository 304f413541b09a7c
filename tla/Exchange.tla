------------------------------- MODULE Exchange -------------------------------
(***************************************************************************)
(* Clients, the proxy and the upstream MCP server over connections that    *)
(* fail: a client repeats a request it has no answer to (_post), the proxy *)
(* gives up on upstream after its own timeout although upstream may still  *)
(* execute the call (_forward), and a proxy that restarts forgets its      *)
(* sessions while clients keep their session ids.                          *)
(*                                                                         *)
(* Each attempt at an operation is a flight.  The checks of a call are one *)
(* step here, with the call meter alone; VapEngine has the checks in full. *)
(***************************************************************************)
EXTENDS Naturals, Sequences, FiniteSets, FiniteSetsExt

CONSTANTS
  Clients,
  Attempts,      \* client -> attempts at one operation: 3 in Python, 1 in TypeScript
  TimingOut,     \* the clients whose attempts time out
  Kinds,         \* operations the clients use: "open", "call", "amend"
  MaxOps,        \* bound on the operations of a client
  MaxFlights,    \* bound on the flights of a behaviour
  MaxRestarts,   \* bound on the restarts of the proxy
  Ceilings,      \* client -> what max_calls its commitments may have
  Null

ASSUME ExchangeAssumption ==
  /\ TimingOut \subseteq Clients
  /\ Attempts \in [Clients -> Nat \ {0}] /\ Kinds \subseteq {"open", "call", "amend"}
  /\ MaxOps \in Nat /\ MaxFlights \in Nat /\ MaxRestarts \in Nat /\ Ceilings \in [Clients -> SUBSET Nat]

VARIABLES
  client,       \* per client: what it keeps, and the operation it is at
  flights,      \* every attempt made so far, in the order sent
  objects,      \* the Session objects made so far
  sessions,     \* session id -> its object, or 0
  counter,      \* _session_counter
  restarts

vars == <<client, flights, objects, sessions, counter, restarts>>

NoId == 0

Init ==
  /\ client = [c \in Clients |-> [session_id |-> NoId, commitment_digest |-> Null, op |-> 0,
                                  flight |-> 0, attempt |-> 0, told |-> "nothing"]]
  /\ flights = <<>> /\ objects = <<>>
  /\ sessions = [id \in 1..MaxFlights |-> 0]
  /\ counter = 0 /\ restarts = 0

-----------------------------------------------------------------------------
(* The client *)

Waiting(c) == client[c].flight # 0
Awaited(c) == flights[client[c].flight]

NoReply == [verdict |-> "none", session_id |-> NoId, digest |-> Null]

\* A request as it leaves the client.
Flight(c, kind, ceiling) ==
  [client |-> c, kind |-> kind, max_calls |-> ceiling, op |-> client[c].op + 1,
   session_id |-> client[c].session_id, prev |-> client[c].commitment_digest,
   phase |-> "sent", upstream |-> "unasked", under |-> 0, reply |-> NoReply]

\* The same bytes once more.
Unsent(flight) ==
  [flight EXCEPT !.phase = "sent", !.upstream = "unasked", !.under = 0, !.reply = NoReply]

\* The bound keeps no retry away: an operation begins if all its attempts have room.
RoomFor(c) ==
  Len(flights) + Attempts[c]
    + MapThenSumSet(LAMBDA d : Attempts[d] - client[d].attempt, {d \in Clients : Waiting(d)})
  <= MaxFlights

Begin(c, kind) ==
  /\ ~Waiting(c) /\ client[c].op < MaxOps /\ RoomFor(c)
  /\ \E ceiling \in IF kind = "open" THEN Ceilings[c] ELSE {0} :
       flights' = Append(flights, Flight(c, kind, ceiling))
  /\ client' = [client EXCEPT ![c].op = client[c].op + 1, ![c].attempt = 1,
                              ![c].flight = Len(flights) + 1, ![c].told = "nothing"]
  /\ UNCHANGED <<objects, sessions, counter, restarts>>

\* Mutant: attempts are counted from zero.
AttemptsLeftFromZero(c) == client[c].attempt <= Attempts[c]

AttemptsLeft(c) == client[c].attempt < Attempts[c]

\* Mutant: an attempt is not counted.
SameAttempt(c) == client[c].attempt

NextAttempt(c) == client[c].attempt + 1

\* The connection broke or 20 seconds passed.  Whatever became of the first flight, it
\* goes on; nobody waits for it any more.
Retry(c) ==
  /\ Waiting(c) /\ AttemptsLeft(c) /\ Len(flights) < MaxFlights
  /\ flights' = Append(flights, Unsent(Awaited(c)))
  /\ client' = [client EXCEPT ![c].attempt = NextAttempt(c),
                              ![c].flight = Len(flights) + 1]
  /\ UNCHANGED <<objects, sessions, counter, restarts>>

\* The last attempt failed too: the error is raised.
GiveUp(c) ==
  /\ Waiting(c) /\ ~AttemptsLeft(c)
  /\ client' = [client EXCEPT ![c].flight = 0, ![c].told = "raised"]
  /\ UNCHANGED <<flights, objects, sessions, counter, restarts>>

\* _parse: a JSON-RPC error is told as "denied".
Told(verdict) == IF verdict = "error" THEN "denied" ELSE verdict

Receive(c) ==
  /\ Waiting(c) /\ Awaited(c).phase = "replied"
  /\ LET r == Awaited(c).reply IN
     client' = [client EXCEPT
       ![c].flight = 0, ![c].told = Told(r.verdict),
       ![c].session_id = IF r.session_id # NoId THEN r.session_id ELSE client[c].session_id,
       ![c].commitment_digest = IF r.digest # Null THEN r.digest ELSE client[c].commitment_digest]
  /\ UNCHANGED <<flights, objects, sessions, counter, restarts>>

-----------------------------------------------------------------------------
(* The proxy: dispatch, one handler per flight *)

Arrived(f, kind) == flights[f].phase = "sent" /\ flights[f].kind = kind

Replies(f, verdict, id, digest) ==
  flights' = [flights EXCEPT ![f].phase = "replied",
    ![f].reply = [verdict |-> verdict, session_id |-> id, digest |-> digest]]

\* The digest stands for the terms it covers.
Digest(owner, ceiling) == <<owner, ceiling>>

\* initialize: the session is made after upstream has answered, under the id in the header
\* or else a new one.
Open(f) ==
  /\ Arrived(f, "open")
  /\ LET fresh == flights[f].session_id = NoId
         id == IF fresh THEN counter + 1 ELSE flights[f].session_id
         owner == flights[f].client
         ceiling == flights[f].max_calls
     IN  /\ counter' = IF fresh THEN counter + 1 ELSE counter
         /\ objects' = Append(objects, [owner |-> owner, calls_made |-> 0, max_calls |-> ceiling,
                                        digest |-> Digest(owner, ceiling), chained |-> TRUE])
         /\ sessions' = [sessions EXCEPT ![id] = Len(objects) + 1]
         /\ Replies(f, "served", id, Digest(owner, ceiling))
  /\ UNCHANGED <<client, restarts>>

\* Upstream does not answer the handshake: the id is used up and no session made.
OpenFails(f) ==
  /\ Arrived(f, "open")
  /\ counter' = IF flights[f].session_id = NoId THEN counter + 1 ELSE counter
  /\ flights' = [flights EXCEPT ![f].phase = "broken"]
  /\ UNCHANGED <<client, objects, sessions, restarts>>

SessionOf(f) ==
  IF flights[f].session_id \in DOMAIN sessions THEN sessions[flights[f].session_id] ELSE 0

Amend(f) ==
  /\ Arrived(f, "amend") /\ SessionOf(f) # 0
  /\ LET s == SessionOf(f)
         o == objects[s]
         digest == Digest(o.owner, o.max_calls + 1)
     IN  /\ objects' = [objects EXCEPT ![s] =
              [o EXCEPT !.max_calls = o.max_calls + 1, !.digest = digest,
                        !.chained = o.chained /\ flights[f].prev = o.digest]]
         /\ Replies(f, "served", NoId, digest)
  /\ UNCHANGED <<client, sessions, counter, restarts>>

CallsLeft(s) == objects[s].calls_made < objects[s].max_calls

\* A call or an amendment with no session, or a call with none left.
Refuse(f) ==
  /\ \/ Arrived(f, "amend") /\ SessionOf(f) = 0
     \/ Arrived(f, "call") /\ (SessionOf(f) # 0 => ~CallsLeft(SessionOf(f)))
  /\ Replies(f, "denied", NoId, Null)
  /\ UNCHANGED <<client, objects, sessions, counter, restarts>>

\* The call passes the checks, is billed and forwarded.
Admit(f) ==
  /\ Arrived(f, "call") /\ SessionOf(f) # 0 /\ CallsLeft(SessionOf(f))
  /\ objects' = [objects EXCEPT ![SessionOf(f)].calls_made = @ + 1]
  /\ flights' = [flights EXCEPT ![f].phase = "forwarded", ![f].under = SessionOf(f)]
  /\ UNCHANGED <<client, sessions, counter, restarts>>

\* Mutant: the charge of a call that upstream did not answer is taken back.
ChargeRefunded(f) == [objects EXCEPT ![flights[f].under].calls_made = @ - 1]

ChargeKept(f) == objects

\* Upstream cannot be reached or is too late: dispatch raises and the connection to the
\* client is closed; the call stays billed.
Abandon(f) ==
  /\ flights[f].phase = "forwarded"
  /\ flights' = [flights EXCEPT ![f].phase = "broken"]
  /\ objects' = ChargeKept(f)
  /\ UNCHANGED <<client, sessions, counter, restarts>>

\* Mutant: the verdict goes out whether or not upstream has answered.
NotAwaited(f) == TRUE

UpstreamAnswered(f) == flights[f].upstream # "unasked"

\* Upstream's result goes out with the verdict; its error goes out alone.
Return(f) ==
  /\ flights[f].phase = "forwarded" /\ UpstreamAnswered(f)
  /\ Replies(f, IF flights[f].upstream = "failed" THEN "error" ELSE "served", NoId, Null)
  /\ UNCHANGED <<client, objects, sessions, counter, restarts>>

\* A new process: no sessions, ids from the start, the old handlers' connections closed.
ProxyRestarts ==
  /\ restarts < MaxRestarts
  /\ restarts' = restarts + 1
  /\ sessions' = [id \in DOMAIN sessions |-> 0] /\ counter' = 0
  /\ flights' = [f \in DOMAIN flights |->
       IF flights[f].phase = "forwarded" THEN [flights[f] EXCEPT !.phase = "broken"] ELSE flights[f]]
  /\ UNCHANGED <<client, objects>>

-----------------------------------------------------------------------------
\* Upstream: tools/call executes a known tool, and answers an error for another one.  It
\* may get to a call only after the proxy has stopped waiting.
Execute(f) ==
  /\ flights[f].under # 0 /\ flights[f].upstream = "unasked"
  /\ \E outcome \in {"executed", "failed"} :
       flights' = [flights EXCEPT ![f].upstream = outcome]
  /\ UNCHANGED <<client, objects, sessions, counter, restarts>>

Operates(c) == \E kind \in Kinds : Begin(c, kind)
GoesOn(c) == Retry(c) \/ GiveUp(c) \/ Receive(c)
Handles(f) ==
  Open(f) \/ OpenFails(f) \/ Amend(f) \/ Refuse(f) \/ Admit(f) \/ Abandon(f) \/ Return(f)

Next ==
  \/ \E c \in Clients : Operates(c) \/ GoesOn(c)
  \/ \E f \in DOMAIN flights : Handles(f) \/ Execute(f)
  \/ ProxyRestarts

Spec == Init /\ [][Next]_vars

\* An attempt of the Python client ends by its answer or its timeout of 20 seconds; fetch,
\* in the TypeScript client, has no timeout.
LiveSpec == Spec /\ \A c \in TimingOut : WF_vars(GoesOn(c))

-----------------------------------------------------------------------------
(* Properties *)

FlightsOf(c, op) == {f \in DOMAIN flights : flights[f].client = c /\ flights[f].op = op}
Executed(f) == flights[f].upstream = "executed"

\* However answers are lost, late or repeated for, and whatever upstream does after the
\* proxy stopped waiting, the calls executed under a commitment are all billed to it and
\* within its ceiling (dispatch, verify_call).
ExecutedWithinCeiling ==
  \A s \in DOMAIN objects :
    /\ Cardinality({f \in DOMAIN flights : flights[f].under = s}) = objects[s].calls_made
    /\ objects[s].calls_made <= objects[s].max_calls
    /\ Cardinality({f \in DOMAIN flights : flights[f].under = s /\ Executed(f)})
         <= objects[s].calls_made

\* A client told that its call was served can rely on it that the tool ran for it
\* (dispatch, _parse).
ServedMeansExecuted ==
  \A c \in Clients :
    client[c].told = "served" /\ (\E f \in FlightsOf(c, client[c].op) : flights[f].kind = "call")
      => \E f \in FlightsOf(c, client[c].op) : Executed(f)

\* One call of the client's API runs the tool at most once per attempt (_post).
AtMostPerAttempt ==
  \A c \in Clients : \A op \in 1..client[c].op :
    Cardinality({f \in FlightsOf(c, op) : Executed(f)}) <= Attempts[c]

\* Every operation of a client that times out returns or raises, whatever another client
\* is doing (_post).
OperationEnds == \A c \in TimingOut : Waiting(c) ~> ~Waiting(c)

\* The draft: amendments form a chain, each naming the commitment it amends.
ChainedAmendments == \A s \in DOMAIN objects : objects[s].chained

=============================================================================
