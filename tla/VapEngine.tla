------------------------------ MODULE VapEngine ------------------------------
(***************************************************************************)
(* The verification engine of the VAP proxy (src/proxy/verification.py) as *)
(* the request handlers of Proxy.dispatch (src/proxy/server.py) drive it.  *)
(*                                                                         *)
(* A thread is one request handler.  Its steps are cut between the checks  *)
(* of verify_call and at the reads and writes of the session table, the    *)
(* counters, the judge cache and the log, so that the model has those      *)
(* interleavings of the threaded server (run_stdlib); the accesses to the  *)
(* commitment inside C2, C3 and amend are cut in LiveTerms.  With Serial = *)
(* TRUE it is the FastAPI deployment, whose coroutine calls the            *)
(* synchronous dispatch and so handles one whole request at a time.        *)
(*                                                                         *)
(* The risk score, the operator's C4 rules and the judge are opaque here:  *)
(* each decision they can take is a possible step.                         *)
(***************************************************************************)
EXTENDS Integers, FiniteSets, Sequences

CONSTANTS
  Threads,          \* request handlers
  Sids,             \* session ids
  Objs,             \* pool of Session objects (bounds how many are created)
  Tools,            \* tool names; one argument shape per tool
  DeleteTool,       \* admin.delete_user, the tool S2 looks for
  Patterns,         \* tool-name globs
  Covers,           \* glob -> the tools it matches
  Goals,            \* goals; Empty and Deletion are the ones S2 tells apart
  Plans,            \* plan digests a commitment may carry
  Meters,           \* named meters, "calls" excluded
  TokensMeter,      \* the meter judge tokens are billed to
  Estimate,         \* tool -> the operator's cost map for it (tool_costs)
  Reports,          \* tool -> the cost maps its results may carry
  JudgeTokens,      \* token usage of a judge call
  Commitments,      \* well-formed scope commitments
  Amendments,       \* well-formed scope amendments
  DefaultMaxCalls,  \* operator defaults of the budget
  DefaultLimits,
  Serial,           \* TRUE: FastAPI; FALSE: ThreadingHTTPServer
  MaxRequests,      \* bound on the requests handled in a behaviour
  Null

None == -1          \* an absent number: no ceiling, meter not mentioned

Optional == Nat \cup {None}
Terms == [tools_allow : SUBSET Patterns, tools_deny : SUBSET Patterns,
          limits : [Meters -> Optional], max_calls : Optional,
          deadline : {"none", "ahead", "past"}]
Commitment == [goal : Goals, plan : Plans \cup {Null}, terms : Terms]
Amendment == [signed : BOOLEAN,
              tools_allow : SUBSET Patterns, tools_deny : SUBSET Patterns,
              add_calls : Nat, extend_deadline : {"keep", "none", "ahead", "past"},
              add_limits : [Meters -> Optional]]
Report == [Meters -> Optional]

ASSUME SerialAssumption == Serial \in BOOLEAN
ASSUME BoundAssumption == MaxRequests \in Nat
ASSUME ToolAssumption ==
  /\ Covers \in [Patterns -> SUBSET Tools]
  /\ Estimate \in [Tools -> Report]
  /\ Reports \in [Tools -> SUBSET Report]
  /\ JudgeTokens \subseteq Nat
  /\ {"empty", "deletion"} \subseteq Goals
ASSUME MessageAssumption ==
  /\ Commitments \subseteq Commitment
  /\ Amendments \subseteq Amendment
  /\ DefaultMaxCalls \in Optional
  /\ DefaultLimits \in [Meters -> Optional]
ASSUME NullAssumption ==
  /\ Null \notin Objs
  /\ Null \notin Plans

(***************************************************************************)
(* A digest is modelled by what is hashed: at open_session the plan digest *)
(* or the goal alone, after an amendment the goal and all the terms.       *)
(***************************************************************************)
Digest == [of : Goals \cup Plans, terms : SUBSET Terms]

\* A judge_cache entry: its key (base, tool), the judgement, and the commitment
\* digest in force when the judge was asked (a history field).
Outcomes == {"consistent", "deny", "clarify"}
CacheEntry == [base : Digest, tool : Tools, outcome : Outcomes, digest : Digest]

\* class Session, its commitment folded in.  Two history fields: the meters that had
\* a ceiling when the session was opened, and the terms S2 last accepted.
Session == [live : BOOLEAN, goal : Goals, plan : Plans \cup {Null}, terms : Terms,
            digest : Digest, calls_made : Int, consumed : [Meters -> Int],
            judge_cache : SUBSET CacheEntry, pending_costs : SUBSET Nat,
            capped : SUBSET Meters, agreed : Terms]

\* The local variables of a handler that outlive one of its steps.
Local == [sid : Sids \cup {Null}, obj : Objs \cup {Null}, tool : Tools \cup {Null},
          high : BOOLEAN, base : Digest \cup {Null}, digest : Digest \cup {Null},
          outcome : Outcomes, jtok : Nat, load : Int, meter : Meters \cup {Null},
          todo : SUBSET Meters, bill : [Meters -> Int], ref : Nat, reported : Report,
          am : Amendments \cup {Null}]

Verdicts == {"served", "denied", "clarify"}
Entry == [kind : {"session_init", "call", "amendment", "result"},
          sid : Sids \cup {Null}, obj : Objs \cup {Null}, verdict : Verdicts,
          digest : Digest \cup {Null}, tool : Tools \cup {Null}, jtok : Nat,
          ref : Nat, reported : Report]

PCs == {"idle", "record_open",
        "scope", "budget", "policy", "judge", "judging", "judged",
        "load_calls", "store_calls", "load_meter", "store_meter", "record_served",
        "forward", "reconcile", "load_delta", "store_delta", "record_result",
        "widen_scope", "raise_budget", "amend_judge", "record_amend"}

VARIABLES
  sessions,   \* VerificationEngine.sessions: session id -> Session object
  heap,       \* the Session objects
  pc, loc,    \* per handler: next step, local variables
  audit,      \* the records of the audit log
  handled     \* requests begun so far

vars == <<sessions, heap, pc, loc, audit, handled>>

-----------------------------------------------------------------------------
(* Values *)

Nothing == [m \in Meters |-> None]

NoTerms == [tools_allow |-> {}, tools_deny |-> {}, limits |-> Nothing,
            max_calls |-> None, deadline |-> "none"]

Free == [live |-> FALSE, goal |-> "empty", plan |-> Null, terms |-> NoTerms,
         digest |-> [of |-> "empty", terms |-> {}],
         calls_made |-> 0, consumed |-> [m \in Meters |-> 0],
         judge_cache |-> {}, pending_costs |-> {}, capped |-> {},
         agreed |-> NoTerms]

NoLocal == [sid |-> Null, obj |-> Null, tool |-> Null, high |-> FALSE,
            base |-> Null, digest |-> Null, outcome |-> "consistent", jtok |-> 0,
            load |-> 0, meter |-> Null, todo |-> {}, bill |-> [m \in Meters |-> 0],
            ref |-> 0, reported |-> Nothing, am |-> Null]

\* An audit record.  obj is a history field: the Session the handler used.
Record(kind, sid, obj, verdict, digest) ==
  [kind |-> kind, sid |-> sid, obj |-> obj, verdict |-> verdict, digest |-> digest,
   tool |-> Null, jtok |-> 0, ref |-> 0, reported |-> Nothing]

\* The record _verdict writes for a call; its digest is read at that moment.
CallRecord(l, verdict) ==
  [Record("call", l.sid, l.obj, verdict, heap[l.obj].digest)
     EXCEPT !.tool = l.tool, !.jtok = l.jtok]

-----------------------------------------------------------------------------
(* Handlers *)

Idle(t) == pc[t] = "idle"

\* A handler takes the next request.  The event loop of the FastAPI server runs
\* one dispatch at a time; the threaded server starts a thread per request.
Accept(t) ==
  /\ Idle(t)
  /\ handled < MaxRequests
  /\ Serial => \A u \in Threads : Idle(u)
  /\ handled' = handled + 1

At(t, here) == pc[t] = here /\ handled' = handled
Goto(t, there) == pc' = [pc EXCEPT ![t] = there]
Step(t, here, there) == At(t, here) /\ Goto(t, there)
Pass(t, here, there) == Step(t, here, there) /\ UNCHANGED <<sessions, heap, loc, audit>>

\* The handler logs its verdict and answers; what it held is garbage.
Answer(t, record) ==
  /\ audit' = Append(audit, record)
  /\ loc' = [loc EXCEPT ![t] = NoLocal]
  /\ Goto(t, "idle")
  /\ UNCHANGED <<sessions, heap>>

Deny(t, here) == At(t, here) /\ Answer(t, CallRecord(loc[t], "denied"))

\* A request bound to the Session its id names now.
Bind(t, sid, there, request) ==
  /\ Accept(t)
  /\ sessions[sid] # Null
  /\ loc' = [loc EXCEPT ![t] = [request EXCEPT !.sid = sid, !.obj = sessions[sid]]]
  /\ Goto(t, there)
  /\ UNCHANGED <<sessions, heap, audit>>

\* A message that does not parse is denied; an amendment leaves no record of it.
RejectMalformed(t, sid, kind) ==
  /\ Accept(t)
  /\ audit' = IF kind = "amendment" THEN audit
              ELSE Append(audit, Record(kind, sid, Null, "denied", Null))
  /\ UNCHANGED <<sessions, heap, pc, loc>>

\* A call or an amendment under an id that has no Session.
RejectUnbound(t, sid, kind) ==
  /\ Accept(t)
  /\ sessions[sid] = Null
  /\ Answer(t, Record(kind, sid, Null, "denied", Null))

-----------------------------------------------------------------------------
(* Session start: open_session *)

\* Ceilings the commitment leaves out come from the operator's configuration.
WithDefaults(terms) ==
  [terms EXCEPT
     !.max_calls = IF @ = None THEN DefaultMaxCalls ELSE @,
     !.limits = [m \in Meters |-> IF @[m] = None THEN DefaultLimits[m] ELSE @[m]]]

OpenDigest(c) == [of |-> IF c.plan # Null THEN c.plan ELSE c.goal, terms |-> {}]

\* Mutant: the Session's digest is taken anew once the defaults are in.
SessionDigestRehashed(c) == [of |-> c.goal, terms |-> {WithDefaults(c.terms)}]

\* The digest the Session keeps: the one computed before the checks.
SessionDigest(c) == OpenDigest(c)

NewSession(c) ==
  LET terms == WithDefaults(c.terms)
  IN  [Free EXCEPT !.live = TRUE, !.goal = c.goal, !.plan = c.plan,
                   !.terms = terms, !.digest = SessionDigest(c),
                   !.capped = {m \in Meters : terms.limits[m] # None},
                   !.agreed = terms]

\* _judge_scope, the S2 check of a goal against a scope.
ScopeConsistent(goal, terms) ==
  /\ goal # "empty"
  /\ (\E p \in terms.tools_allow : DeleteTool \in Covers[p]) => goal = "deletion"

\* S2 passes, and the Session is put into the table.  An id that is in use gets the
\* new Session in place of its old one.  S1 cannot fail here: a principal without an
\* agent id is refused as malformed before it is reached.
OpenSession(t, sid, c) ==
  /\ Accept(t)
  /\ ScopeConsistent(c.goal, c.terms)
  /\ \E o \in Objs :
       /\ ~heap[o].live
       /\ heap' = [heap EXCEPT ![o] = NewSession(c)]
       /\ sessions' = [sessions EXCEPT ![sid] = o]
       /\ loc' = [loc EXCEPT ![t] = [NoLocal EXCEPT !.sid = sid, !.obj = o,
                                                    !.digest = OpenDigest(c)]]
  /\ Goto(t, "record_open")
  /\ UNCHANGED audit

\* The record carries the digest computed before the Session went into the table.
RecordOpen(t) ==
  /\ At(t, "record_open")
  /\ Answer(t, Record("session_init", loc[t].sid, loc[t].obj, "served", loc[t].digest))

\* S2 sends the commitment back for clarification.
RefuseSession(t, sid, c) ==
  /\ Accept(t)
  /\ ~ScopeConsistent(c.goal, c.terms)
  /\ Answer(t, Record("session_init", sid, Null, "clarify", OpenDigest(c)))

-----------------------------------------------------------------------------
(* A call: verify_call, then forwarding and billing in dispatch *)

\* _check_scope: deny globs first.
InScope(terms, tool) ==
  /\ \A p \in terms.tools_deny : tool \notin Covers[p]
  /\ \E p \in terms.tools_allow : tool \in Covers[p]

Amount(n) == IF n = None THEN 0 ELSE n

\* Mutant: judge tokens are left out.
CostWithoutJudge(tool, jtok) == [m \in Meters |-> Amount(Estimate[tool][m])]

\* _call_cost, with the judge tokens of this call added.
Cost(tool, jtok) ==
  [m \in Meters |-> Amount(Estimate[tool][m]) + (IF m = TokensMeter THEN jtok ELSE 0)]

\* The meters in that cost.
Billed(tool, jtok) ==
  {m \in Meters : Estimate[tool][m] # None \/ (m = TokensMeter /\ jtok # 0)}

\* Mutant: off by one.
CallsLeftInclusive(s) == s.terms.max_calls = None \/ s.calls_made <= s.terms.max_calls

CallsLeft(s) == s.terms.max_calls = None \/ s.calls_made + 1 <= s.terms.max_calls

\* Mutant: what was spent is compared with the ceiling, not what the call would make it.
FitsSoFar(s, m, amount) == s.terms.limits[m] = None \/ s.consumed[m] <= s.terms.limits[m]

Fits(s, m, amount) ==
  s.terms.limits[m] = None \/ s.consumed[m] + amount <= s.terms.limits[m]

\* _check_budget
WithinBudget(s, cost) ==
  /\ CallsLeft(s)
  /\ s.terms.deadline # "past"
  /\ \A m \in Meters : Fits(s, m, cost[m])

\* C1
BindCall(t, sid, tool, high) ==
  Bind(t, sid, "scope", [NoLocal EXCEPT !.tool = tool, !.high = high])

\* C2
CheckScope(t) ==
  LET ok == InScope(heap[loc[t].obj].terms, loc[t].tool)
  IN  \/ Pass(t, "scope", "budget") /\ ok
      \/ Deny(t, "scope") /\ ~ok

\* C3, before the judge
CheckBudget(t) ==
  LET ok == WithinBudget(heap[loc[t].obj], Cost(loc[t].tool, 0))
  IN  \/ Pass(t, "budget", "policy") /\ ok
      \/ Deny(t, "budget") /\ ~ok

\* C4 and the risk score: the operator's rules may deny; a high sensitivity
\* always fires the judge, any other call does if the score says so.
ApplyPolicy(t) ==
  \/ Deny(t, "policy")
  \/ Pass(t, "policy", "judge")
  \/ ~loc[t].high /\ Pass(t, "policy", "load_calls")

CacheBase(s) == IF s.plan # Null THEN [of |-> s.plan, terms |-> {}] ELSE s.digest

\* C5: a cached judgement costs no tokens; without one the judge is asked.
LookUpJudgement(t) ==
  LET s == heap[loc[t].obj]
      hits == {e \in s.judge_cache : e.base = CacheBase(s) /\ e.tool = loc[t].tool}
  IN  /\ \/ /\ Step(t, "judge", "judged")
            /\ \E e \in hits : loc' = [loc EXCEPT ![t].outcome = e.outcome]
         \/ /\ Step(t, "judge", "judging")
            /\ hits = {}
            /\ loc' = [loc EXCEPT ![t].base = CacheBase(s), ![t].digest = s.digest]
      /\ UNCHANGED <<sessions, heap, audit>>

\* Mutant: the judge is asked again, with no bound on the attempts.
JudgeRetries(t, outcome, tokens) == Pass(t, "judging", "judge")

\* The judge answers, or fails and its fallback stands for an answer (clarify, or
\* consistent when it fails open, at no tokens).  Either is cached under the key
\* computed before the call, replacing what another handler cached meanwhile.
JudgeReturns(t, outcome, tokens) ==
  LET l == loc[t]
      entry == [base |-> l.base, tool |-> l.tool, outcome |-> outcome,
                digest |-> l.digest]
  IN  /\ Step(t, "judging", "judged")
      /\ heap' = [heap EXCEPT ![l.obj].judge_cache =
                    {e \in @ : e.base # l.base \/ e.tool # l.tool} \cup {entry}]
      /\ loc' = [loc EXCEPT ![t].outcome = outcome, ![t].jtok = tokens]
      /\ UNCHANGED <<sessions, audit>>

VerdictOn(outcome) ==
  CASE outcome = "consistent" -> "served"
    [] outcome = "deny" -> "denied"
    [] outcome = "clarify" -> "clarify"

\* Mutant: the tokens just spent are not checked.
AffordableAnyway(l) == TRUE

\* The tokens just spent are checked against the budget ...
Affordable(l) == l.jtok = 0 \/ WithinBudget(heap[l.obj], Cost(l.tool, l.jtok))

\* ... and then the judgement counts.
WeighJudgement(t) ==
  LET l == loc[t]
      affordable == Affordable(l)
  IN  \/ Deny(t, "judged") /\ ~affordable
      \/ /\ At(t, "judged")
         /\ affordable /\ l.outcome # "consistent"
         /\ Answer(t, CallRecord(l, VerdictOn(l.outcome)))
      \/ /\ Pass(t, "judged", "load_calls")
         /\ affordable /\ l.outcome = "consistent"

\* calls_made += 1 reads and then writes; threads may switch in between.
LoadCalls(t) ==
  /\ Step(t, "load_calls", "store_calls")
  /\ loc' = [loc EXCEPT ![t].load = heap[loc[t].obj].calls_made]
  /\ UNCHANGED <<sessions, heap, audit>>

\* Mutant: the session is looked up again by its id when the count is written.
ChargedById(t) == sessions[loc[t].sid]

\* A call is charged to the Session it was bound to, whatever its id names by now.
ChargedTo(t) == loc[t].obj

StoreCalls(t) ==
  LET cost == Cost(loc[t].tool, loc[t].jtok)
  IN  /\ Step(t, "store_calls", "load_meter")
      /\ heap' = [heap EXCEPT ![ChargedTo(t)].calls_made = loc[t].load + 1]
      /\ loc' = [loc EXCEPT ![t].bill = cost,
                            ![t].todo = Billed(loc[t].tool, loc[t].jtok)]
      /\ UNCHANGED <<sessions, audit>>

\* A meter is billed likewise, here and in reconcile_cost.
LoadMeter(t, here, there) ==
  /\ Step(t, here, there)
  /\ \E m \in loc[t].todo :
       loc' = [loc EXCEPT ![t].meter = m, ![t].todo = @ \ {m},
                          ![t].load = heap[loc[t].obj].consumed[m]]
  /\ UNCHANGED <<sessions, heap, audit>>

StoreMeter(t, here, there) ==
  LET l == loc[t]
  IN  /\ Step(t, here, there)
      /\ heap' = [heap EXCEPT ![l.obj].consumed[l.meter] = l.load + l.bill[l.meter]]
      /\ UNCHANGED <<sessions, loc, audit>>

BillCall(t) ==
  \/ LoadMeter(t, "load_meter", "store_meter")
  \/ StoreMeter(t, "store_meter", "load_meter")
  \/ loc[t].todo = {} /\ Pass(t, "load_meter", "record_served")

\* The served verdict is logged, and the estimate kept for reconcile_cost.
RecordServed(t) ==
  LET ref == Len(audit) + 1
  IN  /\ Step(t, "record_served", "forward")
      /\ audit' = Append(audit, CallRecord(loc[t], "served"))
      /\ heap' = [heap EXCEPT ![loc[t].obj].pending_costs = @ \cup {ref}]
      /\ loc' = [loc EXCEPT ![t].ref = ref]
      /\ UNCHANGED sessions

\* Upstream answers with an error, or not in time, which ends the handler ...
UpstreamFails(t) ==
  /\ Step(t, "forward", "idle")
  /\ loc' = [loc EXCEPT ![t] = NoLocal]
  /\ UNCHANGED <<sessions, heap, audit>>

\* ... or with a result that has no cost map, or that reports costs.
UpstreamReturns(t) == Pass(t, "forward", "record_result")

UpstreamReports(t) ==
  /\ Step(t, "forward", "reconcile")
  /\ \E report \in Reports[loc[t].tool] : loc' = [loc EXCEPT ![t].reported = report]
  /\ UNCHANGED <<sessions, heap, audit>>

\* reconcile_cost looks the session up again by its id: a Session opened since
\* under that id is billed, and has no estimate for this call.
ReconcileCost(t) ==
  LET l == loc[t]
      o == sessions[l.sid]
      Prior(m) == IF l.ref \in heap[o].pending_costs THEN Amount(Estimate[l.tool][m])
                  ELSE 0
  IN  /\ Step(t, "reconcile", "load_delta")
      /\ heap' = [heap EXCEPT ![o].pending_costs = @ \ {l.ref}]
      /\ loc' = [loc EXCEPT ![t].obj = o,
                            ![t].todo = {m \in Meters : l.reported[m] # None},
                            ![t].bill = [m \in Meters |-> l.reported[m] - Prior(m)]]
      /\ UNCHANGED <<sessions, audit>>

BillDelta(t) ==
  \/ LoadMeter(t, "load_delta", "store_delta")
  \/ StoreMeter(t, "store_delta", "load_delta")
  \/ loc[t].todo = {} /\ Pass(t, "load_delta", "record_result")

\* Mutant: the result is referred to the newest record.
LatestRef(t) == Len(audit)

\* The record a result answers: the one its handler logged.
AnsweredRef(t) == loc[t].ref

RecordResult(t) ==
  /\ At(t, "record_result")
  /\ Answer(t, [Record("result", loc[t].sid, loc[t].obj, "served", Null)
                  EXCEPT !.ref = AnsweredRef(t), !.reported = loc[t].reported])

-----------------------------------------------------------------------------
(* Amendment: amend *)

RefuseUnsigned(t, sid, am) ==
  /\ Accept(t)
  /\ sessions[sid] # Null /\ ~am.signed
  /\ Answer(t, Record("amendment", sid, sessions[sid], "denied",
                      heap[sessions[sid]].digest))

BindAmendment(t, sid, am) ==
  am.signed /\ Bind(t, sid, "widen_scope", [NoLocal EXCEPT !.am = am])

Widened(terms, am) ==
  [terms EXCEPT !.tools_allow = @ \cup am.tools_allow,
                !.tools_deny = @ \cup am.tools_deny]

\* Mutant: absent amounts are added like any other.
RaisedLimitsUnchecked(limits, add) == [m \in Meters |-> limits[m] + add[m]]

\* A meter without a ceiling gets the added amount as its ceiling.
RaisedLimits(limits, add) ==
  [m \in Meters |-> IF add[m] = None THEN limits[m]
                    ELSE IF limits[m] = None THEN add[m] ELSE limits[m] + add[m]]

Raised(terms, am) ==
  [terms EXCEPT !.max_calls = IF @ = None THEN None ELSE @ + am.add_calls,
                !.deadline = IF am.extend_deadline = "keep" THEN @
                             ELSE am.extend_deadline,
                !.limits = RaisedLimits(@, am.add_limits)]

\* The commitment in force is changed in place, before S2 has seen the change.
WidenScope(t) ==
  /\ Step(t, "widen_scope", "raise_budget")
  /\ heap' = [heap EXCEPT ![loc[t].obj].terms = Widened(@, loc[t].am)]
  /\ UNCHANGED <<sessions, loc, audit>>

RaiseBudget(t) ==
  /\ Step(t, "raise_budget", "amend_judge")
  /\ heap' = [heap EXCEPT ![loc[t].obj].terms = Raised(@, loc[t].am)]
  /\ UNCHANGED <<sessions, loc, audit>>

AmendDigest(s) == [of |-> s.goal, terms |-> {s.terms}]

\* Mutant: the judgements made before the amendment stay cached.
CacheKept(s) == s.judge_cache

\* judge_cache.clear()
CacheAfterAmendment(s) == {}

Rebased(s) ==
  [s EXCEPT !.digest = AmendDigest(s), !.judge_cache = CacheAfterAmendment(s),
            !.agreed = s.terms]

\* S2 again.  Only an accepted amendment gives a new digest and an empty cache;
\* one sent back for clarification leaves the terms it has already changed.
JudgeAmendment(t) ==
  LET s == heap[loc[t].obj]
      ok == ScopeConsistent(s.goal, s.terms)
  IN  /\ Step(t, "amend_judge", "record_amend")
      /\ heap' = [heap EXCEPT ![loc[t].obj] = IF ok THEN Rebased(s) ELSE s]
      /\ loc' = [loc EXCEPT ![t].outcome = IF ok THEN "consistent" ELSE "clarify"]
      /\ UNCHANGED <<sessions, audit>>

RecordAmendment(t) ==
  /\ At(t, "record_amend")
  /\ Answer(t, Record("amendment", loc[t].sid, loc[t].obj, VerdictOn(loc[t].outcome),
                      heap[loc[t].obj].digest))

-----------------------------------------------------------------------------
(* The specification *)

\* The deadline of a commitment passes by itself.
DeadlinePasses(o) ==
  /\ heap[o].live /\ heap[o].terms.deadline = "ahead"
  /\ heap' = [heap EXCEPT ![o].terms.deadline = "past"]
  /\ UNCHANGED <<sessions, pc, loc, audit, handled>>

Init ==
  /\ sessions = [sid \in Sids |-> Null]
  /\ heap = [o \in Objs |-> Free]
  /\ pc = [t \in Threads |-> "idle"]
  /\ loc = [t \in Threads |-> NoLocal]
  /\ audit = <<>>
  /\ handled = 0

Begin(t, sid) ==
  \/ \E kind \in {"session_init", "call", "amendment"} : RejectMalformed(t, sid, kind)
  \/ \E kind \in {"call", "amendment"} : RejectUnbound(t, sid, kind)
  \/ \E c \in Commitments : OpenSession(t, sid, c) \/ RefuseSession(t, sid, c)
  \/ \E tool \in Tools, high \in BOOLEAN : BindCall(t, sid, tool, high)
  \/ \E am \in Amendments : RefuseUnsigned(t, sid, am) \/ BindAmendment(t, sid, am)

Call(t) ==
  \/ CheckScope(t) \/ CheckBudget(t) \/ ApplyPolicy(t) \/ LookUpJudgement(t)
  \/ \E outcome \in Outcomes, tokens \in JudgeTokens : JudgeReturns(t, outcome, tokens)
  \/ WeighJudgement(t) \/ LoadCalls(t) \/ StoreCalls(t) \/ BillCall(t)
  \/ RecordServed(t) \/ UpstreamFails(t) \/ UpstreamReturns(t) \/ UpstreamReports(t)
  \/ ReconcileCost(t) \/ BillDelta(t) \/ RecordResult(t)

Amend(t) == WidenScope(t) \/ RaiseBudget(t) \/ JudgeAmendment(t) \/ RecordAmendment(t)

\* What a handler does once it has its request.
Handle(t) == RecordOpen(t) \/ Call(t) \/ Amend(t)

Next ==
  \/ \E t \in Threads : Handle(t) \/ \E sid \in Sids : Begin(t, sid)
  \/ \E o \in Objs : DeadlinePasses(o)

\* A handler that has a request keeps running: the calls to the judge and upstream
\* have timeouts, and nothing else in it blocks.
Fairness == \A t \in Threads : WF_vars(Handle(t))

Spec == Init /\ [][Next]_vars /\ Fairness

=============================================================================
