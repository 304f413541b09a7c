--------------------------- MODULE VapEngineProofs ---------------------------
(***************************************************************************)
(* Proofs about VapEngine, for every value of its constants: types and the *)
(* bindings of handlers; of the serial deployment, that no Session counts  *)
(* more calls than it may, that cached judgements are fresh, and that      *)
(* served calls are logged under a digest that was announced; and, without *)
(* assuming Serial, that each result in the log answers one served call    *)
(* and that lost updates never charge a Session for a call it has not      *)
(* served.                                                                 *)
(***************************************************************************)
EXTENDS VapEngineProperties, FiniteSetTheorems, SequenceTheorems, TLAPS

CallSteps == {"scope", "budget", "policy", "judge", "judging", "judged",
              "load_calls", "store_calls", "load_meter", "store_meter",
              "record_served", "forward", "reconcile", "load_delta", "store_delta",
              "record_result"}

\* What a handler that is about to take step p holds in its local variables l.
Holds(p, l) ==
  /\ p # "idle" => l.sid \in Sids /\ l.obj \in Objs
  /\ p \in CallSteps => l.tool \in Tools
  /\ p = "judging" => l.base \in Digest /\ l.digest \in Digest
  /\ p \in {"store_meter", "store_delta"} => l.meter \in Meters
  /\ p \in {"widen_scope", "raise_budget"} => l.am \in Amendments

\* A busy handler holds what its next step needs, and its id names a Session.
Bound == \A t \in Threads :
           /\ Holds(pc[t], loc[t])
           /\ pc[t] # "idle" => sessions[loc[t].sid] \in Objs

TypeInv == TypeOK /\ Bound

-----------------------------------------------------------------------------
(* Types of the values the actions build *)

\* A report that mentions no meter is a report.
LEMMA NothingType == Nothing \in Report
  BY DEF Nothing, Report, Optional, None

\* An object of the pool that open_session has not used yet is a Session.
LEMMA FreeType == Free \in Session
  BY ToolAssumption
  DEF Free, NoTerms, Nothing, None, Session, Terms, Optional, Digest, CacheEntry

\* The locals of an idle handler are well typed.
LEMMA NoLocalType == NoLocal \in Local
  BY NothingType DEF NoLocal, Local, Outcomes

\* Every record the handlers build from typed parts is an audit entry.
LEMMA RecordType ==
  ASSUME NEW kind \in {"session_init", "call", "amendment", "result"},
         NEW sid \in Sids \cup {Null}, NEW obj \in Objs \cup {Null},
         NEW verdict \in Verdicts, NEW digest \in Digest \cup {Null}
  PROVE  Record(kind, sid, obj, verdict, digest) \in Entry
  BY NothingType DEF Record, Entry

\* So is the record _verdict writes for a call.
LEMMA CallRecordType ==
  ASSUME TypeOK, NEW l \in Local, l.obj \in Objs, NEW verdict \in Verdicts
  PROVE  CallRecord(l, verdict) \in Entry
<1>1. heap[l.obj].digest \in Digest
  BY DEF TypeOK, Session
<1>2. Record("call", l.sid, l.obj, verdict, heap[l.obj].digest) \in Entry
  BY <1>1, RecordType DEF Local
<1>3. QED
  BY <1>2 DEF CallRecord, Entry, Local

\* open_session builds a well-typed Session that has counted no call.
LEMMA NewSessionType ==
  ASSUME NEW c \in Commitments
  PROVE  /\ NewSession(c) \in Session
         /\ OpenDigest(c) \in Digest
         /\ NewSession(c).calls_made = 0
         /\ NewSession(c).terms \in Terms
<1>1. c \in Commitment
  BY MessageAssumption
<1>2. OpenDigest(c) \in Digest
  BY <1>1 DEF OpenDigest, Digest, Commitment
<1>3. WithDefaults(c.terms) \in Terms
  BY <1>1, MessageAssumption DEF WithDefaults, Commitment, Terms
<1>4. QED
  BY <1>1, <1>2, <1>3, FreeType DEF NewSession, SessionDigest, Session, Commitment, Free

\* Sessions keep their type under the assignments the handlers make.
LEMMA SessionFields ==
  ASSUME NEW s \in Session
  PROVE  /\ \A n \in Int : [s EXCEPT !.calls_made = n] \in Session
         /\ \A p \in SUBSET Nat : [s EXCEPT !.pending_costs = p] \in Session
         /\ \A x \in Terms : [s EXCEPT !.terms = x] \in Session
  BY DEF Session

\* What an amendment makes of the terms: still terms, and no ceiling that was there
\* is lowered.
LEMMA AmendedTerms ==
  ASSUME NEW terms \in Terms, NEW am \in Amendments
  PROVE  /\ Widened(terms, am) \in Terms
         /\ Widened(terms, am).max_calls = terms.max_calls
         /\ Widened(terms, am).limits = terms.limits
         /\ Raised(terms, am) \in Terms
         /\ IF terms.max_calls = None THEN Raised(terms, am).max_calls = None
            ELSE Raised(terms, am).max_calls >= terms.max_calls
         /\ \A m \in Meters : terms.limits[m] # None =>
              /\ Raised(terms, am).limits[m] # None
              /\ Raised(terms, am).limits[m] >= terms.limits[m]
<1>1. am \in Amendment
  BY MessageAssumption
<1>2. Widened(terms, am) \in Terms /\ Widened(terms, am).max_calls = terms.max_calls
        /\ Widened(terms, am).limits = terms.limits
  BY <1>1 DEF Widened, Terms, Amendment
<1>3. RaisedLimits(terms.limits, am.add_limits) \in [Meters -> Optional]
  BY <1>1 DEF RaisedLimits, Terms, Amendment, Optional, None
<1>4. (IF terms.max_calls = None THEN None ELSE terms.max_calls + am.add_calls)
        \in Optional
  BY <1>1 DEF Terms, Amendment, Optional, None
<1>5. (IF am.extend_deadline = "keep" THEN terms.deadline ELSE am.extend_deadline)
        \in {"none", "ahead", "past"}
  BY <1>1 DEF Terms, Amendment
<1>6. Raised(terms, am) \in Terms
  BY <1>3, <1>4, <1>5 DEF Raised, Terms
<1>7. IF terms.max_calls = None THEN Raised(terms, am).max_calls = None
      ELSE Raised(terms, am).max_calls >= terms.max_calls
  BY <1>1 DEF Raised, Terms, Amendment, Optional, None
<1>8. ASSUME NEW m \in Meters, terms.limits[m] # None
      PROVE  /\ Raised(terms, am).limits[m] # None
             /\ Raised(terms, am).limits[m] >= terms.limits[m]
  <2>1. Raised(terms, am).limits = RaisedLimits(terms.limits, am.add_limits)
    BY DEF Raised, Terms
  <2>2. terms.limits[m] \in Nat /\ am.add_limits[m] \in Optional
    BY <1>1, <1>8 DEF Terms, Amendment, Optional
  <2>3. QED
    BY <1>8, <2>1, <2>2 DEF RaisedLimits, Optional, None
<1>9. QED
  BY <1>2, <1>6, <1>7, <1>8

-----------------------------------------------------------------------------
(* Type correctness *)

\* A step of t that leaves sessions alone keeps TypeInv if what it writes has the
\* right type and t holds what its next step needs.
LEMMA StepKeepsTypes ==
  ASSUME TypeInv, NEW t \in Threads, NEW there \in PCs, NEW l \in Local,
         Goto(t, there), loc' = [loc EXCEPT ![t] = l], sessions' = sessions,
         heap' \in [Objs -> Session], audit' \in Seq(Entry), handled' \in Nat,
         Holds(there, l), there # "idle" => sessions[l.sid] \in Objs
  PROVE  TypeInv'
<1>1. TypeOK'
  BY DEF TypeInv, TypeOK, Goto
<1>2. ASSUME NEW u \in Threads
      PROVE  /\ Holds(pc'[u], loc'[u])
             /\ pc'[u] # "idle" => sessions'[loc'[u].sid] \in Objs
  <2>1. CASE u = t
    BY <2>1 DEF TypeInv, TypeOK, Goto
  <2>2. CASE u # t
    <3>1. pc'[u] = pc[u] /\ loc'[u] = loc[u]
      BY <2>2 DEF TypeInv, TypeOK, Goto
    <3>2. QED
      BY <3>1 DEF TypeInv, Bound
  <2>3. QED
    BY <2>1, <2>2
<1>3. QED
  BY <1>1, <1>2 DEF TypeInv, Bound

\* In particular a step that only moves on, or answers.
LEMMA PassKeepsTypes ==
  ASSUME TypeInv, NEW t \in Threads, NEW here \in PCs, NEW there \in PCs,
         Pass(t, here, there), Holds(there, loc[t]), here # "idle"
  PROVE  TypeInv'
<1>1. loc[t] \in Local /\ loc' = [loc EXCEPT ![t] = loc[t]]
  BY DEF TypeInv, TypeOK, Pass
<1>2. sessions[loc[t].sid] \in Objs
  BY DEF TypeInv, Bound, Pass, Step, At
<1>3. QED
  BY <1>1, <1>2, StepKeepsTypes DEF TypeInv, TypeOK, Pass, Step, At

\* A handler that logs a well-typed record and ends keeps the types.
LEMMA AnswerKeepsTypes ==
  ASSUME TypeInv, NEW t \in Threads, NEW record \in Entry, Answer(t, record),
         handled' \in Nat
  PROVE  TypeInv'
<1>1. audit' \in Seq(Entry)
  BY DEF TypeInv, TypeOK, Answer
<1>2. Holds("idle", NoLocal)
  BY DEF Holds, CallSteps
<1>3. QED
  BY <1>1, <1>2, NoLocalType, StepKeepsTypes DEF TypeInv, TypeOK, Answer, PCs

\* So does one that denies its call.
LEMMA DenyKeepsTypes ==
  ASSUME TypeInv, NEW t \in Threads, NEW here \in CallSteps, Deny(t, here)
  PROVE  TypeInv'
<1>1. loc[t] \in Local /\ loc[t].obj \in Objs
  BY DEF TypeInv, TypeOK, Bound, Holds, Deny, At, CallSteps
<1>2. CallRecord(loc[t], "denied") \in Entry
  BY <1>1, CallRecordType DEF TypeInv, Verdicts
<1>3. QED
  BY <1>2, AnswerKeepsTypes DEF Deny, At, TypeInv, TypeOK

\* Taking a request: each way to begin.
LEMMA BeginKeepsTypes ==
  ASSUME TypeInv, NEW t \in Threads, NEW sid \in Sids, Begin(t, sid)
  PROVE  TypeInv'
<1>. USE DEF TypeInv
<1>1. ASSUME NEW kind \in {"session_init", "call", "amendment"},
             RejectMalformed(t, sid, kind)
      PROVE  TypeInv'
  <2>1. Record(kind, sid, Null, "denied", Null) \in Entry
    BY RecordType DEF Verdicts
  <2>2. audit' \in Seq(Entry)
    BY <1>1, <2>1 DEF RejectMalformed, TypeOK
  <2>3. QED
    BY <1>1, <2>2 DEF RejectMalformed, Accept, TypeOK, Bound
<1>2. ASSUME NEW kind \in {"call", "amendment"}, RejectUnbound(t, sid, kind)
      PROVE  TypeInv'
  <2>1. Record(kind, sid, Null, "denied", Null) \in Entry
    BY RecordType DEF Verdicts
  <2>2. QED
    BY <1>2, <2>1, AnswerKeepsTypes DEF RejectUnbound, Accept, TypeOK
<1>3. ASSUME NEW c \in Commitments, OpenSession(t, sid, c)
      PROVE  TypeInv'
  <2>1. PICK o \in Objs :
          /\ heap' = [heap EXCEPT ![o] = NewSession(c)]
          /\ sessions' = [sessions EXCEPT ![sid] = o]
          /\ loc' = [loc EXCEPT ![t] = [NoLocal EXCEPT !.sid = sid, !.obj = o,
                                                       !.digest = OpenDigest(c)]]
    BY <1>3 DEF OpenSession
  <2>. DEFINE l == [NoLocal EXCEPT !.sid = sid, !.obj = o, !.digest = OpenDigest(c)]
  <2>2. l \in Local /\ l.sid = sid /\ l.obj = o
    BY NoLocalType, NewSessionType DEF Local, NoLocal
  <2>3. TypeOK'
    BY <1>3, <2>1, <2>2, NewSessionType DEF OpenSession, Accept, Goto, TypeOK, PCs
  <2>4. ASSUME NEW u \in Threads
        PROVE  /\ Holds(pc'[u], loc'[u])
               /\ pc'[u] # "idle" => sessions'[loc'[u].sid] \in Objs
    <3>1. CASE u = t
      BY <1>3, <2>1, <2>2, <3>1 DEF OpenSession, Goto, TypeOK, Holds, CallSteps
    <3>2. CASE u # t
      <4>1. pc'[u] = pc[u] /\ loc'[u] = loc[u]
        BY <1>3, <2>1, <3>2 DEF OpenSession, Goto, TypeOK
      <4>2. Holds(pc[u], loc[u]) /\ (pc[u] # "idle" => sessions[loc[u].sid] \in Objs)
        BY DEF Bound
      <4>3. pc[u] # "idle" => loc[u].sid \in Sids
        BY <4>2 DEF Holds
      <4>4. QED
        BY <2>1, <4>1, <4>2, <4>3 DEF TypeOK
    <3>3. QED
      BY <3>1, <3>2
  <2>5. QED
    BY <2>3, <2>4 DEF Bound
<1>4. ASSUME NEW c \in Commitments, RefuseSession(t, sid, c)
      PROVE  TypeInv'
  <2>1. Record("session_init", sid, Null, "clarify", OpenDigest(c)) \in Entry
    BY RecordType, NewSessionType DEF Verdicts
  <2>2. QED
    BY <1>4, <2>1, AnswerKeepsTypes DEF RefuseSession, Accept, TypeOK
<1>5. ASSUME NEW l \in Local, NEW there \in {"scope", "widen_scope"},
             Bind(t, sid, there, l),
             there = "scope" => l.tool \in Tools,
             there = "widen_scope" => l.am \in Amendments
      PROVE  TypeInv'
  <2>. DEFINE k == [l EXCEPT !.sid = sid, !.obj = sessions[sid]]
  <2>1. sessions[sid] \in Objs
    BY <1>5 DEF Bind, TypeOK
  <2>2. k \in Local /\ k.sid = sid /\ k.obj = sessions[sid] /\ k.tool = l.tool
          /\ k.am = l.am
    BY <2>1 DEF Local
  <2>3. Holds(there, k)
    BY <1>5, <2>1, <2>2 DEF Holds, CallSteps
  <2>4. there \in PCs
    BY DEF PCs
  <2>. HIDE DEF k
  <2>5. loc' = [loc EXCEPT ![t] = k]
    BY <1>5 DEF Bind, k
  <2>6. /\ Goto(t, there) /\ sessions' = sessions
        /\ heap' \in [Objs -> Session] /\ audit' \in Seq(Entry) /\ handled' \in Nat
    BY <1>5 DEF Bind, Accept, TypeOK
  <2>7. k.sid = sid /\ sessions[k.sid] \in Objs
    BY <2>1, <2>2
  <2>8. QED
    BY <2>2, <2>3, <2>4, <2>5, <2>6, <2>7, StepKeepsTypes
<1>6. ASSUME NEW tool \in Tools, NEW high \in BOOLEAN, BindCall(t, sid, tool, high)
      PROVE  TypeInv'
  <2>1. [NoLocal EXCEPT !.tool = tool, !.high = high] \in Local
    BY NoLocalType DEF Local, NoLocal
  <2>2. [NoLocal EXCEPT !.tool = tool, !.high = high].tool = tool
    BY DEF NoLocal
  <2>3. QED
    BY <1>5, <1>6, <2>1, <2>2 DEF BindCall
<1>7. ASSUME NEW am \in Amendments, RefuseUnsigned(t, sid, am)
      PROVE  TypeInv'
  <2>1. sessions[sid] \in Objs /\ heap[sessions[sid]].digest \in Digest
    BY <1>7 DEF RefuseUnsigned, TypeOK, Session
  <2>2. Record("amendment", sid, sessions[sid], "denied",
               heap[sessions[sid]].digest) \in Entry
    BY <2>1, RecordType DEF Verdicts
  <2>3. QED
    BY <1>7, <2>2, AnswerKeepsTypes DEF RefuseUnsigned, Accept, TypeOK
<1>8. ASSUME NEW am \in Amendments, BindAmendment(t, sid, am)
      PROVE  TypeInv'
  <2>1. [NoLocal EXCEPT !.am = am] \in Local
    BY NoLocalType DEF Local, NoLocal
  <2>2. [NoLocal EXCEPT !.am = am].am = am
    BY DEF NoLocal
  <2>3. QED
    BY <1>5, <1>8, <2>1, <2>2 DEF BindAmendment
<1>9. QED
  BY <1>1, <1>2, <1>3, <1>4, <1>6, <1>7, <1>8 DEF Begin

\* A busy handler's step that writes its locals, a Session or the log.
LEMMA WriteKeepsTypes ==
  ASSUME TypeInv, NEW t \in Threads, NEW here \in PCs, NEW there \in PCs,
         NEW l \in Local, here # "idle", Step(t, here, there),
         loc' = [loc EXCEPT ![t] = l], l.sid = loc[t].sid, Holds(there, l),
         sessions' = sessions, heap' \in [Objs -> Session], audit' \in Seq(Entry)
  PROVE  TypeInv'
<1>1. sessions[l.sid] \in Objs
  BY DEF TypeInv, Bound, Step, At
<1>2. QED
  BY <1>1, StepKeepsTypes DEF Step, At, TypeInv, TypeOK

\* The steps of a call up to the verdict.
LEMMA CheckKeepsTypes ==
  ASSUME TypeInv, NEW t \in Threads,
         \/ CheckScope(t) \/ CheckBudget(t) \/ ApplyPolicy(t) \/ LookUpJudgement(t)
         \/ \E outcome \in Outcomes, tokens \in JudgeTokens :
              JudgeReturns(t, outcome, tokens)
         \/ WeighJudgement(t)
  PROVE  TypeInv'
<1>. DEFINE l == loc[t]
<1>. USE DEF CallSteps
<1>1. l \in Local /\ Holds(pc[t], l)
  BY DEF TypeInv, TypeOK, Bound
<1>2. pc[t] \in CallSteps => l.obj \in Objs /\ l.tool \in Tools /\ heap[l.obj] \in Session
  BY <1>1 DEF Holds, TypeInv, TypeOK
<1>3. ASSUME NEW here \in CallSteps,
             NEW there \in {"budget", "policy", "judge", "load_calls"},
             Pass(t, here, there)
      PROVE  TypeInv'
  <2>1. Holds(there, l) /\ here \in PCs /\ there \in PCs
    BY <1>1, <1>3 DEF Pass, Step, At, Holds, PCs
  <2>2. QED
    BY <1>3, <2>1, PassKeepsTypes
<1>4. CASE CheckScope(t)
  BY <1>3, <1>4, DenyKeepsTypes DEF CheckScope
<1>5. CASE CheckBudget(t)
  BY <1>3, <1>5, DenyKeepsTypes DEF CheckBudget
<1>6. CASE ApplyPolicy(t)
  BY <1>3, <1>6, DenyKeepsTypes DEF ApplyPolicy
<1>7. CASE LookUpJudgement(t)
  <2>. DEFINE s == heap[l.obj]
  <2>1. s \in Session /\ s.judge_cache \subseteq CacheEntry /\ CacheBase(s) \in Digest
          /\ s.digest \in Digest
    BY <1>2, <1>7 DEF LookUpJudgement, Step, At, Session, CacheBase, Digest
  <2>2. heap' \in [Objs -> Session] /\ audit' \in Seq(Entry) /\ sessions' = sessions
    BY <1>7 DEF LookUpJudgement, TypeInv, TypeOK
  <2>3. CASE Step(t, "judge", "judged")
    <3>1. PICK e \in CacheEntry : loc' = [loc EXCEPT ![t].outcome = e.outcome]
      BY <1>7, <2>1, <2>3 DEF LookUpJudgement, Step, At, Goto, TypeInv, TypeOK
    <3>. DEFINE k == [l EXCEPT !.outcome = e.outcome]
    <3>2. k \in Local /\ k.sid = l.sid /\ k.obj = l.obj /\ k.tool = l.tool
      BY <1>1, <3>1 DEF Local, CacheEntry
    <3>3. Holds("judged", k)
      BY <1>1, <2>3, <3>2 DEF Holds, Step, At
    <3>4. loc' = [loc EXCEPT ![t] = k]
      BY <3>1
    <3>. HIDE DEF k
    <3>5. QED
      BY <2>2, <2>3, <3>2, <3>3, <3>4, WriteKeepsTypes DEF PCs
  <2>4. CASE Step(t, "judge", "judging")
    <3>. DEFINE k == [l EXCEPT !.base = CacheBase(s), !.digest = s.digest]
    <3>1. loc' = [loc EXCEPT ![t] = k]
      BY <1>7, <2>4 DEF LookUpJudgement, Step, At, Goto, TypeInv, TypeOK
    <3>2. /\ k \in Local /\ k.sid = l.sid /\ k.obj = l.obj /\ k.tool = l.tool
          /\ k.base \in Digest /\ k.digest \in Digest
      BY <1>1, <2>1 DEF Local
    <3>3. Holds("judging", k)
      BY <1>1, <2>4, <3>2 DEF Holds, Step, At
    <3>. HIDE DEF k
    <3>4. QED
      BY <2>2, <2>4, <3>1, <3>2, <3>3, WriteKeepsTypes DEF PCs
  <2>5. QED
    BY <1>7, <2>3, <2>4 DEF LookUpJudgement
<1>8. ASSUME NEW outcome \in Outcomes, NEW tokens \in JudgeTokens,
             JudgeReturns(t, outcome, tokens)
      PROVE  TypeInv'
  <2>. DEFINE entry == [base |-> l.base, tool |-> l.tool, outcome |-> outcome,
                        digest |-> l.digest]
              k == [l EXCEPT !.outcome = outcome, !.jtok = tokens]
  <2>1. entry \in CacheEntry
    BY <1>1, <1>2, <1>8 DEF JudgeReturns, Step, At, Holds, CacheEntry
  <2>2. heap' \in [Objs -> Session]
    BY <1>2, <1>8, <2>1 DEF JudgeReturns, Step, At, TypeInv, TypeOK, Session
  <2>3. k \in Local /\ k.sid = l.sid /\ k.obj = l.obj /\ k.tool = l.tool
    BY <1>1, <1>8, ToolAssumption DEF Local
  <2>4. Holds("judged", k)
    BY <1>1, <1>8, <2>3 DEF Holds, JudgeReturns, Step, At
  <2>5. /\ loc' = [loc EXCEPT ![t] = k] /\ Step(t, "judging", "judged")
        /\ audit' \in Seq(Entry) /\ sessions' = sessions
    BY <1>8 DEF JudgeReturns, TypeInv, TypeOK
  <2>. HIDE DEF k
  <2>6. QED
    BY <2>2, <2>3, <2>4, <2>5, WriteKeepsTypes DEF PCs
<1>9. CASE WeighJudgement(t)
  <2>1. CASE At(t, "judged") /\ l.outcome # "consistent"
                /\ Answer(t, CallRecord(l, VerdictOn(l.outcome)))
    <3>1. VerdictOn(l.outcome) \in Verdicts
      BY <1>1, <2>1 DEF VerdictOn, Verdicts, Local, Outcomes
    <3>2. CallRecord(l, VerdictOn(l.outcome)) \in Entry
      BY <1>1, <1>2, <2>1, <3>1, CallRecordType DEF At, TypeInv
    <3>3. QED
      BY <2>1, <3>2, AnswerKeepsTypes DEF At, TypeInv, TypeOK
  <2>2. QED
    BY <1>3, <1>9, <2>1, DenyKeepsTypes DEF WeighJudgement
<1>10. QED
  BY <1>4, <1>5, <1>6, <1>7, <1>8, <1>9

\* The steps that bill a call, forward it and log its result.
LEMMA BillKeepsTypes ==
  ASSUME TypeInv, NEW t \in Threads,
         \/ LoadCalls(t) \/ StoreCalls(t) \/ BillCall(t) \/ RecordServed(t)
         \/ UpstreamFails(t) \/ UpstreamReturns(t) \/ UpstreamReports(t)
         \/ ReconcileCost(t) \/ BillDelta(t) \/ RecordResult(t)
  PROVE  TypeInv'
<1>. DEFINE l == loc[t]
<1>. USE DEF CallSteps
<1>1. l \in Local /\ Holds(pc[t], l)
  BY DEF TypeInv, TypeOK, Bound
<1>2. pc[t] \in CallSteps => /\ l.obj \in Objs /\ l.sid \in Sids /\ l.tool \in Tools
                             /\ heap[l.obj] \in Session /\ sessions[l.sid] \in Objs
  BY <1>1 DEF Holds, TypeInv, TypeOK, Bound
<1>3. ASSUME NEW here \in CallSteps,
             NEW there \in CallSteps \ {"judging", "store_meter", "store_delta"},
             NEW k \in Local, Step(t, here, there), loc' = [loc EXCEPT ![t] = k],
             k.sid = l.sid, k.obj \in Objs, k.tool = l.tool, sessions' = sessions,
             heap' \in [Objs -> Session], audit' \in Seq(Entry)
      PROVE  TypeInv'
  <2>1. Holds(there, k) /\ here \in PCs /\ there \in PCs
    BY <1>2, <1>3 DEF Step, At, Holds, PCs
  <2>2. QED
    BY <1>3, <2>1, WriteKeepsTypes
<1>4. ASSUME NEW here \in CallSteps,
             NEW there \in {"record_served", "record_result"}, Pass(t, here, there)
      PROVE  TypeInv'
  <2>1. Holds(there, l) /\ here \in PCs /\ there \in PCs
    BY <1>1, <1>4 DEF Pass, Step, At, Holds, PCs
  <2>2. QED
    BY <1>4, <2>1, PassKeepsTypes
<1>5. CASE LoadCalls(t)
  <2>. DEFINE k == [l EXCEPT !.load = heap[l.obj].calls_made]
  <2>1. k \in Local /\ k.sid = l.sid /\ k.obj = l.obj /\ k.tool = l.tool
    BY <1>1, <1>2, <1>5 DEF LoadCalls, Step, At, Local, Session
  <2>2. /\ loc' = [loc EXCEPT ![t] = k] /\ Step(t, "load_calls", "store_calls")
        /\ sessions' = sessions /\ heap' \in [Objs -> Session] /\ audit' \in Seq(Entry)
    BY <1>5 DEF LoadCalls, TypeInv, TypeOK
  <2>. HIDE DEF k
  <2>3. QED
    BY <1>2, <1>3, <2>1, <2>2 DEF Step, At
<1>6. CASE StoreCalls(t)
  <2>. DEFINE cost == Cost(l.tool, l.jtok)
              k == [l EXCEPT !.bill = cost, !.todo = Billed(l.tool, l.jtok)]
  <2>1. cost \in [Meters -> Int]
    BY <1>1, <1>2, <1>6, ToolAssumption
    DEF StoreCalls, ChargedTo, Step, At, Cost, Amount, Local, Report, Optional, None
  <2>2. k \in Local /\ k.sid = l.sid /\ k.obj = l.obj /\ k.tool = l.tool
    BY <1>1, <2>1 DEF Local, Billed
  <2>3. heap' \in [Objs -> Session]
    <3>0. heap[l.obj] \in Session /\ l.load + 1 \in Int
      BY <1>1, <1>2, <1>6 DEF StoreCalls, ChargedTo, Step, At, Local
    <3>1. [heap[l.obj] EXCEPT !.calls_made = l.load + 1] \in Session
      BY <3>0, SessionFields
    <3>2. heap' = [heap EXCEPT ![l.obj] = [heap[l.obj] EXCEPT !.calls_made = l.load + 1]]
      BY <1>6 DEF StoreCalls, ChargedTo
    <3>3. QED
      BY <3>1, <3>2 DEF TypeInv, TypeOK
  <2>4. /\ loc' = [loc EXCEPT ![t] = k] /\ Step(t, "store_calls", "load_meter")
        /\ sessions' = sessions /\ audit' \in Seq(Entry)
    BY <1>6 DEF StoreCalls, ChargedTo, TypeInv, TypeOK
  <2>. HIDE DEF k
  <2>5. QED
    BY <1>2, <1>3, <2>2, <2>3, <2>4 DEF Step, At
<1>7. ASSUME NEW here \in {"load_meter", "load_delta"},
             NEW there \in {"store_meter", "store_delta"}, LoadMeter(t, here, there)
      PROVE  TypeInv'
  <2>1. PICK m \in l.todo : loc' = [loc EXCEPT ![t].meter = m, ![t].todo = @ \ {m},
                                      ![t].load = heap[loc[t].obj].consumed[m]]
    BY <1>7 DEF LoadMeter
  <2>. DEFINE k == [l EXCEPT !.meter = m, !.todo = l.todo \ {m},
                             !.load = heap[l.obj].consumed[m]]
  <2>2. m \in Meters /\ heap[l.obj].consumed[m] \in Int
    BY <1>1, <1>2, <1>7, <2>1 DEF LoadMeter, Step, At, Local, Session
  <2>3. k \in Local /\ k.sid = l.sid /\ k.obj = l.obj /\ k.tool = l.tool /\ k.meter = m
    BY <1>1, <2>2 DEF Local
  <2>4. Holds(there, k) /\ here \in PCs /\ there \in PCs
    BY <1>2, <1>7, <2>2, <2>3 DEF LoadMeter, Step, At, Holds, PCs
  <2>5. loc' = [loc EXCEPT ![t] = k]
    BY <2>1 DEF TypeInv, TypeOK
  <2>6. /\ Step(t, here, there) /\ sessions' = sessions
        /\ heap' \in [Objs -> Session] /\ audit' \in Seq(Entry)
    BY <1>7 DEF LoadMeter, TypeInv, TypeOK
  <2>. HIDE DEF k
  <2>7. QED
    BY <1>7, <2>3, <2>4, <2>5, <2>6, WriteKeepsTypes
<1>8. ASSUME NEW here \in {"store_meter", "store_delta"},
             NEW there \in {"load_meter", "load_delta"}, StoreMeter(t, here, there)
      PROVE  TypeInv'
  <2>1. l.meter \in Meters /\ l.load + l.bill[l.meter] \in Int
    BY <1>1, <1>8 DEF StoreMeter, Step, At, Holds, Local
  <2>2. heap' \in [Objs -> Session]
    BY <1>2, <1>8, <2>1 DEF StoreMeter, Step, At, TypeInv, TypeOK, Session
  <2>3. /\ loc' = [loc EXCEPT ![t] = l] /\ Step(t, here, there)
        /\ sessions' = sessions /\ audit' \in Seq(Entry)
    BY <1>8 DEF StoreMeter, TypeInv, TypeOK
  <2>4. QED
    BY <1>1, <1>2, <1>3, <1>8, <2>2, <2>3 DEF Step, At
<1>9. CASE RecordServed(t)
  <2>. DEFINE k == [l EXCEPT !.ref = Len(audit) + 1]
  <2>1. CallRecord(l, "served") \in Entry /\ Len(audit) + 1 \in Nat
    BY <1>1, <1>2, <1>9, CallRecordType, LenProperties
    DEF RecordServed, Step, At, TypeInv, TypeOK, Verdicts
  <2>2. k \in Local /\ k.sid = l.sid /\ k.obj = l.obj /\ k.tool = l.tool
    BY <1>1, <2>1 DEF Local
  <2>3. heap' \in [Objs -> Session] /\ audit' \in Seq(Entry)
    <3>. DEFINE p == heap[l.obj].pending_costs \cup {Len(audit) + 1}
    <3>1. heap[l.obj] \in Session /\ p \in SUBSET Nat
      BY <1>2, <1>9, <2>1 DEF RecordServed, Step, At, Session
    <3>2. [heap[l.obj] EXCEPT !.pending_costs = p] \in Session
      BY <3>1, SessionFields
    <3>3. heap' = [heap EXCEPT ![l.obj] = [heap[l.obj] EXCEPT !.pending_costs = p]]
      BY <1>9 DEF RecordServed
    <3>4. audit' = Append(audit, CallRecord(l, "served"))
      BY <1>9 DEF RecordServed
    <3>. HIDE DEF p
    <3>5. heap' \in [Objs -> Session]
      BY <3>2, <3>3 DEF TypeInv, TypeOK
    <3>6. audit \in Seq(Entry) /\ CallRecord(l, "served") \in Entry
      BY <2>1 DEF TypeInv, TypeOK
    <3>7. QED
      BY <3>4, <3>5, <3>6, AppendProperties
  <2>4. /\ loc' = [loc EXCEPT ![t] = k] /\ Step(t, "record_served", "forward")
        /\ sessions' = sessions
    BY <1>9 DEF RecordServed
  <2>. HIDE DEF k
  <2>5. QED
    BY <1>2, <1>3, <2>2, <2>3, <2>4 DEF Step, At
<1>10. CASE UpstreamFails(t)
  <2>1. Holds("idle", NoLocal)
    BY DEF Holds
  <2>2. QED
    BY <1>10, <2>1, NoLocalType, StepKeepsTypes
    DEF UpstreamFails, Step, At, TypeInv, TypeOK, PCs
<1>11. CASE UpstreamReturns(t)
  BY <1>4, <1>11 DEF UpstreamReturns
<1>12. CASE UpstreamReports(t)
  <2>1. PICK report \in Reports[l.tool] : loc' = [loc EXCEPT ![t].reported = report]
    BY <1>12 DEF UpstreamReports
  <2>. DEFINE k == [l EXCEPT !.reported = report]
  <2>2. report \in Report
    BY <1>2, <1>12, <2>1, ToolAssumption DEF UpstreamReports, Step, At
  <2>3. k \in Local /\ k.sid = l.sid /\ k.obj = l.obj /\ k.tool = l.tool
    BY <1>1, <2>2 DEF Local
  <2>4. /\ loc' = [loc EXCEPT ![t] = k] /\ Step(t, "forward", "reconcile")
        /\ sessions' = sessions /\ heap' \in [Objs -> Session] /\ audit' \in Seq(Entry)
    BY <1>12, <2>1 DEF UpstreamReports, TypeInv, TypeOK
  <2>. HIDE DEF k
  <2>5. QED
    BY <1>2, <1>3, <2>3, <2>4 DEF Step, At
<1>13. CASE ReconcileCost(t)
  <2>. DEFINE o == sessions[l.sid]
              prior(m) == IF l.ref \in heap[o].pending_costs THEN Amount(Estimate[l.tool][m]) ELSE 0
              bill == [m \in Meters |-> l.reported[m] - prior(m)]
              k == [l EXCEPT !.obj = o, !.todo = {m \in Meters : l.reported[m] # None},
                             !.bill = bill]
  <2>1. o \in Objs /\ l.tool \in Tools
    BY <1>2, <1>13 DEF ReconcileCost, Step, At
  <2>2. bill \in [Meters -> Int]
    <3>1. ASSUME NEW m \in Meters
          PROVE  l.reported[m] \in Int /\ prior(m) \in Int
      BY <1>1, <2>1, ToolAssumption DEF Local, Report, Optional, None, Amount
    <3>2. QED
      BY <3>1
  <2>3. k \in Local /\ k.sid = l.sid /\ k.obj = o /\ k.tool = l.tool
    BY <1>1, <2>1, <2>2 DEF Local
  <2>4. heap' \in [Objs -> Session]
    <3>. DEFINE p == heap[o].pending_costs \ {l.ref}
    <3>1. heap[o] \in Session /\ p \in SUBSET Nat
      BY <2>1 DEF TypeInv, TypeOK, Session
    <3>2. [heap[o] EXCEPT !.pending_costs = p] \in Session
      BY <3>1, SessionFields
    <3>3. heap' = [heap EXCEPT ![o] = [heap[o] EXCEPT !.pending_costs = p]]
      BY <1>13 DEF ReconcileCost
    <3>. HIDE DEF p
    <3>4. QED
      BY <3>2, <3>3 DEF TypeInv, TypeOK
  <2>5. /\ loc' = [loc EXCEPT ![t] = k] /\ Step(t, "reconcile", "load_delta")
        /\ sessions' = sessions /\ audit' \in Seq(Entry)
    BY <1>13 DEF ReconcileCost, TypeInv, TypeOK
  <2>. HIDE DEF k
  <2>6. QED
    BY <1>3, <2>1, <2>3, <2>4, <2>5
<1>14. CASE BillCall(t)
  BY <1>4, <1>7, <1>8, <1>14 DEF BillCall
<1>15. CASE BillDelta(t)
  BY <1>4, <1>7, <1>8, <1>15 DEF BillDelta
<1>16. CASE RecordResult(t)
  <2>. DEFINE base == Record("result", l.sid, l.obj, "served", Null)
  <2>1. pc[t] = "record_result" /\ base \in Entry
    BY <1>1, <1>16, RecordType DEF RecordResult, AnsweredRef, At, Local, Verdicts
  <2>2. [base EXCEPT !.ref = l.ref, !.reported = l.reported] \in Entry
    BY <1>1, <2>1 DEF Entry, Local
  <2>3. QED
    BY <1>16, <2>2, AnswerKeepsTypes DEF RecordResult, AnsweredRef, At, TypeInv, TypeOK
<1>17. QED
  BY <1>5, <1>6, <1>9, <1>10, <1>11, <1>12, <1>13, <1>14, <1>15, <1>16

\* The steps of an amendment, and the last one of session start.
LEMMA AmendKeepsTypes ==
  ASSUME TypeInv, NEW t \in Threads, RecordOpen(t) \/ Amend(t)
  PROVE  TypeInv'
<1>. DEFINE l == loc[t]
            s == heap[l.obj]
<1>1. l \in Local /\ Holds(pc[t], l)
  BY DEF TypeInv, TypeOK, Bound
<1>2. pc[t] # "idle" => /\ l.obj \in Objs /\ s \in Session
                        /\ s.terms \in Terms /\ s.digest \in Digest
  BY <1>1 DEF Holds, TypeInv, TypeOK, Session
<1>3. ASSUME NEW here \in {"widen_scope", "raise_budget", "amend_judge"},
             NEW there \in {"raise_budget", "amend_judge", "record_amend"},
             here = "widen_scope" \/ there # "raise_budget",
             NEW k \in Local, Step(t, here, there), loc' = [loc EXCEPT ![t] = k],
             k.sid = l.sid, k.obj = l.obj, k.am = l.am, sessions' = sessions,
             heap' \in [Objs -> Session], audit' \in Seq(Entry)
      PROVE  TypeInv'
  <2>1. Holds(there, k) /\ here \in PCs /\ there \in PCs
    BY <1>1, <1>3 DEF Step, At, Holds, PCs, CallSteps
  <2>2. QED
    BY <1>3, <2>1, WriteKeepsTypes
<1>4. CASE RecordOpen(t)
  <2>1. Record("session_init", l.sid, l.obj, "served", l.digest) \in Entry
    BY <1>1, RecordType DEF Local, Verdicts
  <2>2. QED
    BY <1>4, <2>1, AnswerKeepsTypes DEF RecordOpen, At, TypeInv, TypeOK
<1>5. ASSUME NEW here \in {"widen_scope", "raise_budget"},
             NEW there \in {"raise_budget", "amend_judge"}, NEW terms \in Terms,
             here = "widen_scope" \/ there # "raise_budget", Step(t, here, there),
             heap' = [heap EXCEPT ![l.obj].terms = terms],
             UNCHANGED <<sessions, loc, audit>>
      PROVE  TypeInv'
  <2>1. [s EXCEPT !.terms = terms] \in Session
    BY <1>2, <1>5, SessionFields DEF Step, At
  <2>2. heap' = [heap EXCEPT ![l.obj] = [s EXCEPT !.terms = terms]]
    BY <1>5
  <2>3. heap' \in [Objs -> Session]
    BY <2>1, <2>2 DEF TypeInv, TypeOK
  <2>4. QED
    BY <1>1, <1>3, <1>5, <2>3 DEF TypeInv, TypeOK
<1>6. CASE WidenScope(t)
  <2>1. l.am \in Amendments /\ s.terms \in Terms
    BY <1>1, <1>2, <1>6 DEF WidenScope, Step, At, Holds
  <2>2. Widened(s.terms, l.am) \in Terms
    BY <2>1, AmendedTerms
  <2>3. heap' = [heap EXCEPT ![l.obj].terms = Widened(s.terms, l.am)]
    BY <1>6 DEF WidenScope
  <2>4. QED
    BY <1>5, <1>6, <2>2, <2>3 DEF WidenScope
<1>7. CASE RaiseBudget(t)
  <2>1. l.am \in Amendments /\ s.terms \in Terms
    BY <1>1, <1>2, <1>7 DEF RaiseBudget, Step, At, Holds
  <2>2. Raised(s.terms, l.am) \in Terms
    BY <2>1, AmendedTerms
  <2>3. heap' = [heap EXCEPT ![l.obj].terms = Raised(s.terms, l.am)]
    BY <1>7 DEF RaiseBudget
  <2>4. QED
    BY <1>5, <1>7, <2>2, <2>3 DEF RaiseBudget
<1>8. CASE JudgeAmendment(t)
  <2>. DEFINE ok == ScopeConsistent(s.goal, s.terms)
              k == [l EXCEPT !.outcome = IF ok THEN "consistent" ELSE "clarify"]
  <2>1. s \in Session
    BY <1>2, <1>8 DEF JudgeAmendment, Step, At
  <2>2. AmendDigest(s) \in Digest
    BY <2>1 DEF Session, AmendDigest, Digest
  <2>3. Rebased(s) \in Session
    BY <2>1, <2>2 DEF Rebased, CacheAfterAmendment, Session
  <2>4. heap' \in [Objs -> Session]
    BY <1>8, <2>1, <2>3 DEF JudgeAmendment, TypeInv, TypeOK
  <2>5. k \in Local /\ k.sid = l.sid /\ k.obj = l.obj /\ k.am = l.am
    BY <1>1 DEF Local, Outcomes
  <2>6. /\ loc' = [loc EXCEPT ![t] = k] /\ Step(t, "amend_judge", "record_amend")
        /\ sessions' = sessions /\ audit' \in Seq(Entry)
    BY <1>8 DEF JudgeAmendment, TypeInv, TypeOK
  <2>. HIDE DEF k
  <2>7. QED
    BY <1>3, <2>4, <2>5, <2>6
<1>9. CASE RecordAmendment(t)
  <2>1. VerdictOn(l.outcome) \in Verdicts
    BY <1>1 DEF VerdictOn, Verdicts, Local, Outcomes
  <2>2. Record("amendment", l.sid, l.obj, VerdictOn(l.outcome), s.digest) \in Entry
    BY <1>1, <1>2, <1>9, <2>1, RecordType DEF RecordAmendment, At, Local
  <2>3. QED
    BY <1>9, <2>2, AnswerKeepsTypes DEF RecordAmendment, At, TypeInv, TypeOK
<1>10. QED
  BY <1>4, <1>6, <1>7, <1>8, <1>9 DEF Amend

\* A deadline that passes keeps the types.
LEMMA DeadlineKeepsTypes ==
  ASSUME TypeInv, NEW o \in Objs, DeadlinePasses(o)
  PROVE  TypeInv'
<1>0. heap[o] \in Session /\ heap[o].terms \in Terms
  BY DEF TypeInv, TypeOK, Session
<1>1. [heap[o].terms EXCEPT !.deadline = "past"] \in Terms
  BY <1>0 DEF Terms
<1>2. heap' = [heap EXCEPT ![o] =
                 [heap[o] EXCEPT !.terms = [heap[o].terms EXCEPT !.deadline = "past"]]]
  BY DEF DeadlinePasses
<1>3. heap' \in [Objs -> Session]
  BY <1>0, <1>1, <1>2, SessionFields DEF TypeInv, TypeOK
<1>4. QED
  BY <1>3 DEF DeadlinePasses, TypeInv, TypeOK, Bound

\* The engine starts well typed, with no handler busy.
LEMMA InitTypes == Init => TypeInv
<1>. SUFFICES ASSUME Init PROVE TypeInv
  OBVIOUS
<1>1. audit \in Seq(Entry)
  BY EmptySeq DEF Init
<1>2. QED
  BY <1>1, FreeType, NoLocalType
  DEF Init, TypeInv, TypeOK, Bound, Holds, CallSteps, PCs

\* Every step of the engine keeps the type invariant.
LEMMA StepTypes == TypeInv /\ [Next]_vars => TypeInv'
<1>. SUFFICES ASSUME TypeInv, [Next]_vars
              PROVE  TypeInv'
  OBVIOUS
<1>1. CASE UNCHANGED vars
  BY <1>1 DEF vars, TypeInv, TypeOK, Bound
<1>2. CASE Next
  BY <1>2, BeginKeepsTypes, CheckKeepsTypes, BillKeepsTypes, AmendKeepsTypes,
     DeadlineKeepsTypes DEF Next, Handle, Call
<1>3. QED
  BY <1>1, <1>2

\* Every state of the engine is well typed, and a busy handler always holds a
\* session id that names a Session: no step of verify_call, reconcile_cost or amend
\* meets a missing Session once its request is bound.
THEOREM BoundCorrect == Spec => []TypeInv
  BY InitTypes, StepTypes, PTL DEF Spec

\* Every variable keeps its type, in both deployments.
THEOREM TypeCorrect == Spec => []TypeOK
<1>1. TypeInv => TypeOK
  BY DEF TypeInv
<1>2. QED
  BY <1>1, BoundCorrect, PTL

-----------------------------------------------------------------------------
(***************************************************************************)
(* The serial deployment.  One handler is busy at a time, so what a busy   *)
(* handler has read of its Session still holds when it acts on it.         *)
(***************************************************************************)
Alone == \A t, u \in Threads : ~Idle(t) /\ ~Idle(u) => t = u

\* The Session a busy handler works on is the one its id names.
Current == \A t \in Threads : ~Idle(t) => sessions[loc[t].sid] = loc[t].obj

SerialInv == TypeInv /\ Alone /\ Current

\* What every step of a busy handler does to the handlers and the table.
LEMMA HandleFrame ==
  ASSUME TypeInv, NEW t \in Threads, Handle(t)
  PROVE  /\ ~Idle(t)
         /\ sessions' = sessions
         /\ \A u \in Threads \ {t} : pc'[u] = pc[u] /\ loc'[u] = loc[u]
  BY DEF Handle, Call, Amend, RecordOpen, CheckScope, CheckBudget, ApplyPolicy,
         LookUpJudgement, JudgeReturns, WeighJudgement, LoadCalls, StoreCalls,
         BillCall, LoadMeter, StoreMeter, RecordServed, UpstreamFails,
         UpstreamReturns, UpstreamReports, ReconcileCost, BillDelta, RecordResult,
         WidenScope, RaiseBudget, JudgeAmendment, RecordAmendment,
         Pass, Deny, Answer, Step, At, Goto, Idle, TypeInv, TypeOK

\* The handler it leaves busy keeps its session id; its Session changes in
\* ReconcileCost only.
LEMMA HandleLocals ==
  ASSUME TypeInv, NEW t \in Threads, Handle(t), ~ReconcileCost(t), ~Idle(t)'
  PROVE  loc'[t].sid = loc[t].sid /\ loc'[t].obj = loc[t].obj
<1>. USE DEF TypeInv, TypeOK, Local
<1>1. ~RecordOpen(t)
  BY DEF RecordOpen, Answer, Goto, Idle
<1>2. CASE CheckScope(t) \/ CheckBudget(t) \/ ApplyPolicy(t) \/ WeighJudgement(t)
  BY <1>2 DEF CheckScope, CheckBudget, ApplyPolicy, WeighJudgement, Pass, Deny,
              Answer, Goto, Idle
<1>3. CASE LookUpJudgement(t)
  BY <1>3 DEF LookUpJudgement
<1>4. CASE \E outcome \in Outcomes, tokens \in JudgeTokens :
             JudgeReturns(t, outcome, tokens)
  BY <1>4 DEF JudgeReturns
<1>5. CASE LoadCalls(t) \/ StoreCalls(t) \/ BillCall(t) \/ BillDelta(t)
  <2>1. CASE LoadCalls(t) \/ StoreCalls(t)
    BY <2>1 DEF LoadCalls, StoreCalls
  <2>2. ASSUME NEW here, NEW there, LoadMeter(t, here, there)
        PROVE  loc'[t].sid = loc[t].sid /\ loc'[t].obj = loc[t].obj
    BY <2>2 DEF LoadMeter
  <2>3. ASSUME NEW here, NEW there,
               StoreMeter(t, here, there) \/ Pass(t, here, there)
        PROVE  loc' = loc
    BY <2>3 DEF StoreMeter, Pass
  <2>4. QED
    BY <1>5, <2>1, <2>2, <2>3 DEF BillCall, BillDelta
<1>6. CASE RecordServed(t) \/ UpstreamFails(t) \/ UpstreamReturns(t)
             \/ UpstreamReports(t) \/ RecordResult(t)
  BY <1>6 DEF RecordServed, UpstreamFails, UpstreamReturns, UpstreamReports,
              RecordResult, Pass, Step, Answer, Goto, Idle
<1>7. CASE Amend(t)
  BY <1>7 DEF Amend, WidenScope, RaiseBudget, JudgeAmendment, RecordAmendment,
              Answer, Goto, Idle
<1>8. QED
  BY <1>1, <1>2, <1>3, <1>4, <1>5, <1>6, <1>7 DEF Handle, Call

\* A handler that takes a request touches no other handler, and if it stays busy
\* its id names the Session it holds.
LEMMA BeginFrame ==
  ASSUME TypeInv, NEW t \in Threads, NEW sid \in Sids, Begin(t, sid)
  PROVE  /\ Accept(t)
         /\ \A u \in Threads \ {t} : pc'[u] = pc[u] /\ loc'[u] = loc[u]
         /\ ~Idle(t)' => sessions'[loc'[t].sid] = loc'[t].obj
<1>1. Accept(t)
  BY DEF Begin, RejectMalformed, RejectUnbound, OpenSession, RefuseSession, BindCall,
         RefuseUnsigned, BindAmendment, Bind
<1>2. \A u \in Threads \ {t} : pc'[u] = pc[u] /\ loc'[u] = loc[u]
  BY DEF Begin, RejectMalformed, RejectUnbound, OpenSession, RefuseSession, BindCall,
         RefuseUnsigned, BindAmendment, Bind, Answer, Goto, TypeInv, TypeOK
<1>3. ASSUME ~Idle(t)'
      PROVE  sessions'[loc'[t].sid] = loc'[t].obj
  <2>. USE DEF TypeInv, TypeOK
  <2>1. CASE \E c \in Commitments : OpenSession(t, sid, c)
    BY <2>1 DEF OpenSession, NoLocal
  <2>2. CASE \E tool \in Tools, high \in BOOLEAN : BindCall(t, sid, tool, high)
    BY <2>2 DEF BindCall, Bind, NoLocal
  <2>3. CASE \E am \in Amendments : BindAmendment(t, sid, am)
    BY <2>3 DEF BindAmendment, Bind, NoLocal
  <2>4. QED
    BY <1>1, <1>3, <2>1, <2>2, <2>3
    DEF Begin, RejectMalformed, RejectUnbound, RefuseSession, RefuseUnsigned, Answer,
        Goto, Accept, Idle
<1>4. QED
  BY <1>1, <1>2, <1>3

\* In the serial deployment one handler at most stays busy, on the current Session.
LEMMA SerialInvStep ==
  ASSUME Serial, SerialInv, [Next]_vars
  PROVE  SerialInv'
<1>1. TypeInv'
  BY StepTypes DEF SerialInv
<1>2. Alone' /\ Current'
  <2>1. ASSUME NEW t \in Threads, Handle(t)
        PROVE  Alone' /\ Current'
    <3>1. \A u \in Threads \ {t} : Idle(u) /\ pc'[u] = pc[u]
      BY <2>1, HandleFrame DEF SerialInv, Alone
    <3>2. Alone'
      BY <3>1 DEF Alone, Idle
    <3>3. ~Idle(t)' => sessions'[loc'[t].sid] = loc'[t].obj
      <4>1. CASE ReconcileCost(t)
        <5>1. loc'[t].sid = loc[t].sid /\ loc'[t].obj = sessions[loc[t].sid]
          BY <4>1 DEF ReconcileCost, SerialInv, TypeInv, TypeOK, Local
        <5>2. QED
          BY <2>1, <5>1, HandleFrame DEF SerialInv
      <4>2. CASE ~ReconcileCost(t)
        BY <2>1, <4>2, HandleFrame, HandleLocals DEF SerialInv, Current
      <4>3. QED
        BY <4>1, <4>2
    <3>4. QED
      BY <3>1, <3>2, <3>3 DEF Current, Idle
  <2>2. ASSUME NEW t \in Threads, NEW sid \in Sids, Begin(t, sid)
        PROVE  Alone' /\ Current'
    <3>1. \A u \in Threads \ {t} : Idle(u) /\ pc'[u] = pc[u]
      BY <2>2, BeginFrame DEF SerialInv, Accept
    <3>2. QED
      BY <2>2, <3>1, BeginFrame DEF SerialInv, Alone, Current, Idle
  <2>3. CASE \/ UNCHANGED vars
             \/ \E o \in Objs : DeadlinePasses(o)
    BY <2>3 DEF vars, DeadlinePasses, SerialInv, Alone, Current, Idle
  <2>4. QED
    BY <2>1, <2>2, <2>3 DEF Next
<1>3. QED
  BY <1>1, <1>2 DEF SerialInv

\* The serial invariant holds at the start.
LEMMA SerialInvInit == Init => SerialInv
  BY InitTypes DEF Init, SerialInv, Alone, Current, Idle

-----------------------------------------------------------------------------
(***************************************************************************)
(* CallCeiling.  It is not inductive: between C3 and the increment the     *)
(* handler relies on the room that C3 found, and between the two halves of *)
(* the increment on the count it read.                                     *)
(***************************************************************************)
Admitted == {"policy", "judge", "judging", "judged", "load_calls", "store_calls"}

RoomKept ==
  \A t \in Threads :
    /\ pc[t] \in Admitted => CallsLeft(heap[loc[t].obj])
    /\ pc[t] = "store_calls" => loc[t].load = heap[loc[t].obj].calls_made

CeilingInv == CallCeiling /\ RoomKept

\* A step of t that changes no count and no ceiling.
LEMMA CeilingFrame ==
  ASSUME TypeInv, CeilingInv, NEW t \in Threads,
         \A o \in Objs : /\ heap'[o].calls_made = heap[o].calls_made
                         /\ heap'[o].terms.max_calls = heap[o].terms.max_calls,
         \A u \in Threads \ {t} : pc'[u] = pc[u] /\ loc'[u] = loc[u],
         pc'[t] \in Admitted => loc'[t].obj \in Objs /\ CallsLeft(heap[loc'[t].obj]),
         pc'[t] = "store_calls" => loc'[t].load = heap[loc'[t].obj].calls_made
  PROVE  CeilingInv'
<1>1. CallCeiling'
  BY DEF CeilingInv, CallCeiling
<1>2. ASSUME NEW u \in Threads
      PROVE  /\ pc'[u] \in Admitted => CallsLeft(heap'[loc'[u].obj])
             /\ pc'[u] = "store_calls" => loc'[u].load = heap'[loc'[u].obj].calls_made
  <2>1. pc'[u] \in Admitted => loc'[u].obj \in Objs
    <3>1. CASE u = t
      BY <3>1
    <3>2. CASE u # t
      BY <3>2 DEF TypeInv, Bound, Holds, Admitted
    <3>3. QED
      BY <3>1, <3>2
  <2>2. CASE u = t
    BY <2>1, <2>2 DEF CallsLeft, Admitted
  <2>3. CASE u # t
    BY <2>1, <2>3 DEF CallsLeft, CeilingInv, RoomKept, Admitted
  <2>4. QED
    BY <2>2, <2>3
<1>3. QED
  BY <1>1, <1>2 DEF CeilingInv, RoomKept

\* A step to the next check changes no count; it may enter the admitted steps only
\* with room for a call.
LEMMA CeilingPass ==
  ASSUME TypeInv, CeilingInv, NEW t \in Threads, NEW here, NEW there,
         Pass(t, here, there), here # "idle", there # "store_calls",
         there \in Admitted => here \in Admitted \/ CallsLeft(heap[loc[t].obj])
  PROVE  CeilingInv'
<1>1. /\ \A u \in Threads \ {t} : pc'[u] = pc[u] /\ loc'[u] = loc[u]
      /\ pc[t] = here /\ pc'[t] = there /\ loc'[t] = loc[t] /\ heap' = heap
  BY DEF Pass, Step, At, Goto, TypeInv, TypeOK
<1>2. loc[t].obj \in Objs
  BY <1>1 DEF TypeInv, Bound, Holds
<1>3. QED
  BY <1>1, <1>2, CeilingFrame DEF CeilingInv, RoomKept

\* Whatever is answered, no call is counted.
LEMMA CeilingAnswer ==
  ASSUME TypeInv, CeilingInv, NEW t \in Threads, NEW record, Answer(t, record)
  PROVE  CeilingInv'
<1>1. /\ \A u \in Threads \ {t} : pc'[u] = pc[u] /\ loc'[u] = loc[u]
      /\ pc'[t] = "idle" /\ heap' = heap
  BY DEF Answer, Goto, TypeInv, TypeOK
<1>2. QED
  BY <1>1, CeilingFrame DEF Admitted

\* Taking a request counts no call, and a new Session starts at zero.
LEMMA CeilingBegin ==
  ASSUME Serial, SerialInv, CeilingInv, NEW t \in Threads, NEW sid \in Sids,
         Begin(t, sid)
  PROVE  CeilingInv'
<1>. USE DEF SerialInv
<1>1. \A u \in Threads \ {t} : Idle(u) /\ pc'[u] = pc[u] /\ loc'[u] = loc[u]
  BY BeginFrame DEF Accept
<1>2. CASE \E c \in Commitments : OpenSession(t, sid, c)
  <2>1. PICK c \in Commitments, o \in Objs : heap' = [heap EXCEPT ![o] = NewSession(c)]
    BY <1>2 DEF OpenSession
  <2>2. pc'[t] = "record_open"
    BY <1>2 DEF OpenSession, Goto, TypeInv, TypeOK
  <2>3. /\ NewSession(c).calls_made = 0
        /\ NewSession(c).terms.max_calls = None \/ NewSession(c).terms.max_calls \in Nat
    BY NewSessionType DEF Terms, Optional
  <2>4. CallCeiling'
    BY <2>1, <2>3 DEF CallCeiling, CeilingInv, TypeInv, TypeOK
  <2>5. RoomKept'
    BY <1>1, <2>2 DEF RoomKept, Idle, Admitted
  <2>6. QED
    BY <2>4, <2>5 DEF CeilingInv
<1>3. CASE ~\E c \in Commitments : OpenSession(t, sid, c)
  <2>1. heap' = heap
    BY <1>3 DEF Begin, RejectMalformed, RejectUnbound, RefuseSession, BindCall,
                RefuseUnsigned, BindAmendment, Bind, Answer
  <2>2. pc'[t] \notin Admitted
    BY <1>3, BeginFrame
    DEF Begin, RejectMalformed, RejectUnbound, RefuseSession, BindCall, RefuseUnsigned,
        BindAmendment, Bind, Answer, Goto, Accept, Idle, TypeInv, TypeOK, Admitted
  <2>3. QED
    BY <1>1, <2>1, <2>2, CeilingFrame DEF Admitted
<1>4. QED
  BY <1>2, <1>3

\* The checks before the count keep the invariant: C3 finds the room that admission
\* relies on, and the count is read as it stands.
LEMMA CeilingCheck ==
  ASSUME SerialInv, CeilingInv, NEW t \in Threads,
         \/ CheckScope(t) \/ CheckBudget(t) \/ ApplyPolicy(t) \/ LookUpJudgement(t)
         \/ \E outcome \in Outcomes, tokens \in JudgeTokens :
              JudgeReturns(t, outcome, tokens)
         \/ WeighJudgement(t) \/ LoadCalls(t)
  PROVE  CeilingInv'
<1>. USE DEF SerialInv
<1>0. pc[t] # "idle" => loc[t].obj \in Objs
  BY DEF TypeInv, Bound, Holds
<1>1. CASE CheckScope(t)
  BY <1>1, CeilingPass, CeilingAnswer DEF CheckScope, Deny, Admitted
<1>2. CASE CheckBudget(t)
  BY <1>2, CeilingPass, CeilingAnswer DEF CheckBudget, Deny, Admitted, WithinBudget
<1>3. CASE ApplyPolicy(t)
  BY <1>3, CeilingPass, CeilingAnswer DEF ApplyPolicy, Deny, Admitted
<1>4. CASE WeighJudgement(t)
  BY <1>4, CeilingPass, CeilingAnswer DEF WeighJudgement, Deny, Admitted
<1>5. ASSUME NEW here \in {"judge", "judging", "load_calls"},
             NEW there \in Admitted, NEW k, Step(t, here, there), heap' = heap,
             loc' = [loc EXCEPT ![t] = k], k.obj = loc[t].obj,
             there = "store_calls" => k.load = heap[k.obj].calls_made
      PROVE  CeilingInv'
  <2>1. /\ \A u \in Threads \ {t} : pc'[u] = pc[u] /\ loc'[u] = loc[u]
        /\ pc'[t] = there /\ loc'[t] = k /\ pc[t] = here
    BY <1>5 DEF Step, At, Goto, TypeInv, TypeOK
  <2>2. CallsLeft(heap[k.obj]) /\ k.obj \in Objs
    BY <1>0, <1>5, <2>1 DEF CeilingInv, RoomKept, Admitted
  <2>3. QED
    BY <1>5, <2>1, <2>2, CeilingFrame
<1>6. CASE LookUpJudgement(t)
  <2>1. loc[t] \in Local
    BY DEF TypeInv, TypeOK
  <2>2. CASE Step(t, "judge", "judged")
    <3>1. PICK e : loc' = [loc EXCEPT ![t] = [loc[t] EXCEPT !.outcome = e.outcome]]
      BY <1>6, <2>2 DEF LookUpJudgement, Step, At, Goto, TypeInv, TypeOK
    <3>2. [loc[t] EXCEPT !.outcome = e.outcome].obj = loc[t].obj
      BY <2>1 DEF Local
    <3>3. QED
      BY <1>5, <1>6, <2>2, <3>1, <3>2 DEF LookUpJudgement, Admitted
  <2>3. CASE Step(t, "judge", "judging")
    <3>. DEFINE s == heap[loc[t].obj]
                k == [loc[t] EXCEPT !.base = CacheBase(s), !.digest = s.digest]
    <3>1. loc' = [loc EXCEPT ![t] = k]
      BY <1>6, <2>3 DEF LookUpJudgement, Step, At, Goto, TypeInv, TypeOK
    <3>2. k.obj = loc[t].obj
      BY <2>1 DEF Local
    <3>. HIDE DEF k
    <3>3. QED
      BY <1>5, <1>6, <2>3, <3>1, <3>2 DEF LookUpJudgement, Admitted
  <2>4. QED
    BY <1>6, <2>2, <2>3 DEF LookUpJudgement
<1>7. ASSUME NEW outcome \in Outcomes, NEW tokens \in JudgeTokens,
             JudgeReturns(t, outcome, tokens)
      PROVE  CeilingInv'
  <2>1. /\ \A u \in Threads \ {t} : pc'[u] = pc[u] /\ loc'[u] = loc[u]
        /\ pc'[t] = "judged" /\ pc[t] = "judging"
    BY <1>7 DEF JudgeReturns, Step, At, Goto, TypeInv, TypeOK
  <2>2. loc'[t].obj = loc[t].obj
    BY <1>7 DEF JudgeReturns, TypeInv, TypeOK, Local
  <2>3. \A o \in Objs : /\ heap'[o].calls_made = heap[o].calls_made
                        /\ heap'[o].terms.max_calls = heap[o].terms.max_calls
    BY <1>7 DEF JudgeReturns, TypeInv, TypeOK, Session
  <2>4. CallsLeft(heap[loc[t].obj])
    BY <2>1 DEF CeilingInv, RoomKept, Admitted
  <2>5. QED
    BY <1>0, <2>1, <2>2, <2>3, <2>4, CeilingFrame
<1>8. CASE LoadCalls(t)
  <2>. DEFINE k == [loc[t] EXCEPT !.load = heap[loc[t].obj].calls_made]
  <2>1. k.obj = loc[t].obj /\ k.load = heap[k.obj].calls_made
    BY DEF TypeInv, TypeOK, Local
  <2>2. loc' = [loc EXCEPT ![t] = k]
    BY <1>8 DEF LoadCalls
  <2>. HIDE DEF k
  <2>3. QED
    BY <1>5, <1>8, <2>1, <2>2 DEF LoadCalls, Admitted
<1>9. QED
  BY <1>1, <1>2, <1>3, <1>4, <1>6, <1>7, <1>8

\* The increment: the count read is the count in force, and there is room for one.
LEMMA CeilingCount ==
  ASSUME SerialInv, CeilingInv, NEW t \in Threads, StoreCalls(t)
  PROVE  CeilingInv'
<1>. DEFINE o == loc[t].obj
<1>. USE DEF SerialInv
<1>1. /\ pc[t] = "store_calls" /\ pc'[t] = "load_meter"
      /\ heap' = [heap EXCEPT ![o].calls_made = loc[t].load + 1]
      /\ o \in Objs
  BY DEF StoreCalls, ChargedTo, Step, At, Goto, TypeInv, TypeOK, Bound, Holds
<1>2. heap[o] \in Session /\ loc[t].load = heap[o].calls_made /\ CallsLeft(heap[o])
  BY <1>1 DEF CeilingInv, RoomKept, Admitted, TypeInv, TypeOK
<1>3. /\ heap'[o].calls_made = heap[o].calls_made + 1
      /\ heap'[o].terms = heap[o].terms
      /\ \A p \in Objs \ {o} : heap'[p] = heap[p]
  BY <1>1, <1>2 DEF TypeInv, TypeOK, Session
<1>4. CallCeiling'
  BY <1>2, <1>3 DEF CallCeiling, CeilingInv, CallsLeft
<1>5. \A u \in Threads \ {t} : pc'[u] = "idle"
  BY <1>1 DEF Alone, Idle, StoreCalls, ChargedTo, Step, Goto, TypeInv, TypeOK
<1>6. RoomKept'
  BY <1>1, <1>5 DEF RoomKept, Admitted
<1>7. QED
  BY <1>4, <1>6 DEF CeilingInv

\* The rest of a call writes meters, the estimate and the log.
LEMMA CeilingBill ==
  ASSUME SerialInv, CeilingInv, NEW t \in Threads,
         \/ BillCall(t) \/ RecordServed(t) \/ UpstreamFails(t) \/ UpstreamReturns(t)
         \/ UpstreamReports(t) \/ ReconcileCost(t) \/ BillDelta(t) \/ RecordResult(t)
  PROVE  CeilingInv'
<1>. USE DEF SerialInv
<1>1. Handle(t)
  BY DEF Handle, Call
<1>2. pc'[t] \notin Admitted
  BY DEF BillCall, RecordServed, UpstreamFails, UpstreamReturns, UpstreamReports,
         ReconcileCost, BillDelta, RecordResult, LoadMeter, StoreMeter, Pass, Answer,
         Step, Goto, TypeInv, TypeOK, Admitted
<1>3. \A o \in Objs : /\ heap'[o].calls_made = heap[o].calls_made
                      /\ heap'[o].terms.max_calls = heap[o].terms.max_calls
  <2>1. ASSUME NEW here, NEW there, StoreMeter(t, here, there)
        PROVE  \A o \in Objs : /\ heap'[o].calls_made = heap[o].calls_made
                               /\ heap'[o].terms = heap[o].terms
    BY <2>1 DEF StoreMeter, TypeInv, TypeOK, Session
  <2>2. CASE RecordServed(t)
    BY <2>2 DEF RecordServed, TypeInv, TypeOK, Session
  <2>3. CASE ReconcileCost(t)
    BY <2>3 DEF ReconcileCost, TypeInv, TypeOK, Session
  <2>4. CASE UpstreamFails(t) \/ UpstreamReturns(t) \/ UpstreamReports(t)
               \/ RecordResult(t)
    BY <2>4 DEF UpstreamFails, UpstreamReturns, UpstreamReports, RecordResult, Pass,
                Answer
  <2>5. CASE BillCall(t) \/ BillDelta(t)
    BY <2>1, <2>5 DEF BillCall, BillDelta, LoadMeter, Pass
  <2>6. QED
    BY <2>2, <2>3, <2>4, <2>5
<1>4. QED
  BY <1>1, <1>2, <1>3, HandleFrame, CeilingFrame DEF Admitted

\* An amendment adds calls to a ceiling, never takes them away.
LEMMA CeilingAmend ==
  ASSUME SerialInv, CeilingInv, NEW t \in Threads, RecordOpen(t) \/ Amend(t)
  PROVE  CeilingInv'
<1>. DEFINE o == loc[t].obj
<1>. USE DEF SerialInv
<1>1. CASE RecordOpen(t) \/ RecordAmendment(t)
  BY <1>1, CeilingAnswer DEF RecordOpen, RecordAmendment
<1>2. CASE WidenScope(t) \/ RaiseBudget(t) \/ JudgeAmendment(t)
  <2>1. pc[t] # "idle" /\ pc'[t] \notin Admitted
    BY <1>2 DEF WidenScope, RaiseBudget, JudgeAmendment, Step, At, Goto, TypeInv,
                TypeOK, Admitted
  <2>2. \A u \in Threads \ {t} : pc'[u] = "idle"
    BY <1>2, <2>1, HandleFrame DEF Handle, Amend, Alone, Idle
  <2>3. o \in Objs /\ heap[o] \in Session /\ heap[o].terms \in Terms
    BY <2>1 DEF TypeInv, TypeOK, Bound, Holds, Session
  <2>4. /\ \A p \in Objs \ {o} : heap'[p] = heap[p]
        /\ heap'[o].calls_made = heap[o].calls_made
        /\ \/ heap'[o].terms.max_calls = heap[o].terms.max_calls
           \/ /\ heap[o].terms.max_calls # None
              /\ heap'[o].terms.max_calls >= heap[o].terms.max_calls
    <3>1. CASE JudgeAmendment(t)
      BY <2>3, <3>1 DEF JudgeAmendment, Rebased, CacheAfterAmendment, TypeInv, TypeOK, Session
    <3>2. CASE WidenScope(t) \/ RaiseBudget(t)
      <4>1. loc[t].am \in Amendments
        BY <3>2 DEF WidenScope, RaiseBudget, Step, At, TypeInv, Bound, Holds
      <4>2. PICK x \in {Widened(heap[o].terms, loc[t].am), Raised(heap[o].terms, loc[t].am)} :
              heap' = [heap EXCEPT ![o].terms = x]
        BY <3>2 DEF WidenScope, RaiseBudget
      <4>3. heap'[o].terms = x /\ heap'[o].calls_made = heap[o].calls_made
              /\ \A p \in Objs \ {o} : heap'[p] = heap[p]
        BY <2>3, <4>2 DEF TypeInv, TypeOK, Session
      <4>4. QED
        BY <2>3, <4>1, <4>2, <4>3, AmendedTerms
    <3>3. QED
      BY <1>2, <3>1, <3>2
  <2>5. CallCeiling'
    <3>1. heap[o].calls_made \in Int /\ heap[o].terms.max_calls \in Int
            /\ heap'[o].terms.max_calls \in Int
      BY <2>3, <2>4, StepTypes, <1>2
      DEF Next, Handle, Amend, Session, Terms, Optional, None, TypeInv, TypeOK
    <3>2. QED
      BY <2>3, <2>4, <3>1 DEF CallCeiling, CeilingInv
  <2>6. RoomKept'
    BY <2>1, <2>2 DEF RoomKept, Admitted
  <2>7. QED
    BY <2>5, <2>6 DEF CeilingInv
<1>3. QED
  BY <1>1, <1>2 DEF Amend

\* Every step of the serial deployment keeps the call-ceiling invariant.
LEMMA CeilingStep ==
  ASSUME Serial, SerialInv, CeilingInv, [Next]_vars
  PROVE  CeilingInv'
<1>1. ASSUME NEW o \in Objs, DeadlinePasses(o)
      PROVE  CeilingInv'
  BY <1>1 DEF DeadlinePasses, CeilingInv, CallCeiling, RoomKept, CallsLeft, Admitted,
              SerialInv, TypeInv, TypeOK, Session, Terms, Bound, Holds
<1>2. CASE UNCHANGED vars
  BY <1>2 DEF vars, CeilingInv, CallCeiling, RoomKept, CallsLeft
<1>3. QED
  BY <1>1, <1>2, CeilingBegin, CeilingCheck, CeilingCount, CeilingBill, CeilingAmend
  DEF Next, Handle, Call

\* The call-ceiling invariant holds at the start.
LEMMA CeilingInit == Init => CeilingInv
  BY DEF Init, CeilingInv, CallCeiling, RoomKept, Free, NoTerms, Admitted

\* In the FastAPI deployment no Session ever counts more calls than its commitment
\* and its amendments allow, however requests, amendments and re-opened sessions
\* follow each other.
THEOREM CallCeilingHolds ==
  ASSUME Serial
  PROVE  Spec => []CallCeiling
<1>1. Init => SerialInv /\ CeilingInv
  BY SerialInvInit, CeilingInit
<1>2. SerialInv /\ CeilingInv /\ [Next]_vars => (SerialInv /\ CeilingInv)'
  BY SerialInvStep, CeilingStep
<1>3. SerialInv /\ CeilingInv => CallCeiling
  BY DEF CeilingInv
<1>4. QED
  BY <1>1, <1>2, <1>3, PTL DEF Spec

-----------------------------------------------------------------------------
(* What a handler's step changes *)

\* Each field of a Session is written at its own steps.
LEMMA HeapFrame ==
  ASSUME TypeInv, NEW t \in Threads, Handle(t), NEW o \in Objs
  PROVE  /\ heap'[o].live = heap[o].live /\ heap'[o].capped = heap[o].capped
         /\ heap'[o].goal = heap[o].goal /\ heap'[o].plan = heap[o].plan
         /\ pc[t] # "amend_judge" => heap'[o].digest = heap[o].digest
         /\ pc[t] \notin {"amend_judge", "judging"} => heap'[o].judge_cache = heap[o].judge_cache
         /\ pc[t] # "store_calls" => heap'[o].calls_made = heap[o].calls_made
         /\ pc[t] \notin {"store_meter", "store_delta"} => heap'[o].consumed = heap[o].consumed
         /\ pc[t] \notin {"widen_scope", "raise_budget"} => heap'[o].terms = heap[o].terms
         /\ pc[t] \notin {"record_served", "reconcile"}
              => heap'[o].pending_costs = heap[o].pending_costs
<1>. USE DEF TypeInv, TypeOK
<1>1. CASE RecordOpen(t) \/ CheckScope(t) \/ CheckBudget(t) \/ ApplyPolicy(t) \/ LookUpJudgement(t)
             \/ WeighJudgement(t) \/ LoadCalls(t) \/ UpstreamFails(t) \/ UpstreamReturns(t)
             \/ UpstreamReports(t) \/ RecordResult(t) \/ RecordAmendment(t)
  <2>1. heap' = heap
    BY <1>1 DEF RecordOpen, CheckScope, CheckBudget, ApplyPolicy, LookUpJudgement, WeighJudgement,
                LoadCalls, UpstreamFails, UpstreamReturns, UpstreamReports, RecordResult,
                RecordAmendment, Pass, Deny, Answer
  <2> QED BY <2>1
<1>2. heap[o] \in Session /\ (pc[t] # "idle" => loc[t].obj \in Objs)
  BY DEF Bound, Holds
<1>3. ASSUME NEW outcome, NEW tokens, JudgeReturns(t, outcome, tokens)
      PROVE  /\ heap'[o] = [heap[o] EXCEPT !.judge_cache = heap'[o].judge_cache]
             /\ pc[t] = "judging"
  BY <1>2, <1>3 DEF JudgeReturns, Step, At, Session
<1>4. ASSUME StoreCalls(t)
      PROVE  heap'[o] = [heap[o] EXCEPT !.calls_made = heap'[o].calls_made] /\ pc[t] = "store_calls"
  BY <1>2, <1>4 DEF StoreCalls, ChargedTo, Step, At, Session
<1>5. ASSUME NEW here, NEW there, StoreMeter(t, here, there)
      PROVE  /\ \E x : heap'[o] = [heap[o] EXCEPT !.consumed = x]
             /\ pc[t] = here
  <2>1. CASE o = loc[t].obj
    BY <1>5, <2>1 DEF StoreMeter, Step, At
  <2>2. CASE o # loc[t].obj
    <3>1. heap'[o] = [heap[o] EXCEPT !.consumed = heap[o].consumed] /\ pc[t] = here
      BY <1>2, <1>5, <2>2 DEF StoreMeter, Step, At, Session
    <3> QED BY <3>1
  <2> QED BY <2>1, <2>2
<1>6. ASSUME RecordServed(t) \/ ReconcileCost(t)
      PROVE  /\ \E x : heap'[o] = [heap[o] EXCEPT !.pending_costs = x]
             /\ pc[t] \in {"record_served", "reconcile"}
  <2>1. PICK u, x : /\ heap' = [heap EXCEPT ![u].pending_costs = x]
                    /\ pc[t] \in {"record_served", "reconcile"}
    BY <1>6 DEF RecordServed, ReconcileCost, Step, At
  <2>2. CASE o = u
    BY <2>1, <2>2
  <2>3. CASE o # u
    <3>1. heap'[o] = [heap[o] EXCEPT !.pending_costs = heap[o].pending_costs]
      BY <1>2, <2>1, <2>3 DEF Session
    <3> QED BY <2>1, <3>1
  <2> QED BY <2>1, <2>2, <2>3
<1>7. ASSUME WidenScope(t) \/ RaiseBudget(t)
      PROVE  /\ \E x : heap'[o] = [heap[o] EXCEPT !.terms = x]
             /\ pc[t] \in {"widen_scope", "raise_budget"}
  <2>1. PICK u, x : /\ heap' = [heap EXCEPT ![u].terms = x]
                    /\ pc[t] \in {"widen_scope", "raise_budget"}
    BY <1>7 DEF WidenScope, RaiseBudget, Step, At
  <2>2. CASE o = u
    BY <2>1, <2>2
  <2>3. CASE o # u
    <3>1. heap'[o] = [heap[o] EXCEPT !.terms = heap[o].terms]
      BY <1>2, <2>1, <2>3 DEF Session
    <3> QED BY <2>1, <3>1
  <2> QED BY <2>1, <2>2, <2>3
<1>8. ASSUME JudgeAmendment(t)
      PROVE  /\ pc[t] = "amend_judge"
             /\ heap'[o] = heap[o] \/ heap'[o] = Rebased(heap[o])
  BY <1>2, <1>8 DEF JudgeAmendment, Step, At
<1>9. ASSUME LoadMeter(t, "load_meter", "store_meter") \/ LoadMeter(t, "load_delta", "store_delta")
             \/ Pass(t, "load_meter", "record_served") \/ Pass(t, "load_delta", "record_result")
      PROVE  heap' = heap
  BY <1>9 DEF LoadMeter, Pass
<1>10. CASE \E outcome \in Outcomes, tokens \in JudgeTokens : JudgeReturns(t, outcome, tokens)
  BY <1>2, <1>3, <1>10 DEF Session
<1>11. CASE StoreCalls(t)
  BY <1>2, <1>4, <1>11 DEF Session
<1>12. CASE BillCall(t) \/ BillDelta(t)
  <2>1. CASE StoreMeter(t, "store_meter", "load_meter") \/ StoreMeter(t, "store_delta", "load_delta")
    BY <1>2, <1>5, <2>1 DEF Session
  <2> QED BY <1>9, <1>12, <2>1 DEF BillCall, BillDelta
<1>13. CASE RecordServed(t) \/ ReconcileCost(t)
  BY <1>2, <1>6, <1>13 DEF Session
<1>14. CASE WidenScope(t) \/ RaiseBudget(t)
  BY <1>2, <1>7, <1>14 DEF Session
<1>15. CASE JudgeAmendment(t)
  BY <1>2, <1>8, <1>15 DEF Session, Rebased
<1> QED BY <1>1, <1>10, <1>11, <1>12, <1>13, <1>14, <1>15 DEF Handle, Call, Amend

\* A request that is taken opens a Session in a free object, or changes none.
LEMMA BeginHeap ==
  ASSUME TypeInv, NEW t \in Threads, NEW sid \in Sids, Begin(t, sid)
  PROVE  \/ /\ heap' = heap /\ sessions' = sessions
            /\ pc'[t] \in {"idle", "scope", "widen_scope"}
         \/ \E c \in Commitments, o \in Objs :
              /\ ~heap[o].live
              /\ heap' = [heap EXCEPT ![o] = NewSession(c)]
              /\ sessions' = [sessions EXCEPT ![sid] = o]
              /\ pc'[t] = "record_open"
              /\ loc'[t] = [NoLocal EXCEPT !.sid = sid, !.obj = o, !.digest = OpenDigest(c)]
<1>. USE DEF TypeInv, TypeOK
<1>1. CASE \E c \in Commitments : OpenSession(t, sid, c)
  BY <1>1 DEF OpenSession, Goto
<1>2. CASE ~\E c \in Commitments : OpenSession(t, sid, c)
  BY <1>2 DEF Begin, RejectMalformed, RejectUnbound, RefuseSession, BindCall,
              RefuseUnsigned, BindAmendment, Bind, Answer, Goto, Accept, Idle
<1> QED BY <1>1, <1>2

\* In the serial deployment the other handlers are idle, before and after.
LEMMA OthersIdle ==
  ASSUME Serial, SerialInv, NEW t \in Threads, Handle(t) \/ \E sid \in Sids : Begin(t, sid)
  PROVE  \A u \in Threads \ {t} : pc[u] = "idle" /\ pc'[u] = "idle"
<1>1. CASE Handle(t)
  BY <1>1, HandleFrame DEF SerialInv, Alone, Idle
<1>2. CASE \E sid \in Sids : Begin(t, sid)
  BY <1>2, BeginFrame DEF SerialInv, Accept, Idle
<1> QED BY <1>1, <1>2

-----------------------------------------------------------------------------
(* Cached judgements *)

\* A judge that is out was asked under the digest its Session has.
Asked == \A t \in Threads : pc[t] = "judging" => loc[t].digest = heap[loc[t].obj].digest

FreshInv == CacheFresh /\ Asked

\* A handler that asks notes the digest.
LEMMA AsksUnder ==
  ASSUME TypeInv, NEW t \in Threads, Handle(t), pc'[t] = "judging"
  PROVE  loc'[t].obj = loc[t].obj /\ loc'[t].digest = heap[loc[t].obj].digest /\ heap' = heap
<1>. USE DEF TypeInv, TypeOK
<1>1. LookUpJudgement(t)
  BY DEF Handle, Call, Amend, RecordOpen, CheckScope, CheckBudget, ApplyPolicy, JudgeReturns,
         WeighJudgement, LoadCalls, StoreCalls, BillCall, LoadMeter, StoreMeter, RecordServed,
         UpstreamFails, UpstreamReturns, UpstreamReports, ReconcileCost, BillDelta, RecordResult,
         WidenScope, RaiseBudget, JudgeAmendment, RecordAmendment, Pass, Deny, Answer, Step, Goto
<1>2. /\ loc' = [loc EXCEPT ![t].base = CacheBase(heap[loc[t].obj]),
                            ![t].digest = heap[loc[t].obj].digest]
      /\ heap' = heap
  BY <1>1 DEF LookUpJudgement, Step, Goto
<1> QED BY <1>2 DEF Local

\* What is cached is the answer that was asked for under the present digest; what an
\* accepted amendment leaves is nothing.
LEMMA CachesFresh ==
  ASSUME SerialInv, FreshInv, NEW t \in Threads, Handle(t)
  PROVE  CacheFresh'
<1>. USE DEF SerialInv, TypeInv, TypeOK
<1>1. ASSUME NEW o \in Objs, NEW e \in heap'[o].judge_cache PROVE e.digest = heap'[o].digest
  <2>1. heap[o] \in Session /\ \A x \in heap[o].judge_cache : x.digest = heap[o].digest
    BY DEF FreshInv, CacheFresh
  <2>2. CASE pc[t] = "judging"
    <3>1. PICK outcome \in Outcomes, tokens \in JudgeTokens : JudgeReturns(t, outcome, tokens)
      BY <2>2 DEF Handle, Call, Amend, RecordOpen, CheckScope, CheckBudget, ApplyPolicy,
         LookUpJudgement, WeighJudgement, LoadCalls, StoreCalls, BillCall, LoadMeter, StoreMeter,
         RecordServed, UpstreamFails, UpstreamReturns, UpstreamReports, ReconcileCost, BillDelta,
         RecordResult, WidenScope, RaiseBudget, JudgeAmendment, RecordAmendment, Pass, Deny, Step, At
    <3> DEFINE l == loc[t]
               entry == [base |-> l.base, tool |-> l.tool, outcome |-> outcome, digest |-> l.digest]
    <3>2. heap' = [heap EXCEPT ![l.obj].judge_cache =
                     {x \in @ : x.base # l.base \/ x.tool # l.tool} \cup {entry}]
      BY <3>1 DEF JudgeReturns
    <3>3. heap'[o].digest = heap[o].digest
      BY <2>2, HeapFrame
    <3>4. e \in heap[o].judge_cache \/ (o = l.obj /\ e = entry)
      <4>1. CASE o = l.obj
        BY <2>1, <3>2, <4>1, <1>1 DEF Session
      <4>2. CASE o # l.obj
        BY <3>2, <4>2, <1>1
      <4> QED BY <4>1, <4>2
    <3>5. entry.digest = l.digest /\ l.digest = heap[l.obj].digest
      BY <2>2 DEF FreshInv, Asked
    <3> QED BY <2>1, <3>3, <3>4, <3>5
  <2>3. CASE pc[t] = "amend_judge"
    <3>1. JudgeAmendment(t)
      BY <2>3 DEF Handle, Call, Amend, RecordOpen, CheckScope, CheckBudget, ApplyPolicy,
         LookUpJudgement, JudgeReturns, WeighJudgement, LoadCalls, StoreCalls, BillCall, LoadMeter,
         StoreMeter, RecordServed, UpstreamFails, UpstreamReturns, UpstreamReports, ReconcileCost,
         BillDelta, RecordResult, WidenScope, RaiseBudget, RecordAmendment, Pass, Deny, Step, At
    <3>2. heap'[o] = heap[o] \/ heap'[o] = Rebased(heap[o])
      BY <3>1 DEF JudgeAmendment
    <3>3. Rebased(heap[o]).judge_cache = {}
      BY <2>1 DEF Rebased, CacheAfterAmendment, Session
    <3> QED BY <1>1, <2>1, <3>2, <3>3
  <2>4. CASE pc[t] \notin {"judging", "amend_judge"}
    BY <1>1, <2>1, <2>4, HeapFrame
  <2> QED BY <2>2, <2>3, <2>4
<1> QED BY <1>1 DEF CacheFresh

\* Every step of the serial deployment keeps cached judgements fresh.
LEMMA FreshStep ==
  ASSUME Serial, SerialInv, FreshInv, [Next]_vars
  PROVE  FreshInv'
<1>1. ASSUME NEW t \in Threads, Handle(t) PROVE FreshInv'
  <2>1. CacheFresh'
    BY <1>1, CachesFresh
  <2>2. Asked'
    BY <1>1, AsksUnder, OthersIdle DEF Asked, SerialInv
  <2> QED BY <2>1, <2>2 DEF FreshInv
<1>2. ASSUME NEW t \in Threads, NEW sid \in Sids, Begin(t, sid) PROVE FreshInv'
  <2>1. Asked'
    BY <1>2, BeginHeap, OthersIdle DEF Asked, SerialInv
  <2>2. CASE heap' = heap
    BY <2>1, <2>2 DEF FreshInv, CacheFresh
  <2>3. ASSUME NEW c \in Commitments, NEW o \in Objs, heap' = [heap EXCEPT ![o] = NewSession(c)]
        PROVE  CacheFresh'
    <3>1. NewSession(c).judge_cache = {}
      BY DEF NewSession, Free
    <3> QED BY <2>3, <3>1 DEF FreshInv, CacheFresh, SerialInv, TypeInv, TypeOK
  <2> QED BY <1>2, <2>1, <2>2, <2>3, BeginHeap DEF FreshInv, SerialInv
<1>3. ASSUME NEW o \in Objs, DeadlinePasses(o) PROVE FreshInv'
  <2>1. ASSUME NEW x \in Objs
        PROVE  heap'[x].digest = heap[x].digest /\ heap'[x].judge_cache = heap[x].judge_cache
    BY <1>3 DEF DeadlinePasses, SerialInv, TypeInv, TypeOK, Session
  <2>2. UNCHANGED <<pc, loc>>
    BY <1>3 DEF DeadlinePasses
  <2>3. \A t \in Threads : pc[t] = "judging" => loc[t].obj \in Objs
    BY DEF SerialInv, TypeInv, Bound, Holds
  <2> QED BY <2>1, <2>2, <2>3 DEF FreshInv, CacheFresh, Asked
<1>4. CASE UNCHANGED vars
  BY <1>4 DEF vars, FreshInv, CacheFresh, Asked
<1> QED BY <1>1, <1>2, <1>3, <1>4 DEF Next

\* In the serial deployment, a cached judgement was made under the digest in force, for
\* any commitments and amendments (amend, verify_call).
THEOREM CachesAreFresh ==
  ASSUME Serial
  PROVE  Spec => []CacheFresh
<1>1. Init => SerialInv /\ FreshInv
  <2>1. Init => CacheFresh /\ Asked
    BY DEF Init, Free, CacheFresh, Asked
  <2> QED BY <2>1, SerialInvInit DEF FreshInv
<1>2. SerialInv /\ FreshInv /\ [Next]_vars => (SerialInv /\ FreshInv)'
  BY SerialInvStep, FreshStep
<1>3. SerialInv /\ FreshInv => CacheFresh
  BY DEF FreshInv
<1> QED BY <1>1, <1>2, <1>3, PTL DEF Spec

-----------------------------------------------------------------------------
(* Digests in the log *)

\* The log has a record that announces digest d for session id sid.
Announces(record, sid, d) ==
  /\ record.kind \in {"session_init", "amendment"} /\ record.verdict = "served"
  /\ record.sid = sid /\ record.digest = d

Announced(sid, d) == \E j \in DOMAIN audit : Announces(audit[j], sid, d)

\* Handler t is about to log the record that announces the digest of Session o.
Announcing(t, sid, o) ==
  /\ loc[t].sid = sid
  /\ \/ pc[t] = "record_open" /\ loc[t].digest = heap[o].digest
     \/ pc[t] = "record_amend" /\ loc[t].outcome = "consistent" /\ loc[t].obj = o

\* A Session is in the table under one id, and its digest is announced or about to be.
Registered ==
  \A sid \in Sids : sessions[sid] # Null =>
    /\ heap[sessions[sid]].live
    /\ \A other \in Sids : sessions[other] = sessions[sid] => other = sid
    /\ \/ Announced(sid, heap[sessions[sid]].digest)
       \/ \E t \in Threads : Announcing(t, sid, sessions[sid])

DigestInv == Registered /\ AcceptedDigest

\* A record that is logged takes nothing away.
LEMMA AnnouncedStays ==
  ASSUME TypeInv, NEW r, audit' = audit \/ audit' = Append(audit, r), NEW sid, NEW d,
         Announced(sid, d)
  PROVE  Announced(sid, d)'
<1>1. PICK j \in DOMAIN audit : Announces(audit[j], sid, d)
  BY DEF Announced
<1>2. j \in DOMAIN audit' /\ audit'[j] = audit[j]
  BY <1>1 DEF TypeInv, TypeOK
<1> QED BY <1>1, <1>2 DEF Announced, Announces

\* The record that is logged announces what it says.
LEMMA AnnouncedNow ==
  ASSUME TypeInv, NEW r, audit' = Append(audit, r), NEW sid, NEW d, Announces(r, sid, d)
  PROVE  Announced(sid, d)'
<1>1. Len(audit) + 1 \in DOMAIN audit' /\ audit'[Len(audit) + 1] = r
  BY DEF TypeInv, TypeOK
<1> QED BY <1>1 DEF Announced, Announces

\* A served call that is logged under a digest that is announced keeps the log in order.
LEMMA AcceptedStays ==
  ASSUME TypeInv, AcceptedDigest, NEW r, audit' = audit \/ audit' = Append(audit, r),
         r.kind = "call" /\ r.verdict = "served" => Announced(r.sid, r.digest)
  PROVE  AcceptedDigest'
<1>1. CASE audit' = audit
  BY <1>1 DEF AcceptedDigest
<1>2. CASE audit' = Append(audit, r)
  <2>1. /\ Len(audit) \in Nat /\ DOMAIN audit = 1..Len(audit) /\ DOMAIN audit' = 1..(Len(audit) + 1)
        /\ audit'[Len(audit) + 1] = r /\ \A i \in 1..Len(audit) : audit'[i] = audit[i]
    BY <1>2 DEF TypeInv, TypeOK
  <2>2. ASSUME NEW i \in DOMAIN audit', audit'[i].kind = "call", audit'[i].verdict = "served"
        PROVE  \E j \in 1..(i - 1) : Announces(audit'[j], audit'[i].sid, audit'[i].digest)
    <3>1. CASE i \in 1..Len(audit)
      <4>1. PICK j \in 1..(i - 1) : Announces(audit[j], audit[i].sid, audit[i].digest)
        BY <2>1, <2>2, <3>1 DEF AcceptedDigest, Announces
      <4> QED BY <2>1, <3>1, <4>1
    <3>2. CASE i = Len(audit) + 1
      <4>1. PICK j \in DOMAIN audit : Announces(audit[j], r.sid, r.digest)
        BY <2>1, <2>2, <3>2 DEF Announced
      <4> QED BY <2>1, <3>2, <4>1
    <3> QED BY <2>1, <3>1, <3>2
  <2> QED BY <2>2 DEF AcceptedDigest, Announces
<1> QED BY <1>1, <1>2

\* What a busy handler logs: a served call at one step only, under its Session's digest;
\* the announcements where they are due; and a result for the call it has logged.
LEMMA Logged ==
  ASSUME TypeInv, NEW t \in Threads, Handle(t)
  PROVE  \E r :
           /\ audit' = audit \/ audit' = Append(audit, r)
           /\ r.kind = "call" /\ r.verdict = "served" => pc[t] = "record_served"
           /\ pc[t] = "record_served" =>
                /\ audit' = Append(audit, r) /\ r.kind = "call" /\ r.verdict = "served"
                /\ r.sid = loc[t].sid /\ r.obj = loc[t].obj
                /\ r.digest = heap[loc[t].obj].digest
           /\ r.kind = "result" =>
                pc[t] = "record_result" /\ r.ref = loc[t].ref /\ r.sid = loc[t].sid
           /\ pc[t] = "record_open" =>
                audit' = Append(audit, r) /\ Announces(r, loc[t].sid, loc[t].digest)
           /\ pc[t] = "record_amend" /\ loc[t].outcome = "consistent" =>
                audit' = Append(audit, r) /\ Announces(r, loc[t].sid, heap[loc[t].obj].digest)
<1> DEFINE quiet == Record("call", Null, Null, "denied", Null)
           loud == {"record_open", "record_amend", "record_served"}
<1>1. ASSUME audit' = audit, pc[t] \notin loud
      PROVE  \E r : audit' = audit /\ r.kind = "call" /\ r.verdict # "served"
  <2>1. quiet.kind = "call" /\ quiet.verdict # "served"
    BY DEF Record
  <2> QED BY <1>1, <2>1
<1>2. ASSUME NEW here, Deny(t, here), here \notin loud
      PROVE  \E r : /\ audit' = Append(audit, r) /\ r.kind = "call" /\ r.verdict # "served"
                    /\ pc[t] \notin loud
  BY <1>2 DEF Deny, Answer, At, CallRecord, Record
<1>3. CASE CheckScope(t) \/ CheckBudget(t) \/ ApplyPolicy(t)
  <2>1. CASE audit' = audit /\ pc[t] \notin loud
    BY <1>1, <2>1
  <2>2. CASE Deny(t, "scope") \/ Deny(t, "budget") \/ Deny(t, "policy")
    BY <1>2, <2>2
  <2> QED BY <1>3, <2>1, <2>2 DEF CheckScope, CheckBudget, ApplyPolicy, Pass, Step, At
<1>4. CASE WeighJudgement(t)
  <2>1. CASE audit' = audit /\ pc[t] \notin loud
    BY <1>1, <2>1
  <2>2. CASE Deny(t, "judged")
    BY <1>2, <2>2
  <2>3. CASE /\ At(t, "judged") /\ loc[t].outcome # "consistent"
             /\ Answer(t, CallRecord(loc[t], VerdictOn(loc[t].outcome)))
    <3> DEFINE r == CallRecord(loc[t], VerdictOn(loc[t].outcome))
    <3>1. VerdictOn(loc[t].outcome) # "served"
      BY <2>3 DEF VerdictOn, TypeInv, TypeOK, Local, Outcomes
    <3>2. r.verdict = VerdictOn(loc[t].outcome) /\ r.kind = "call"
      BY DEF CallRecord, Record
    <3>3. audit' = Append(audit, r) /\ pc[t] = "judged"
      BY <2>3 DEF At, Answer
    <3> HIDE DEF r
    <3> QED BY <3>1, <3>2, <3>3
  <2> QED BY <1>4, <2>1, <2>2, <2>3 DEF WeighJudgement, Pass, Step, At
<1>5. CASE RecordServed(t)
  <2> DEFINE r == CallRecord(loc[t], "served")
  <2>1. /\ r.kind = "call" /\ r.verdict = "served" /\ r.sid = loc[t].sid /\ r.obj = loc[t].obj
        /\ r.digest = heap[loc[t].obj].digest
    BY DEF CallRecord, Record
  <2>2. audit' = Append(audit, r) /\ pc[t] = "record_served"
    BY <1>5 DEF RecordServed, Step, At
  <2> HIDE DEF r
  <2> QED BY <2>1, <2>2
<1>6. CASE RecordOpen(t)
  <2> DEFINE r == Record("session_init", loc[t].sid, loc[t].obj, "served", loc[t].digest)
  <2>1. r.kind = "session_init" /\ Announces(r, loc[t].sid, loc[t].digest)
    BY DEF Record, Announces
  <2>2. audit' = Append(audit, r) /\ pc[t] = "record_open"
    BY <1>6 DEF RecordOpen, Answer, At
  <2> HIDE DEF r
  <2> QED BY <2>1, <2>2
<1>7. CASE RecordAmendment(t)
  <2> DEFINE r == Record("amendment", loc[t].sid, loc[t].obj, VerdictOn(loc[t].outcome),
                         heap[loc[t].obj].digest)
  <2>1. r.kind = "amendment"
        /\ (loc[t].outcome = "consistent" => Announces(r, loc[t].sid, heap[loc[t].obj].digest))
    BY DEF Record, Announces, VerdictOn
  <2>2. audit' = Append(audit, r) /\ pc[t] = "record_amend"
    BY <1>7 DEF RecordAmendment, Answer, At
  <2> HIDE DEF r
  <2> QED BY <2>1, <2>2
<1>8. CASE RecordResult(t)
  <2> DEFINE r == [Record("result", loc[t].sid, loc[t].obj, "served", Null)
                     EXCEPT !.ref = AnsweredRef(t), !.reported = loc[t].reported]
  <2>1. r.kind = "result" /\ r.ref = loc[t].ref /\ r.sid = loc[t].sid
    BY DEF Record, AnsweredRef
  <2>2. audit' = Append(audit, r) /\ pc[t] = "record_result"
    BY <1>8 DEF RecordResult, Answer, At
  <2> HIDE DEF r
  <2> QED BY <2>1, <2>2
<1>9. CASE \/ LookUpJudgement(t)
           \/ \E outcome \in Outcomes, tokens \in JudgeTokens : JudgeReturns(t, outcome, tokens)
           \/ LoadCalls(t) \/ StoreCalls(t) \/ BillCall(t) \/ UpstreamFails(t) \/ UpstreamReturns(t)
           \/ UpstreamReports(t) \/ ReconcileCost(t) \/ BillDelta(t) \/ WidenScope(t)
           \/ RaiseBudget(t) \/ JudgeAmendment(t)
  <2>1. audit' = audit /\ pc[t] \notin loud
    BY <1>9 DEF LookUpJudgement, JudgeReturns, LoadCalls, StoreCalls, BillCall, LoadMeter, StoreMeter,
       UpstreamFails, UpstreamReturns, UpstreamReports, ReconcileCost, BillDelta, WidenScope,
       RaiseBudget, JudgeAmendment, Pass, Step, At
  <2> QED BY <1>1, <2>1
<1> QED BY <1>3, <1>4, <1>5, <1>6, <1>7, <1>8, <1>9 DEF Handle, Call, Amend

\* No handler that takes a request logs a served record or a result.
LEMMA BeginLogs ==
  ASSUME NEW t \in Threads, NEW sid \in Sids, Begin(t, sid)
  PROVE  \E r : /\ audit' = audit \/ audit' = Append(audit, r)
                /\ r.verdict # "served" /\ r.kind # "result"
<1> DEFINE quiet == Record("call", Null, Null, "denied", Null)
<1>1. quiet.verdict # "served" /\ quiet.kind # "result"
  BY DEF Record
<1>2. CASE audit' = audit
  BY <1>1, <1>2
<1>3. ASSUME NEW kind \in {"session_init", "call", "amendment"}, NEW o, NEW d,
             NEW verdict \in {"denied", "clarify"},
             audit' = Append(audit, Record(kind, sid, o, verdict, d))
      PROVE  \E r : audit' = Append(audit, r) /\ r.verdict # "served" /\ r.kind # "result"
  <2>1. /\ Record(kind, sid, o, verdict, d).verdict # "served"
        /\ Record(kind, sid, o, verdict, d).kind # "result"
    BY DEF Record
  <2> QED BY <1>3, <2>1
<1> QED BY <1>2, <1>3 DEF Begin, RejectMalformed, RejectUnbound, OpenSession, RefuseSession, BindCall,
                          RefuseUnsigned, BindAmendment, Bind, Answer

\* While no handler is announcing, the digest of every Session in the table is announced.
LEMMA AllAnnounced ==
  ASSUME Registered, NEW sid \in Sids, sessions[sid] # Null,
         \A u \in Threads : ~Announcing(u, sid, sessions[sid])
  PROVE  Announced(sid, heap[sessions[sid]].digest)
  BY DEF Registered

\* What a busy handler logs and writes keeps every Session announced ...
LEMMA HandleRegistered ==
  ASSUME Serial, SerialInv, Registered, NEW t \in Threads, Handle(t)
  PROVE  Registered'
<1>. USE DEF SerialInv, TypeInv, TypeOK
<1>1. sessions' = sessions /\ ~Idle(t)
  BY HandleFrame
<1>2. \A u \in Threads \ {t} : pc[u] = "idle" /\ pc'[u] = "idle"
  BY OthersIdle
<1>3. PICK r : /\ audit' = audit \/ audit' = Append(audit, r)
               /\ pc[t] = "record_open" =>
                    audit' = Append(audit, r) /\ Announces(r, loc[t].sid, loc[t].digest)
               /\ pc[t] = "record_amend" /\ loc[t].outcome = "consistent" =>
                    audit' = Append(audit, r) /\ Announces(r, loc[t].sid, heap[loc[t].obj].digest)
  BY Logged
<1>4. loc[t].sid \in Sids /\ loc[t].obj \in Objs /\ sessions[loc[t].sid] = loc[t].obj
  BY <1>1 DEF Bound, Holds, Current, Idle
<1>5. ASSUME NEW sid \in Sids, NEW o \in Objs, o = sessions[sid]
      PROVE  Announced(sid, heap[o].digest)' \/ \E u \in Threads : Announcing(u, sid, o)'
  <2>0. o # Null
    BY NullAssumption
  <2>1. CASE \E u \in Threads : Announcing(u, sid, o)
    <3>1. Announcing(t, sid, o)
      BY <1>2, <2>1 DEF Announcing
    <3>2. heap'[o].digest = heap[o].digest
      BY <3>1, HeapFrame DEF Announcing
    <3>3. audit' = Append(audit, r) /\ Announces(r, sid, heap[o].digest)
      BY <1>3, <3>1 DEF Announcing
    <3> QED BY <3>2, <3>3, AnnouncedNow
  <2>2. CASE \A u \in Threads : ~Announcing(u, sid, o)
    <3>1. Announced(sid, heap[o].digest)
      BY <1>5, <2>0, <2>2, AllAnnounced
    <3>2. CASE heap'[o].digest = heap[o].digest
      BY <1>3, <3>1, <3>2, AnnouncedStays
    <3>3. CASE heap'[o].digest # heap[o].digest
      <4>1. pc[t] = "amend_judge"
        BY <3>3, HeapFrame
      <4>2. JudgeAmendment(t)
        BY <4>1 DEF Handle, Call, Amend, RecordOpen, CheckScope, CheckBudget, ApplyPolicy,
           LookUpJudgement, JudgeReturns, WeighJudgement, LoadCalls, StoreCalls, BillCall, LoadMeter,
           StoreMeter, RecordServed, UpstreamFails, UpstreamReturns, UpstreamReports, ReconcileCost,
           BillDelta, RecordResult, WidenScope, RaiseBudget, RecordAmendment, Pass, Deny, Step, At
      <4>3. /\ loc[t].obj = o /\ ScopeConsistent(heap[o].goal, heap[o].terms)
            /\ pc'[t] = "record_amend"
            /\ loc' = [loc EXCEPT ![t].outcome = "consistent"]
        BY <3>3, <4>2, <1>4 DEF JudgeAmendment, Step, Goto
      <4>4. loc'[t].outcome = "consistent" /\ loc'[t].obj = o /\ loc'[t].sid = loc[t].sid
        BY <4>3 DEF Local
      <4>5. loc[t].sid = sid
        BY <1>4, <1>5, <2>0, <4>3 DEF Registered
      <4> QED BY <4>3, <4>4, <4>5 DEF Announcing
    <3> QED BY <3>2, <3>3
  <2> QED BY <2>1, <2>2
<1>6. ASSUME NEW sid \in Sids, sessions'[sid] # Null
      PROVE  /\ heap'[sessions'[sid]].live
             /\ \A other \in Sids : sessions'[other] = sessions'[sid] => other = sid
             /\ \/ Announced(sid, heap[sessions[sid]].digest)'
                \/ \E u \in Threads : Announcing(u, sid, sessions[sid])'
  <2> DEFINE o == sessions[sid]
  <2>1. o \in Objs /\ sessions'[sid] = o
    BY <1>1, <1>6
  <2>2. heap'[o].live = heap[o].live
    BY <2>1, HeapFrame
  <2>3. Announced(sid, heap[o].digest)' \/ \E u \in Threads : Announcing(u, sid, o)'
    BY <1>1, <1>5, <2>1
  <2> QED BY <1>1, <1>6, <2>1, <2>2, <2>3 DEF Registered
<1> QED BY <1>6 DEF Registered

\* ... and a served call logged under the digest of one.
LEMMA HandleAccepted ==
  ASSUME Serial, SerialInv, DigestInv, NEW t \in Threads, Handle(t)
  PROVE  AcceptedDigest'
<1>1. PICK r : /\ audit' = audit \/ audit' = Append(audit, r)
               /\ r.kind = "call" /\ r.verdict = "served" =>
                    pc[t] = "record_served" /\ r.sid = loc[t].sid
                    /\ r.digest = heap[loc[t].obj].digest
  BY Logged DEF SerialInv
<1>2. ASSUME r.kind = "call", r.verdict = "served"
      PROVE  Announced(r.sid, r.digest)
  <2>1. loc[t].sid \in Sids /\ sessions[loc[t].sid] = loc[t].obj /\ loc[t].obj # Null
    BY <1>1, <1>2, NullAssumption DEF SerialInv, TypeInv, Bound, Holds, Current, Idle
  <2>2. \A u \in Threads : ~Announcing(u, loc[t].sid, loc[t].obj)
    BY <1>1, <1>2, OthersIdle DEF Announcing
  <2> QED BY <1>1, <1>2, <2>1, <2>2, AllAnnounced DEF DigestInv
<1> QED BY <1>1, <1>2, AcceptedStays DEF SerialInv, DigestInv

\* A request that is taken leaves the digests of the table announced, or announces.
LEMMA BeginDigests ==
  ASSUME Serial, SerialInv, DigestInv, NEW t \in Threads, NEW sid \in Sids, Begin(t, sid)
  PROVE  DigestInv'
<1>0. \/ heap' = heap /\ sessions' = sessions
      \/ \E c \in Commitments, o \in Objs :
           /\ ~heap[o].live
           /\ heap' = [heap EXCEPT ![o] = NewSession(c)]
           /\ sessions' = [sessions EXCEPT ![sid] = o]
           /\ pc'[t] = "record_open"
           /\ loc'[t] = [NoLocal EXCEPT !.sid = sid, !.obj = o, !.digest = OpenDigest(c)]
  BY BeginHeap DEF SerialInv
<1>. USE DEF SerialInv, TypeInv, TypeOK
<1>1. PICK r : (audit' = audit \/ audit' = Append(audit, r)) /\ r.verdict # "served"
  BY BeginLogs
<1>2. AcceptedDigest'
  BY <1>1, AcceptedStays DEF DigestInv
<1>3. \A u \in Threads : pc[u] = "idle"
  BY OthersIdle, BeginFrame DEF Accept, Idle
<1>4. ASSUME NEW other \in Sids, sessions[other] # Null
      PROVE  /\ Announced(other, heap[sessions[other]].digest)
             /\ heap[sessions[other]].live /\ sessions[other] \in Objs
             /\ \A x \in Sids : sessions[x] = sessions[other] => x = other
  BY <1>3, <1>4, AllAnnounced DEF DigestInv, Registered, Announcing
<1>5. CASE heap' = heap /\ sessions' = sessions
  <2>1. ASSUME NEW other \in Sids, sessions'[other] # Null
        PROVE  /\ heap'[sessions'[other]].live
               /\ \A x \in Sids : sessions'[x] = sessions'[other] => x = other
               /\ Announced(other, heap[sessions[other]].digest)'
    <3>1. Announced(other, heap[sessions[other]].digest)
      BY <1>4, <1>5, <2>1
    <3>2. Announced(other, heap[sessions[other]].digest)'
      BY <1>1, <1>5, <3>1, AnnouncedStays
    <3> QED BY <1>4, <1>5, <2>1, <3>2
  <2> QED BY <1>2, <2>1 DEF DigestInv, Registered
<1>6. ASSUME NEW c \in Commitments, NEW o \in Objs, ~heap[o].live,
             heap' = [heap EXCEPT ![o] = NewSession(c)],
             sessions' = [sessions EXCEPT ![sid] = o],
             pc'[t] = "record_open",
             loc'[t] = [NoLocal EXCEPT !.sid = sid, !.obj = o, !.digest = OpenDigest(c)]
      PROVE  Registered'
  <2>1. heap'[o].live /\ heap'[o].digest = OpenDigest(c)
    BY <1>6 DEF NewSession, Free, SessionDigest
  <2>2. Announcing(t, sid, o)'
    BY <1>6, <2>1 DEF Announcing, NoLocal
  <2>3. ASSUME NEW other \in Sids, sessions'[other] # Null
        PROVE  /\ heap'[sessions'[other]].live
               /\ \A x \in Sids : sessions'[x] = sessions'[other] => x = other
               /\ \/ Announced(other, heap[sessions[other]].digest)'
                  \/ \E u \in Threads : Announcing(u, other, sessions[other])'
    <3>1. CASE other = sid
      <4>1. sessions'[other] = o
        BY <1>6, <3>1
      <4>2. \A x \in Sids \ {sid} : sessions'[x] = sessions[x] /\ sessions[x] # o
        BY <1>4, <1>6, NullAssumption
      <4> QED BY <2>1, <2>2, <3>1, <4>1, <4>2
    <3>2. CASE other # sid
      <4>1. sessions'[other] = sessions[other] /\ sessions[other] # Null
        BY <1>6, <2>3, <3>2
      <4>2. sessions[other] \in Objs /\ sessions[other] # o
        BY <1>4, <1>6, <4>1
      <4>3. heap'[sessions[other]] = heap[sessions[other]]
        BY <1>6, <4>2
      <4>4. Announced(other, heap[sessions[other]].digest)
        BY <1>4, <4>1
      <4>5. Announced(other, heap[sessions[other]].digest)'
        BY <1>1, <4>1, <4>3, <4>4, AnnouncedStays
      <4>6. \A x \in Sids : sessions'[x] = sessions'[other] => x = other
        BY <1>4, <1>6, <4>1, <4>2
      <4> QED BY <1>4, <4>1, <4>3, <4>5, <4>6
    <3> QED BY <3>1, <3>2
  <2> QED BY <2>3 DEF Registered
<1>7. Registered'
  BY <1>5, <1>6, <1>0 DEF DigestInv
<1> QED BY <1>2, <1>7 DEF DigestInv

\* Every step of the serial deployment keeps the digests in order.
LEMMA DigestStep ==
  ASSUME Serial, SerialInv, DigestInv, [Next]_vars
  PROVE  DigestInv'
<1>1. ASSUME NEW t \in Threads, Handle(t) PROVE DigestInv'
  BY <1>1, HandleRegistered, HandleAccepted DEF DigestInv
<1>2. ASSUME NEW o \in Objs, DeadlinePasses(o) PROVE DigestInv'
  <2>1. ASSUME NEW x \in Objs
        PROVE  heap'[x].digest = heap[x].digest /\ heap'[x].live = heap[x].live
    BY <1>2 DEF DeadlinePasses, SerialInv, TypeInv, TypeOK, Session
  <2>2. UNCHANGED <<sessions, pc, loc, audit>>
    BY <1>2 DEF DeadlinePasses
  <2>3. \A sid \in Sids : sessions[sid] # Null => sessions[sid] \in Objs
    BY DEF SerialInv, TypeInv, TypeOK
  <2>4. AcceptedDigest'
    BY <2>2 DEF DigestInv, AcceptedDigest
  <2>5. Registered'
    <3>1. ASSUME NEW sid \in Sids, sessions[sid] # Null
          PROVE  /\ heap'[sessions[sid]].live
                 /\ Announced(sid, heap[sessions[sid]].digest)'
                    \/ \E t \in Threads : Announcing(t, sid, sessions[sid])'
      <4>1. heap'[sessions[sid]].live /\ heap'[sessions[sid]].digest = heap[sessions[sid]].digest
        BY <2>1, <2>3, <3>1 DEF DigestInv, Registered
      <4>2. \/ Announced(sid, heap[sessions[sid]].digest)
            \/ \E t \in Threads : Announcing(t, sid, sessions[sid])
        BY <3>1 DEF DigestInv, Registered
      <4> QED BY <2>2, <4>1, <4>2 DEF Announced, Announcing
    <3> QED BY <2>2, <3>1 DEF DigestInv, Registered
  <2> QED BY <2>4, <2>5 DEF DigestInv
<1>3. CASE UNCHANGED vars
  BY <1>3 DEF vars, DigestInv, Registered, Announced, Announcing, AcceptedDigest
<1> QED BY <1>1, <1>2, <1>3, BeginDigests DEF Next

\* In the serial deployment, a served call is logged under a digest that an earlier record
\* announced for its session id, for any commitments and amendments (open_session, amend,
\* verify_call).
THEOREM ServedUnderAnnounced ==
  ASSUME Serial
  PROVE  Spec => []AcceptedDigest
<1>1. Init => SerialInv /\ DigestInv
  <2>1. Init => Registered /\ AcceptedDigest
    BY DEF Init, Registered, AcceptedDigest
  <2> QED BY <2>1, SerialInvInit DEF DigestInv
<1>2. SerialInv /\ DigestInv /\ [Next]_vars => (SerialInv /\ DigestInv)'
  BY SerialInvStep, DigestStep
<1>3. SerialInv /\ DigestInv => AcceptedDigest
  BY DEF DigestInv
<1> QED BY <1>1, <1>2, <1>3, PTL DEF Spec

-----------------------------------------------------------------------------
(* The threaded deployment *)

\* The steps of other handlers, as every step of t leaves them.
Still(t) == \A u \in Threads \ {t} : pc'[u] = pc[u] /\ loc'[u] = loc[u]

-----------------------------------------------------------------------------
(* Results *)

\* From the record of the served call to the record of its result.
Answering == {"forward", "reconcile", "load_delta", "store_delta", "record_result"}

\* Record i is of a served call of session id sid.
ServedCall(i, sid) ==
  /\ i \in DOMAIN audit
  /\ audit[i].kind = "call" /\ audit[i].verdict = "served" /\ audit[i].sid = sid

\* Every call between those records has its own record, which no result names.
Awaited ==
  /\ \A t \in Threads : pc[t] \in Answering =>
       ServedCall(loc[t].ref, loc[t].sid) /\ ResultsOf(loc[t].ref) = {}
  /\ \A t, u \in Threads : pc[t] \in Answering /\ pc[u] \in Answering /\ loc[t].ref = loc[u].ref
       => t = u

PairInv == ResultsPaired /\ Awaited

\* What ResultsPaired says of one result record.
Paired(x) == ServedCall(audit[x].ref, audit[x].sid) /\ audit[x].ref < x
             /\ ResultsOf(audit[x].ref) = {x}

LEMMA PairedEach ==
  ASSUME TypeInv
  PROVE  ResultsPaired <=> \A x \in DOMAIN audit : audit[x].kind = "result" => Paired(x)
<1>1. \A x \in DOMAIN audit : \A i : i \in 1..(x - 1) <=> i \in DOMAIN audit /\ i < x
  BY DEF TypeInv, TypeOK
<1> QED BY <1>1 DEF ResultsPaired, Paired, ServedCall

\* A handler comes to await a result by logging its served call, and keeps the reference.
LEMMA AnsweringFrame ==
  ASSUME TypeInv, NEW t \in Threads, Handle(t), pc'[t] \in Answering
  PROVE  /\ loc'[t].sid = loc[t].sid
         /\ IF pc[t] = "record_served" THEN loc'[t].ref = Len(audit) + 1
            ELSE pc[t] \in Answering /\ loc'[t].ref = loc[t].ref /\ audit' = audit
<1>. USE DEF TypeInv, TypeOK, Answering
<1>1. CASE ReconcileCost(t)
  <2>1. loc'[t].sid = loc[t].sid
    BY <1>1 DEF ReconcileCost, Local
  <2>2. loc'[t].ref = loc[t].ref
    BY <1>1 DEF ReconcileCost, Local
  <2>3. pc[t] = "reconcile" /\ audit' = audit
    BY <1>1 DEF ReconcileCost, Step, At
  <2> QED BY <2>1, <2>2, <2>3
<1>2. CASE ~ReconcileCost(t)
  <2>1. loc'[t].sid = loc[t].sid
    BY <1>2, HandleLocals DEF Idle
  <2>2. CASE RecordServed(t)
    BY <2>1, <2>2 DEF RecordServed, Step, At, Local
  <2>3. CASE UpstreamReturns(t) \/ BillDelta(t)
    <3>1. CASE LoadMeter(t, "load_delta", "store_delta")
      BY <2>1, <3>1 DEF LoadMeter, Step, At, Local
    <3>2. CASE \/ StoreMeter(t, "store_delta", "load_delta") \/ Pass(t, "load_delta", "record_result")
               \/ UpstreamReturns(t)
      BY <2>1, <3>2 DEF StoreMeter, UpstreamReturns, Pass, Step, At
    <3> QED BY <2>3, <3>1, <3>2 DEF BillDelta
  <2>4. CASE UpstreamReports(t)
    BY <2>1, <2>4 DEF UpstreamReports, Step, At, Local
  <2>5. CASE \/ RecordOpen(t) \/ CheckScope(t) \/ CheckBudget(t) \/ ApplyPolicy(t)
             \/ LookUpJudgement(t) \/ WeighJudgement(t) \/ LoadCalls(t) \/ StoreCalls(t)
             \/ \E outcome \in Outcomes, tokens \in JudgeTokens : JudgeReturns(t, outcome, tokens)
             \/ BillCall(t) \/ UpstreamFails(t) \/ RecordResult(t) \/ Amend(t)
    BY <2>5 DEF RecordOpen, CheckScope, CheckBudget, ApplyPolicy, LookUpJudgement, WeighJudgement,
       LoadCalls, StoreCalls, JudgeReturns, BillCall, LoadMeter, StoreMeter, UpstreamFails,
       RecordResult, Amend, WidenScope, RaiseBudget, JudgeAmendment, RecordAmendment, Pass, Deny,
       Answer, Step, At, Goto
  <2> QED BY <1>2, <2>2, <2>3, <2>4, <2>5 DEF Handle, Call
<1> QED BY <1>1, <1>2

\* What the log says of record i when one more record is in it.
LEMMA LogGrows ==
  ASSUME TypeInv, NEW r, audit' = audit \/ audit' = Append(audit, r), NEW i
  PROVE  /\ \A sid : ServedCall(i, sid) => ServedCall(i, sid)'
         /\ ResultsOf(i) \subseteq ResultsOf(i)'
         /\ ResultsOf(i)' \subseteq ResultsOf(i) \cup {Len(audit) + 1}
         /\ audit' = audit => ResultsOf(i)' = ResultsOf(i)
         /\ ~(r.kind = "result" /\ r.ref = i) => ResultsOf(i)' = ResultsOf(i)
<1>1. CASE audit' = audit
  BY <1>1 DEF ServedCall, ResultsOf
<1>2. CASE audit' = Append(audit, r)
  <2>1. /\ Len(audit) \in Nat /\ DOMAIN audit = 1..Len(audit) /\ DOMAIN audit' = 1..(Len(audit) + 1)
        /\ audit'[Len(audit) + 1] = r /\ \A j \in 1..Len(audit) : audit'[j] = audit[j]
    BY <1>2 DEF TypeInv, TypeOK
  <2>2. \A sid : ServedCall(i, sid) => ServedCall(i, sid)'
    BY <2>1 DEF ServedCall
  <2>3. ResultsOf(i) \subseteq ResultsOf(i)'
    BY <2>1 DEF ResultsOf
  <2>4. ResultsOf(i)' \subseteq ResultsOf(i) \cup {Len(audit) + 1}
    BY <2>1 DEF ResultsOf
  <2>5. ~(r.kind = "result" /\ r.ref = i) => ResultsOf(i)' = ResultsOf(i)
    BY <2>1 DEF ResultsOf
  <2>6. audit' = audit => ResultsOf(i)' = ResultsOf(i)
    BY DEF ResultsOf
  <2> QED BY <2>2, <2>3, <2>4, <2>5, <2>6
<1> QED BY <1>1, <1>2

\* The results that were paired stay so.
LEMMA PairedStays ==
  ASSUME TypeInv, ResultsPaired, NEW r, audit' = audit \/ audit' = Append(audit, r),
         r.kind = "result" => ServedCall(r.ref, r.sid) /\ ResultsOf(r.ref) = {}
  PROVE  ResultsPaired'
<1>1. CASE audit' = audit
  BY <1>1 DEF ResultsPaired, ResultsOf
<1>2. CASE audit' = Append(audit, r)
  <2>1. /\ Len(audit) \in Nat /\ DOMAIN audit = 1..Len(audit) /\ DOMAIN audit' = 1..(Len(audit) + 1)
        /\ audit'[Len(audit) + 1] = r /\ \A j \in 1..Len(audit) : audit'[j] = audit[j]
    BY <1>2 DEF TypeInv, TypeOK
  <2>2. ASSUME NEW x \in DOMAIN audit', audit'[x].kind = "result"
        PROVE  Paired(x)'
    <3>1. CASE x = Len(audit) + 1
      <4>1. ServedCall(r.ref, r.sid) /\ ResultsOf(r.ref) = {}
        BY <2>1, <2>2, <3>1
      <4>2. r.ref < x /\ ServedCall(r.ref, r.sid)'
        BY <2>1, <3>1, <4>1 DEF ServedCall
      <4>3. ResultsOf(r.ref)' = {x}
        BY <2>1, <2>2, <3>1, <4>1 DEF ResultsOf
      <4> QED BY <2>1, <3>1, <4>2, <4>3 DEF Paired, ServedCall, ResultsOf
    <3>2. CASE x \in DOMAIN audit
      <4>1. PICK i, sid : i = audit[x].ref /\ sid = audit[x].sid
        OBVIOUS
      <4>2. ServedCall(i, sid) /\ i < x /\ ResultsOf(i) = {x}
        BY <2>1, <2>2, <3>2, <4>1, PairedEach DEF Paired
      <4>3. ~(r.kind = "result" /\ r.ref = i)
        BY <4>2
      <4>4. ServedCall(i, sid)' /\ ResultsOf(i)' = {x}
        BY <1>2, <4>2, <4>3, LogGrows
      <4>5. audit'[x].ref = i /\ audit'[x].sid = sid
        BY <2>1, <3>2, <4>1
      <4> QED BY <4>2, <4>4, <4>5 DEF Paired, ServedCall, ResultsOf
    <3> QED BY <2>1, <3>1, <3>2
  <2>3. ASSUME NEW x \in DOMAIN audit', audit'[x].kind = "result"
        PROVE  /\ audit'[x].ref \in 1..(x - 1)
               /\ audit'[audit'[x].ref].kind = "call" /\ audit'[audit'[x].ref].verdict = "served"
               /\ audit'[audit'[x].ref].sid = audit'[x].sid
               /\ ResultsOf(audit[x].ref)' = {x}
    <3>1. ServedCall(audit[x].ref, audit[x].sid)' /\ audit'[x].ref < x
          /\ ResultsOf(audit[x].ref)' = {x}
      BY <2>2, <2>3 DEF Paired
    <3>2. audit'[x].ref \in 1..(x - 1)
      <4>1. audit'[x].ref \in 1..(Len(audit) + 1) /\ x \in 1..(Len(audit) + 1)
        BY <2>1, <2>3, <3>1 DEF ServedCall
      <4> QED BY <2>1, <3>1, <4>1
    <3> QED BY <3>1, <3>2 DEF ServedCall
  <2> QED BY <2>3 DEF ResultsPaired
<1> QED BY <1>1, <1>2

\* A handler's step keeps results paired.
LEMMA PairHandle ==
  ASSUME TypeInv, PairInv, NEW t \in Threads, Handle(t)
  PROVE  PairInv'
<1>. USE DEF PairInv
<1>1. PICK r : /\ audit' = audit \/ audit' = Append(audit, r)
               /\ pc[t] = "record_served" =>
                    /\ audit' = Append(audit, r) /\ r.kind = "call" /\ r.verdict = "served"
                    /\ r.sid = loc[t].sid
               /\ r.kind = "result" =>
                    pc[t] = "record_result" /\ r.ref = loc[t].ref /\ r.sid = loc[t].sid
  BY Logged
<1>2. ResultsPaired'
  BY <1>1, PairedStays DEF Awaited, Answering
<1>3. Still(t)
  BY HandleFrame DEF Still
<1>4. \A i \in DOMAIN audit : i # Len(audit) + 1
  BY DEF TypeInv, TypeOK
<1>5. ASSUME NEW u \in Threads, pc'[u] \in Answering
      PROVE  ServedCall(loc[u].ref, loc[u].sid)' /\ ResultsOf(loc[u].ref)' = {}
  <2>1. CASE u # t
    <3>1. pc[u] \in Answering /\ loc'[u] = loc[u]
      BY <1>3, <1>5, <2>1 DEF Still
    <3>2. ~(r.kind = "result" /\ r.ref = loc[u].ref)
      BY <1>1, <2>1, <3>1 DEF Awaited, Answering
    <3>3. ServedCall(loc[u].ref, loc[u].sid) /\ ResultsOf(loc[u].ref) = {}
      BY <3>1 DEF Awaited
    <3> DEFINE i == loc[u].ref
               sid == loc[u].sid
    <3>4. loc'[u].ref = i /\ loc'[u].sid = sid
      BY <3>1
    <3>5. ServedCall(loc[u].ref, loc[u].sid)' /\ ResultsOf(loc[u].ref)' = {}
      BY <1>1, <3>1, <3>2, <3>3, LogGrows
    <3> QED BY <3>5
  <2>2. CASE u = t /\ pc[t] = "record_served"
    <3>1. loc'[t].sid = loc[t].sid /\ loc'[t].ref = Len(audit) + 1
      BY <1>5, <2>2, AnsweringFrame
    <3>2. /\ Len(audit) \in Nat /\ DOMAIN audit = 1..Len(audit) /\ DOMAIN audit' = 1..(Len(audit) + 1)
          /\ audit'[Len(audit) + 1] = r /\ \A j \in 1..Len(audit) : audit'[j] = audit[j]
      BY <1>1, <2>2 DEF TypeInv, TypeOK
    <3>3. ServedCall(loc[t].ref, loc[t].sid)'
      BY <1>1, <2>2, <3>1, <3>2 DEF ServedCall
    <3>4. \A j \in 1..Len(audit) : audit[j].kind = "result" => audit[j].ref \in 1..(j - 1)
      BY <3>2 DEF ResultsPaired
    <3>5. ResultsOf(loc[t].ref)' = {}
      BY <1>1, <2>2, <3>1, <3>2, <3>4 DEF ResultsOf
    <3> QED BY <2>2, <3>3, <3>5
  <2>3. CASE u = t /\ pc[t] # "record_served"
    <3>1. /\ pc[t] \in Answering /\ loc'[t].sid = loc[t].sid /\ loc'[t].ref = loc[t].ref
          /\ audit' = audit
      BY <1>5, <2>3, AnsweringFrame
    <3>2. ServedCall(loc[t].ref, loc[t].sid) /\ ResultsOf(loc[t].ref) = {}
      BY <3>1 DEF Awaited
    <3> QED BY <2>3, <3>1, <3>2 DEF ServedCall, ResultsOf
  <2> QED BY <2>1, <2>2, <2>3
<1>6. ASSUME NEW u \in Threads, NEW v \in Threads, pc'[u] \in Answering, pc'[v] \in Answering,
             loc'[u].ref = loc'[v].ref, v # t
      PROVE  u = v
  <2>1. pc[v] \in Answering /\ loc'[v].ref = loc[v].ref /\ loc[v].ref \in DOMAIN audit
    BY <1>3, <1>6 DEF Still, Awaited, ServedCall
  <2>2. CASE u # t
    BY <1>3, <1>6, <2>1, <2>2 DEF Still, Awaited
  <2>3. CASE u = t
    BY <1>4, <1>6, <2>1, <2>3, AnsweringFrame DEF Awaited
  <2> QED BY <2>2, <2>3
<1> QED BY <1>2, <1>5, <1>6 DEF Awaited

\* So does taking a request.
LEMMA PairBegin ==
  ASSUME TypeInv, PairInv, NEW t \in Threads, NEW sid \in Sids, Begin(t, sid)
  PROVE  PairInv'
<1>. USE DEF PairInv
<1>1. PICK r : (audit' = audit \/ audit' = Append(audit, r)) /\ r.kind # "result"
  BY BeginLogs
<1>2. ResultsPaired'
  BY <1>1, PairedStays
<1>3. pc'[t] \notin Answering
  BY BeginHeap DEF Answering
<1>4. Still(t)
  BY BeginFrame DEF Still
<1>5. ASSUME NEW u \in Threads, pc'[u] \in Answering
      PROVE  /\ pc[u] \in Answering /\ loc'[u].ref = loc[u].ref
             /\ ServedCall(loc[u].ref, loc[u].sid)' /\ ResultsOf(loc[u].ref)' = {}
  <2>1. pc[u] \in Answering /\ loc'[u] = loc[u]
    BY <1>3, <1>4, <1>5 DEF Still
  <2>2. ServedCall(loc[u].ref, loc[u].sid) /\ ResultsOf(loc[u].ref) = {}
    BY <2>1 DEF Awaited
  <2> QED BY <1>1, <2>1, <2>2, LogGrows
<1> QED BY <1>2, <1>5 DEF Awaited

\* Whatever the handlers do meanwhile, a result names the served call record of its own
\* session id, and no call has two (record_result after _verdict, log_result).
THEOREM ResultsNameTheirCalls == Spec => []ResultsPaired
<1>1. Init => PairInv
  BY DEF Init, PairInv, ResultsPaired, Awaited, Answering
<1>2. TypeInv /\ PairInv /\ [Next]_vars => PairInv'
  <2>1. ASSUME PairInv, UNCHANGED <<pc, loc, audit>> PROVE PairInv'
    BY <2>1 DEF PairInv, ResultsPaired, Awaited, ServedCall, ResultsOf
  <2> QED BY <2>1, PairHandle, PairBegin DEF Next, DeadlinePasses, vars
<1>3. PairInv => ResultsPaired
  BY DEF PairInv
<1> QED BY <1>1, <1>2, <1>3, InitTypes, StepTypes, PTL DEF Spec

-----------------------------------------------------------------------------
(* Charges *)

\* The handlers that have counted their call and not yet logged it.
Charging(o) ==
  {t \in Threads : loc[t].obj = o /\ pc[t] \in {"load_meter", "store_meter", "record_served"}}

\* The calls a Session has served, those about to be logged included.
Score(o) == Cardinality(ServedOf(o)) + Cardinality(Charging(o))

\* A handler that is about to write the count read one that had been earned.
Earned == \A t \in Threads : pc[t] = "store_calls" => loc[t].load <= Score(loc[t].obj)

ChargeInv == NeverOvercharged /\ Earned

\* Both are finite, so the score is a number.
LEMMA ScoreType ==
  ASSUME TypeInv, IsFiniteSet(Threads), NEW o
  PROVE  IsFiniteSet(ServedOf(o)) /\ IsFiniteSet(Charging(o)) /\ Score(o) \in Nat
<1>1. IsFiniteSet(1..Len(audit)) /\ DOMAIN audit = 1..Len(audit)
  BY FS_Interval DEF TypeInv, TypeOK
<1>2. IsFiniteSet(ServedOf(o))
  BY <1>1, FS_Subset DEF ServedOf, CallsOf
<1>3. IsFiniteSet(Charging(o))
  BY FS_Subset DEF Charging
<1> QED BY <1>2, <1>3, FS_CardinalityType DEF Score

\* So is the next one.
LEMMA ScoreTypeNext ==
  ASSUME TypeInv', IsFiniteSet(Threads), NEW o
  PROVE  IsFiniteSet(ServedOf(o)') /\ IsFiniteSet(Charging(o)') /\ Score(o)' \in Nat
<1>1. IsFiniteSet(1..Len(audit')) /\ DOMAIN audit' = 1..Len(audit')
  BY FS_Interval DEF TypeInv, TypeOK
<1>2. ServedOf(o)' \subseteq DOMAIN audit' /\ Charging(o)' \subseteq Threads
  BY DEF ServedOf, CallsOf, Charging
<1>3. IsFiniteSet(ServedOf(o)') /\ IsFiniteSet(Charging(o)')
  BY <1>1, <1>2, FS_Subset
<1>4. Cardinality(ServedOf(o)') \in Nat /\ Cardinality(Charging(o)') \in Nat
  BY <1>3, FS_CardinalityType
<1> QED BY <1>3, <1>4 DEF Score

\* It grows with what it counts.
LEMMA ScoreGrows ==
  ASSUME TypeInv, TypeInv', IsFiniteSet(Threads), NEW o,
         ServedOf(o) \subseteq ServedOf(o)', Charging(o) \subseteq Charging(o)'
  PROVE  Score(o)' >= Score(o)
<1>1. IsFiniteSet(ServedOf(o)') /\ IsFiniteSet(Charging(o)')
  BY ScoreTypeNext
<1>2. /\ Cardinality(ServedOf(o)) <= Cardinality(ServedOf(o)')
      /\ Cardinality(Charging(o)) <= Cardinality(Charging(o)')
  BY <1>1, FS_Subset
<1>3. /\ Cardinality(ServedOf(o)) \in Nat /\ Cardinality(ServedOf(o)') \in Nat
      /\ Cardinality(Charging(o)) \in Nat /\ Cardinality(Charging(o)') \in Nat
  BY <1>1, ScoreType, FS_CardinalityType
<1> QED BY <1>2, <1>3 DEF Score

\* A record more takes no served call away.
LEMMA ServedGrows ==
  ASSUME TypeInv, NEW r, audit' = audit \/ audit' = Append(audit, r), NEW o
  PROVE  ServedOf(o) \subseteq ServedOf(o)'
<1>1. CASE audit' = audit
  BY <1>1 DEF ServedOf, CallsOf
<1>2. CASE audit' = Append(audit, r)
  <2>1. /\ Len(audit) \in Nat /\ DOMAIN audit = 1..Len(audit) /\ DOMAIN audit' = 1..(Len(audit) + 1)
        /\ \A j \in 1..Len(audit) : audit'[j] = audit[j]
    BY <1>2 DEF TypeInv, TypeOK
  <2> QED BY <2>1 DEF ServedOf, CallsOf
<1> QED BY <1>1, <1>2

\* A handler stops charging by logging its served call.
LEMMA ChargingStays ==
  ASSUME TypeInv, NEW t \in Threads, Handle(t), NEW o, pc[t] # "record_served" \/ loc[t].obj # o
  PROVE  Charging(o) \subseteq Charging(o)'
<1>1. Still(t)
  BY HandleFrame DEF Still
<1>2. ASSUME t \in Charging(o)
      PROVE  t \in Charging(o)'
  <2>1. BillCall(t)
    BY <1>2 DEF Charging, Handle, Call, Amend, RecordOpen, CheckScope, CheckBudget, ApplyPolicy,
       LookUpJudgement, JudgeReturns, WeighJudgement, LoadCalls, StoreCalls, LoadMeter, StoreMeter,
       RecordServed, UpstreamFails, UpstreamReturns, UpstreamReports, ReconcileCost, BillDelta,
       RecordResult, WidenScope, RaiseBudget, JudgeAmendment, RecordAmendment, Pass, Deny, Step, At
  <2>2. pc'[t] \in {"load_meter", "store_meter", "record_served"}
    BY <2>1 DEF BillCall, LoadMeter, StoreMeter, Pass, Step, Goto, TypeInv, TypeOK
  <2>3. loc'[t].obj = loc[t].obj
    <3>1. ~ReconcileCost(t)
      BY <1>2 DEF Charging, ReconcileCost, Step, At
    <3> QED BY <2>2, <3>1, HandleLocals DEF Idle
  <2> QED BY <1>2, <2>2, <2>3 DEF Charging
<1> QED BY <1>1, <1>2 DEF Charging, Still

\* No step of a handler lowers a score, and counting a call raises it.
LEMMA ScoreHandle ==
  ASSUME TypeInv, TypeInv', IsFiniteSet(Threads), NEW t \in Threads, Handle(t), NEW o
  PROVE  /\ Score(o)' >= Score(o)
         /\ pc[t] = "store_calls" /\ loc[t].obj = o => Score(o)' >= Score(o) + 1
<1>. USE ScoreType
<1>1. PICK r : /\ audit' = audit \/ audit' = Append(audit, r)
               /\ pc[t] = "record_served" =>
                    /\ audit' = Append(audit, r) /\ r.kind = "call" /\ r.verdict = "served"
                    /\ r.obj = loc[t].obj
  BY Logged
<1>2. ServedOf(o) \subseteq ServedOf(o)'
  BY <1>1, ServedGrows
<1>3. Still(t)
  BY HandleFrame DEF Still
<1>4. CASE pc[t] = "record_served" /\ loc[t].obj = o
  <2> DEFINE n == Len(audit) + 1
  <2>1. RecordServed(t)
    BY <1>4 DEF Handle, Call, Amend, RecordOpen, CheckScope, CheckBudget, ApplyPolicy,
       LookUpJudgement, JudgeReturns, WeighJudgement, LoadCalls, StoreCalls, BillCall, LoadMeter,
       StoreMeter, UpstreamFails, UpstreamReturns, UpstreamReports, ReconcileCost, BillDelta,
       RecordResult, WidenScope, RaiseBudget, JudgeAmendment, RecordAmendment, Pass, Deny, Step, At
  <2>2. /\ Len(audit) \in Nat /\ DOMAIN audit = 1..Len(audit) /\ DOMAIN audit' = 1..(Len(audit) + 1)
        /\ audit'[n] = r /\ \A j \in 1..Len(audit) : audit'[j] = audit[j]
    BY <1>1, <1>4 DEF TypeInv, TypeOK
  <2>3. n \in ServedOf(o)' /\ n \notin ServedOf(o)
    BY <1>1, <1>4, <2>2 DEF ServedOf, CallsOf
  <2>4. Cardinality(ServedOf(o) \cup {n}) = Cardinality(ServedOf(o)) + 1
    BY <2>3, FS_AddElement
  <2>5. ServedOf(o)' = ServedOf(o) \cup {n}
    BY <1>2, <2>2, <2>3 DEF ServedOf, CallsOf
  <2>6. t \in Charging(o) /\ Charging(o)' = Charging(o) \ {t}
    <3>1. pc'[t] = "forward"
      BY <2>1 DEF RecordServed, Step, Goto, TypeInv, TypeOK
    <3> QED BY <1>3, <1>4, <3>1 DEF Charging, Still
  <2>7. Cardinality(Charging(o) \ {t}) = Cardinality(Charging(o)) - 1
    BY <2>6, FS_RemoveElement
  <2>8. /\ Cardinality(ServedOf(o)) \in Nat /\ Cardinality(Charging(o)) \in Nat
    BY FS_CardinalityType
  <2>9. Score(o)' = Cardinality(ServedOf(o)') + Cardinality(Charging(o)')
    BY DEF Score
  <2>10. Cardinality(ServedOf(o)') = Cardinality(ServedOf(o)) + 1
    BY <2>4, <2>5
  <2>11. Cardinality(Charging(o)') = Cardinality(Charging(o)) - 1
    BY <2>6, <2>7
  <2> QED BY <1>4, <2>8, <2>9, <2>10, <2>11 DEF Score
<1>5. CASE pc[t] = "store_calls" /\ loc[t].obj = o
  <2>1. StoreCalls(t)
    BY <1>5 DEF Handle, Call, Amend, RecordOpen, CheckScope, CheckBudget, ApplyPolicy,
       LookUpJudgement, JudgeReturns, WeighJudgement, LoadCalls, BillCall, LoadMeter, StoreMeter,
       RecordServed, UpstreamFails, UpstreamReturns, UpstreamReports, ReconcileCost, BillDelta,
       RecordResult, WidenScope, RaiseBudget, JudgeAmendment, RecordAmendment, Pass, Deny, Step, At
  <2>2. pc'[t] = "load_meter" /\ audit' = audit
    BY <2>1 DEF StoreCalls, Step, Goto, TypeInv, TypeOK
  <2>3. loc'[t].obj = o
    BY <1>5, <2>1, <2>2, HandleLocals DEF ReconcileCost, Step, At, Idle
  <2>4. t \notin Charging(o) /\ Charging(o)' = Charging(o) \cup {t}
    BY <1>3, <1>5, <2>2, <2>3 DEF Charging, Still
  <2>5. Cardinality(Charging(o)') = Cardinality(Charging(o)) + 1
    BY <2>4, FS_AddElement
  <2>6. ServedOf(o)' = ServedOf(o)
    BY <2>2 DEF ServedOf, CallsOf
  <2>7. /\ Cardinality(ServedOf(o)) \in Nat /\ Cardinality(Charging(o)) \in Nat
    BY FS_CardinalityType
  <2>8. Score(o)' = Cardinality(ServedOf(o)') + Cardinality(Charging(o)')
    BY DEF Score
  <2> QED BY <2>5, <2>6, <2>7, <2>8 DEF Score
<1>6. CASE /\ ~(pc[t] = "record_served" /\ loc[t].obj = o)
           /\ ~(pc[t] = "store_calls" /\ loc[t].obj = o)
  BY <1>2, <1>6, ChargingStays, ScoreGrows
<1> QED BY <1>4, <1>5, <1>6

\* The count that a handler writes was earned, and one more with its own call.
LEMMA ChargeHandle ==
  ASSUME TypeInv, TypeInv', IsFiniteSet(Threads), ChargeInv, NEW t \in Threads, Handle(t)
  PROVE  ChargeInv'
<1>1. \A o : Score(o) \in Nat
  BY ScoreType
<1>2. \A o : Score(o)' \in Int
  BY ScoreTypeNext
<1>3. ASSUME NEW o \in Objs PROVE heap'[o].calls_made <= Score(o)'
  <2>1. heap[o].calls_made \in Int /\ heap'[o].calls_made \in Int
    BY DEF TypeInv, TypeOK, Session
  <2>2. heap[o].calls_made <= Score(o)
    BY DEF ChargeInv, NeverOvercharged, Score, Charging
  <2>3. CASE heap'[o].calls_made = heap[o].calls_made
    BY <1>1, <1>2, <2>1, <2>2, <2>3, ScoreHandle
  <2>4. CASE heap'[o].calls_made # heap[o].calls_made
    <3>1. pc[t] = "store_calls"
      BY <2>4, HeapFrame
    <3>2. StoreCalls(t)
      BY <3>1 DEF Handle, Call, Amend, RecordOpen, CheckScope, CheckBudget, ApplyPolicy,
         LookUpJudgement, JudgeReturns, WeighJudgement, LoadCalls, BillCall, LoadMeter, StoreMeter,
         RecordServed, UpstreamFails, UpstreamReturns, UpstreamReports, ReconcileCost, BillDelta,
         RecordResult, WidenScope, RaiseBudget, JudgeAmendment, RecordAmendment, Pass, Deny, Step, At
    <3>3. heap' = [heap EXCEPT ![loc[t].obj].calls_made = loc[t].load + 1]
      BY <3>2 DEF StoreCalls, ChargedTo
    <3>4. loc[t].obj = o /\ heap'[o].calls_made = loc[t].load + 1
      BY <2>4, <3>3 DEF TypeInv, TypeOK, Session
    <3>5. loc[t].load <= Score(o) /\ loc[t].load \in Int
      BY <3>1, <3>4 DEF ChargeInv, Earned, TypeInv, TypeOK, Local
    <3>6. Score(o)' >= Score(o) + 1
      BY <3>1, <3>4, ScoreHandle
    <3> QED BY <1>1, <1>2, <3>4, <3>5, <3>6
  <2> QED BY <2>3, <2>4
<1>4. ASSUME NEW u \in Threads, pc'[u] = "store_calls"
      PROVE  loc'[u].load <= Score(loc[u].obj)'
  <2>1. CASE u # t
    <3>1. pc[u] = "store_calls" /\ loc'[u] = loc[u]
      BY <1>4, <2>1, HandleFrame
    <3>2. PICK o : o = loc[u].obj
      OBVIOUS
    <3>3. loc[u].load <= Score(o) /\ loc[u].load \in Int
      BY <3>1, <3>2 DEF ChargeInv, Earned, TypeInv, TypeOK, Local
    <3>4. Score(o)' >= Score(o)
      BY ScoreHandle
    <3>5. loc'[u].load <= Score(o)'
      BY <1>1, <1>2, <3>1, <3>3, <3>4
    <3>6. loc'[u].obj = o
      BY <3>1, <3>2
    <3> QED BY <3>5, <3>6 DEF Score, ServedOf, CallsOf, Charging
  <2>2. CASE u = t
    <3>1. LoadCalls(t)
      BY <1>4, <2>2 DEF Handle, Call, Amend, RecordOpen, CheckScope, CheckBudget, ApplyPolicy,
         LookUpJudgement, JudgeReturns, WeighJudgement, StoreCalls, BillCall, LoadMeter, StoreMeter,
         RecordServed, UpstreamFails, UpstreamReturns, UpstreamReports, ReconcileCost, BillDelta,
         RecordResult, WidenScope, RaiseBudget, JudgeAmendment, RecordAmendment, Pass, Deny, Answer,
         Step, Goto, TypeInv, TypeOK
    <3>2. PICK o \in Objs : o = loc[t].obj
      BY <3>1 DEF LoadCalls, Step, At, TypeInv, Bound, Holds
    <3>3. loc'[t].load = heap[o].calls_made /\ loc'[t].obj = o
      BY <3>1, <3>2 DEF LoadCalls, TypeInv, TypeOK, Local
    <3>4. heap[o].calls_made <= Score(o) /\ heap[o].calls_made \in Int
      BY DEF ChargeInv, NeverOvercharged, Score, Charging, TypeInv, TypeOK, Session
    <3>5. Score(o)' >= Score(o)
      BY ScoreHandle
    <3>6. loc'[t].load <= Score(o)'
      BY <1>1, <1>2, <3>3, <3>4, <3>5
    <3> QED BY <2>2, <3>3, <3>6 DEF Score, ServedOf, CallsOf, Charging
  <2> QED BY <2>1, <2>2
<1> QED BY <1>3, <1>4 DEF ChargeInv, NeverOvercharged, Earned, Score, Charging

\* A Session that is opened has no count, and taking a request charges none.
LEMMA ChargeBegin ==
  ASSUME TypeInv, TypeInv', IsFiniteSet(Threads), ChargeInv,
         NEW t \in Threads, NEW sid \in Sids, Begin(t, sid)
  PROVE  ChargeInv'
<1>1. PICK r : audit' = audit \/ audit' = Append(audit, r)
  BY BeginLogs
<1>2. Still(t) /\ pc[t] = "idle" /\ pc'[t] \in {"idle", "scope", "widen_scope", "record_open"}
  BY BeginFrame, BeginHeap DEF Still, Accept, Idle
<1>3. ASSUME NEW o PROVE Score(o)' >= Score(o) /\ Score(o) \in Nat
  <2>1. Charging(o) \subseteq Charging(o)'
    BY <1>2 DEF Charging, Still
  <2> QED BY <1>1, <2>1, ServedGrows, ScoreGrows, ScoreType
<1>4. \A o : Score(o)' \in Int
  BY ScoreTypeNext
<1>5. ASSUME NEW o \in Objs PROVE heap'[o].calls_made <= Score(o)'
  <2>1. heap'[o].calls_made \in {0, heap[o].calls_made}
    <3>1. ASSUME NEW c \in Commitments, NEW x, heap' = [heap EXCEPT ![x] = NewSession(c)]
          PROVE  heap'[o].calls_made \in {0, heap[o].calls_made}
      BY <3>1, NewSessionType DEF TypeInv, TypeOK
    <3>2. heap' = heap \/ \E c \in Commitments, x \in Objs : heap' = [heap EXCEPT ![x] = NewSession(c)]
      BY BeginHeap
    <3> QED BY <3>1, <3>2
  <2>2. heap[o].calls_made <= Score(o) /\ heap[o].calls_made \in Int
    BY DEF ChargeInv, NeverOvercharged, Score, Charging, TypeInv, TypeOK, Session
  <2> QED BY <1>3, <1>4, <2>1, <2>2
<1>6. ASSUME NEW u \in Threads, pc'[u] = "store_calls"
      PROVE  loc'[u].load <= Score(loc[u].obj)'
  <2>1. pc[u] = "store_calls" /\ loc'[u] = loc[u]
    BY <1>2, <1>6 DEF Still
  <2>2. PICK o : o = loc[u].obj
    OBVIOUS
  <2>3. loc[u].load <= Score(o) /\ loc[u].load \in Int
    BY <2>1, <2>2 DEF ChargeInv, Earned, TypeInv, TypeOK, Local
  <2>4. loc'[u].load <= Score(o)' /\ loc'[u].obj = o
    BY <1>3, <1>4, <2>1, <2>2, <2>3
  <2> QED BY <2>4 DEF Score, ServedOf, CallsOf, Charging
<1> QED BY <1>5, <1>6 DEF ChargeInv, NeverOvercharged, Earned, Score, Charging

\* With finitely many handlers, lost updates only lose charges: a Session is never counted
\* more calls than it has served or is about to log as served (calls_made += 1 in
\* verify_call).
THEOREM ChargesAreEarned ==
  ASSUME IsFiniteSet(Threads)
  PROVE  Spec => []NeverOvercharged
<1>1. Init => ChargeInv
  <2> SUFFICES ASSUME Init PROVE ChargeInv
    OBVIOUS
  <2>1. TypeInv
    BY InitTypes
  <2>2. ASSUME NEW o \in Objs PROVE heap[o].calls_made <= Score(o)
    <3>1. heap[o].calls_made = 0 /\ Score(o) \in Nat
      BY <2>1, ScoreType DEF Init, Free
    <3> QED BY <3>1
  <2> QED BY <2>2 DEF Init, ChargeInv, NeverOvercharged, Earned, Score, Charging
<1>2. TypeInv /\ TypeInv' /\ ChargeInv /\ [Next]_vars => ChargeInv'
  <2>1. ASSUME ChargeInv, TypeInv, NEW o \in Objs, DeadlinePasses(o) PROVE ChargeInv'
    <3>1. ASSUME NEW x \in Objs PROVE heap'[x].calls_made = heap[x].calls_made
      BY <2>1 DEF DeadlinePasses, TypeInv, TypeOK, Session
    <3>2. UNCHANGED <<pc, loc, audit>>
      BY <2>1 DEF DeadlinePasses
    <3> QED BY <2>1, <3>1, <3>2
            DEF ChargeInv, NeverOvercharged, Earned, Score, ServedOf, CallsOf, Charging
  <2>2. ASSUME ChargeInv, UNCHANGED vars PROVE ChargeInv'
    BY <2>2 DEF vars, ChargeInv, NeverOvercharged, Earned, Score, ServedOf, CallsOf, Charging
  <2> QED BY <2>1, <2>2, ChargeHandle, ChargeBegin DEF Next
<1>3. ChargeInv => NeverOvercharged
  BY DEF ChargeInv
<1> QED BY <1>1, <1>2, <1>3, InitTypes, StepTypes, PTL DEF Spec

=============================================================================
