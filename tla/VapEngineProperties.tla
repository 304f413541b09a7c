------------------------- MODULE VapEngineProperties -------------------------
(***************************************************************************)
(* What the verification engine promises.  The first group is checked of   *)
(* the serial deployment, the second of the threaded one; the third states *)
(* what the repository's documents say and the code does not keep.         *)
(***************************************************************************)
EXTENDS VapEngine, Functions

Quiet == \A t \in Threads : Idle(t)

\* The audit records (their references) of the calls asked of and served by a Session.
CallsOf(o) == {i \in DOMAIN audit : audit[i].kind = "call" /\ audit[i].obj = o}
ServedOf(o) == {i \in CallsOf(o) : audit[i].verdict = "served"}

ResultsOf(i) == {r \in DOMAIN audit : audit[r].kind = "result" /\ audit[r].ref = i}

\* What a served call owes on a meter: what its tool reported, else the estimate,
\* and the judge tokens spent on it.
ToolCost(i, m) ==
  LET reports == {r \in ResultsOf(i) : audit[r].reported[m] # None}
  IN  IF reports = {} THEN Amount(Estimate[audit[i].tool][m])
      ELSE audit[CHOOSE r \in reports : TRUE].reported[m]

JudgeCost(i, m) == IF m = TokensMeter THEN audit[i].jtok ELSE 0

-----------------------------------------------------------------------------
\* Every variable keeps its type.
TypeOK ==
  /\ sessions \in [Sids -> Objs \cup {Null}]
  /\ heap \in [Objs -> Session]
  /\ pc \in [Threads -> PCs]
  /\ loc \in [Threads -> Local]
  /\ audit \in Seq(Entry)
  /\ handled \in Nat

-----------------------------------------------------------------------------
(* The serial deployment *)

\* The calls counted against a Session never pass its max_calls, amendments and
\* re-opened sessions included (C3 in verify_call).
CallCeiling ==
  \A o \in Objs : heap[o].terms.max_calls # None
                    => heap[o].calls_made <= heap[o].terms.max_calls

\* A meter capped from the start can only be passed by the excess of one call's
\* report over its estimate: the next call is then denied (verify_call and
\* reconcile_cost, which bills after the fact without a check).
BoundedOvershoot ==
  \A o \in Objs : \A m \in heap[o].capped :
    LET spent == heap[o].consumed[m]
        limit == heap[o].terms.limits[m]
    IN  \/ spent <= limit
        \/ \E tool \in Tools : \E report \in Reports[tool] :
             report[m] # None /\ spent <= limit + report[m] - Amount(Estimate[tool][m])

\* Between requests the counters are the audit log's account of the session: one
\* call for each served record, and on each meter what the served calls owe.
\* Denials, upstream errors and reconciliations neither lose nor double a charge.
LedgerExact ==
  Quiet => \A o \in Objs :
    /\ heap[o].calls_made = Cardinality(ServedOf(o))
    /\ \A m \in Meters :
         heap[o].consumed[m] =
           SumFunction([i \in ServedOf(o) |-> ToolCost(i, m) + JudgeCost(i, m)])

\* A served call is logged under a digest that an earlier served record of the
\* same session id announced: the log shows which commitment it was bound to.
AcceptedDigest ==
  \A i \in DOMAIN audit : audit[i].kind = "call" /\ audit[i].verdict = "served" =>
    \E j \in 1..(i - 1) :
      /\ audit[j].kind \in {"session_init", "amendment"}
      /\ audit[j].verdict = "served"
      /\ audit[j].sid = audit[i].sid
      /\ audit[j].digest = audit[i].digest

\* A cached judgement was made under the commitment in force: none outlives an
\* accepted amendment (amend clears the cache, verify_call fills it).
CacheFresh ==
  \A o \in Objs : \A e \in heap[o].judge_cache : e.digest = heap[o].digest

\* The meters as they will be when the handler that bills a call or a report is through.
Owed(t, m) ==
  LET l == loc[t] IN
  IF m \in l.todo \/ (pc[t] \in {"store_meter", "store_delta"} /\ m = l.meter)
  THEN l.bill[m] ELSE 0

Bills(t, o) ==
  loc[t].obj = o /\ pc[t] \in {"load_meter", "store_meter", "load_delta", "store_delta"}

Spent(o, m) ==
  heap[o].consumed[m] + IF \E t \in Threads : Bills(t, o)
                        THEN Owed(CHOOSE t \in Threads : Bills(t, o), m) ELSE 0

\* A call is due from its charge to its result.
Unsettled == {"load_meter", "store_meter", "record_served", "forward", "reconcile"}

Account(o) ==
  [open |-> heap[o].live, made |-> heap[o].calls_made,
   spent |-> [m \in Meters |-> Spent(o, m)],
   max_calls |-> heap[o].terms.max_calls, limits |-> heap[o].terms.limits,
   tools |-> {tool \in Tools : InScope(heap[o].terms, tool)},
   due |-> {loc[t].tool : t \in {u \in Threads : loc[u].obj = o /\ pc[u] \in Unsettled}}]

Correction(tool, report) ==
  [m \in Meters |-> IF report[m] = None THEN 0 ELSE report[m] - Amount(Estimate[tool][m])]

Adm == INSTANCE Admission WITH
         Accounts <- Objs,
         Costs <- [tool \in Tools |-> {Cost(tool, n) : n \in JudgeTokens \cup {0}}],
         Corrections <- [tool \in Tools |-> {Correction(tool, r) : r \in Reports[tool]}],
         current <- sessions,
         account <- [o \in Objs |-> Account(o)]

\* The checks, the judge and the billing of a call, step by step, amount to admitting it
\* in one step within scope and budget and settling it at most once (verify_call,
\* reconcile_cost, amend).
AdmissionImplemented == Adm!Spec

-----------------------------------------------------------------------------
(* The threaded deployment *)

\* Lost updates may only lose charges: a Session is never counted more calls than
\* it has served and is about to log as served.
NeverOvercharged ==
  \A o \in Objs :
    heap[o].calls_made <=
      Cardinality(ServedOf(o))
        + Cardinality({t \in Threads :
            /\ loc[t].obj = o
            /\ pc[t] \in {"load_meter", "store_meter", "record_served"}})

\* Whatever else is logged meanwhile, a result record names the served call record
\* of its own session id, and no call has two.
ResultsPaired ==
  \A r \in DOMAIN audit : audit[r].kind = "result" =>
    LET i == audit[r].ref
    IN  /\ i \in 1..(r - 1)
        /\ audit[i].kind = "call" /\ audit[i].verdict = "served"
        /\ audit[i].sid = audit[r].sid
        /\ ResultsOf(i) = {r}

\* Every request that a handler takes is answered (or its connection dropped).
Answered == \A t \in Threads : ~Idle(t) ~> Idle(t)

-----------------------------------------------------------------------------
(* What the documents say *)

\* README: C3 denies when any meter, calls included, would be exceeded; so no
\* session is served more calls than its max_calls.
ServedWithinCeiling ==
  \A o \in Objs : heap[o].terms.max_calls # None
                    => Cardinality(ServedOf(o)) <= heap[o].terms.max_calls

\* README: when a signed amendment is not accepted the original commitment stands.
OriginalStands ==
  Quiet => \A o \in Objs :
    [heap[o].terms EXCEPT !.deadline = "none"] = [heap[o].agreed EXCEPT !.deadline = "none"]

\* README: judge token usage is billed to the tokens meter, of every call judged.
JudgeTokensBilled ==
  Quiet => \A o \in Objs :
    heap[o].consumed[TokensMeter] =
      SumFunction([i \in ServedOf(o) |-> ToolCost(i, TokensMeter)])
        + SumFunction([i \in CallsOf(o) |-> audit[i].jtok])

=============================================================================
