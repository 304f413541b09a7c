------------------------ MODULE VapEngineBudgetProofs ------------------------
(***************************************************************************)
(* Budgets and the ledger of the serial deployment, for every value of the *)
(* constants: a meter passes its ceiling by one call's report at most, the *)
(* engine implements Admission, and between requests the counters of a     *)
(* Session are what the audit log says.                                    *)
(***************************************************************************)
EXTENDS VapEngineProofs, SumProofs

(* What a handler's step is, and what it changes *)

\* The step a handler takes is the one it is at.
LEMMA Dispatch ==
  ASSUME NEW t \in Threads, Handle(t)
  PROVE  /\ pc[t] = "record_open" => RecordOpen(t)
         /\ pc[t] = "scope" => CheckScope(t)
         /\ pc[t] = "budget" => CheckBudget(t)
         /\ pc[t] = "policy" => ApplyPolicy(t)
         /\ pc[t] = "judge" => LookUpJudgement(t)
         /\ pc[t] = "judging" =>
              \E outcome \in Outcomes, tokens \in JudgeTokens : JudgeReturns(t, outcome, tokens)
         /\ pc[t] = "judged" => WeighJudgement(t)
         /\ pc[t] = "load_calls" => LoadCalls(t)
         /\ pc[t] = "store_calls" => StoreCalls(t)
         /\ pc[t] = "load_meter" =>
              \/ LoadMeter(t, "load_meter", "store_meter")
              \/ loc[t].todo = {} /\ Pass(t, "load_meter", "record_served")
         /\ pc[t] = "store_meter" => StoreMeter(t, "store_meter", "load_meter")
         /\ pc[t] = "record_served" => RecordServed(t)
         /\ pc[t] = "forward" => UpstreamFails(t) \/ UpstreamReturns(t) \/ UpstreamReports(t)
         /\ pc[t] = "reconcile" => ReconcileCost(t)
         /\ pc[t] = "load_delta" =>
              \/ LoadMeter(t, "load_delta", "store_delta")
              \/ loc[t].todo = {} /\ Pass(t, "load_delta", "record_result")
         /\ pc[t] = "store_delta" => StoreMeter(t, "store_delta", "load_delta")
         /\ pc[t] = "record_result" => RecordResult(t)
         /\ pc[t] = "widen_scope" => WidenScope(t)
         /\ pc[t] = "raise_budget" => RaiseBudget(t)
         /\ pc[t] = "amend_judge" => JudgeAmendment(t)
         /\ pc[t] = "record_amend" => RecordAmendment(t)
  BY DEF Handle, Call, Amend, RecordOpen, CheckScope, CheckBudget, ApplyPolicy, LookUpJudgement,
         JudgeReturns, WeighJudgement, LoadCalls, StoreCalls, BillCall, LoadMeter, StoreMeter,
         RecordServed, UpstreamFails, UpstreamReturns, UpstreamReports, ReconcileCost, BillDelta,
         RecordResult, WidenScope, RaiseBudget, JudgeAmendment, RecordAmendment, Pass, Deny, Answer,
         Step, At

\* Where a handler goes from a step.
LEMMA Routes ==
  ASSUME TypeInv, NEW t \in Threads, Handle(t)
  PROVE  /\ pc[t] \in {"record_open", "record_result", "record_amend"} => pc'[t] = "idle"
         /\ pc[t] = "scope" => pc'[t] \in {"idle", "budget"}
         /\ pc[t] = "budget" => pc'[t] \in {"idle", "policy"}
         /\ pc[t] = "policy" => pc'[t] \in {"idle", "judge", "load_calls"}
         /\ pc[t] = "judge" => pc'[t] \in {"judged", "judging"}
         /\ pc[t] = "judging" => pc'[t] = "judged"
         /\ pc[t] = "judged" => pc'[t] \in {"idle", "load_calls"}
         /\ pc[t] = "load_calls" => pc'[t] = "store_calls"
         /\ pc[t] = "forward" => pc'[t] \in {"idle", "reconcile", "record_result"}
         /\ pc[t] = "reconcile" => pc'[t] = "load_delta"
         /\ pc[t] = "load_delta" => pc'[t] \in {"store_delta", "record_result"}
         /\ pc[t] = "store_delta" => pc'[t] = "load_delta"
         /\ pc[t] = "widen_scope" => pc'[t] = "raise_budget"
         /\ pc[t] = "raise_budget" => pc'[t] = "amend_judge"
         /\ pc[t] = "amend_judge" => pc'[t] = "record_amend"
<1>1. \A there : Goto(t, there) => pc'[t] = there
  BY DEF Goto, TypeInv, TypeOK
<1>2. \A here, there : Step(t, here, there) \/ Pass(t, here, there) => pc'[t] = there
  BY <1>1 DEF Step, Pass
<1>3. \A r : Answer(t, r) => pc'[t] = "idle"
  BY <1>1 DEF Answer
<1>4. \A here : Deny(t, here) => pc'[t] = "idle"
  BY <1>3 DEF Deny
<1>5. pc[t] \in {"record_open", "record_result", "record_amend"} => pc'[t] = "idle"
  BY <1>3, Dispatch DEF RecordOpen, RecordResult, RecordAmendment
<1>6. /\ pc[t] = "scope" => pc'[t] \in {"idle", "budget"}
      /\ pc[t] = "budget" => pc'[t] \in {"idle", "policy"}
      /\ pc[t] = "policy" => pc'[t] \in {"idle", "judge", "load_calls"}
  BY <1>2, <1>4, Dispatch DEF CheckScope, CheckBudget, ApplyPolicy
<1>7. /\ pc[t] = "judge" => pc'[t] \in {"judged", "judging"}
      /\ pc[t] = "judging" => pc'[t] = "judged"
  BY <1>2, Dispatch DEF LookUpJudgement, JudgeReturns
<1>8. /\ pc[t] = "judged" => pc'[t] \in {"idle", "load_calls"}
      /\ pc[t] = "load_calls" => pc'[t] = "store_calls"
  BY <1>2, <1>3, <1>4, Dispatch DEF WeighJudgement, LoadCalls
<1>9. /\ pc[t] = "forward" => pc'[t] \in {"idle", "reconcile", "record_result"}
      /\ pc[t] = "reconcile" => pc'[t] = "load_delta"
  BY <1>2, Dispatch DEF UpstreamFails, UpstreamReturns, UpstreamReports, ReconcileCost
<1>10. /\ pc[t] = "load_delta" => pc'[t] \in {"store_delta", "record_result"}
       /\ pc[t] = "store_delta" => pc'[t] = "load_delta"
  BY <1>2, Dispatch DEF LoadMeter, StoreMeter
<1>11. /\ pc[t] = "widen_scope" => pc'[t] = "raise_budget"
       /\ pc[t] = "raise_budget" => pc'[t] = "amend_judge"
       /\ pc[t] = "amend_judge" => pc'[t] = "record_amend"
  BY <1>2, Dispatch DEF WidenScope, RaiseBudget, JudgeAmendment
<1> QED BY <1>5, <1>6, <1>7, <1>8, <1>9, <1>10, <1>11

\* The steps that leave a handler its locals as they are, or end it.
LEMMA QuietSteps ==
  ASSUME TypeInv, NEW t \in Threads, Handle(t),
         pc[t] \in {"record_open", "scope", "budget", "policy", "judged", "store_meter", "store_delta",
                    "record_result", "widen_scope", "raise_budget", "record_amend"},
         pc'[t] # "idle"
  PROVE  loc' = loc
<1>. USE Dispatch DEF TypeInv, TypeOK
<1>1. CASE pc[t] \in {"record_open", "scope", "budget", "policy"}
  BY <1>1 DEF RecordOpen, CheckScope, CheckBudget, ApplyPolicy, Pass, Deny, Answer, Goto
<1>2. CASE pc[t] \in {"judged", "record_result", "record_amend"}
  BY <1>2 DEF WeighJudgement, RecordResult, RecordAmendment, Pass, Deny, Answer, Goto
<1>3. CASE pc[t] \in {"store_meter", "store_delta", "widen_scope", "raise_budget"}
  BY <1>3 DEF StoreMeter, WidenScope, RaiseBudget
<1> QED BY <1>1, <1>2, <1>3

-----------------------------------------------------------------------------
(* The inductive invariant *)

\* The whole cost of a call fits.
Checked(s, tool, jtok) == \A m \in Meters : Fits(s, m, Cost(tool, jtok)[m])

\* What is still to be billed fits, and on the other meters what has been.
Room(s, bill, due) == \A m \in Meters : Fits(s, m, IF m \in due THEN bill[m] ELSE 0)

\* The meters a handler has yet to write.
Due(p, l) == l.todo \cup IF p \in {"store_meter", "store_delta"} THEN {l.meter} ELSE {}

Prelude == {"scope", "budget", "policy", "judge", "judging"}
Scoped == {"budget", "policy", "judge", "judging", "judged", "load_calls", "store_calls"}
Counted == {"policy", "judge", "judging", "judged", "load_calls", "store_calls"}

\* What a handler at step p with locals l knows of its Session s.
Known(p, l, s) ==
  /\ p \in Prelude => l.jtok = 0
  /\ p \in Prelude \cup {"judged", "load_calls", "store_calls"} => l.jtok \in JudgeTokens \cup {0}
  /\ p \in Scoped => InScope(s.terms, l.tool)
  /\ p \in Counted => CallsLeft(s)
  /\ p \in {"policy", "judge", "judging"} => Checked(s, l.tool, 0)
  /\ p = "judged" /\ l.jtok = 0 => Checked(s, l.tool, 0)
  /\ p \in {"load_calls", "store_calls"} => Checked(s, l.tool, l.jtok)
  /\ p \in {"load_meter", "store_meter"} => Room(s, l.bill, Due(p, l))
  /\ p \in {"record_served", "forward", "reconcile"} => Room(s, l.bill, {})
  /\ p = "store_calls" => l.load = s.calls_made
  /\ p \in {"store_meter", "store_delta"} => l.meter \notin l.todo /\ l.load = s.consumed[l.meter]
  /\ p \in {"forward", "reconcile"} => l.ref \in s.pending_costs
  /\ p \in {"reconcile", "load_delta", "store_delta"} => l.reported \in Reports[l.tool]
  /\ p \in {"load_delta", "store_delta"} =>
       \A m \in Due(p, l) :
         /\ l.reported[m] # None /\ l.bill[m] = l.reported[m] - Amount(Estimate[l.tool][m])
         /\ Fits(s, m, 0)

\* A meter that had a ceiling has one, and is within it or past it by one report.
Overshot(s, m) ==
  \E tool \in Tools : \E report \in Reports[tool] :
    /\ report[m] # None
    /\ s.consumed[m] <= s.terms.limits[m] + report[m] - Amount(Estimate[tool][m])

Bounded(s) ==
  \A m \in s.capped :
    s.terms.limits[m] # None /\ (s.consumed[m] <= s.terms.limits[m] \/ Overshot(s, m))

BudgetInv ==
  /\ \A o \in Objs : Bounded(heap[o])
  /\ \A t \in Threads : pc[t] # "idle" => Known(pc[t], loc[t], heap[loc[t].obj])

-----------------------------------------------------------------------------
(* Numbers *)

\* Costs, ceilings and reports are integers.
LEMMA CostType ==
  ASSUME NEW tool \in Tools, NEW m \in Meters
  PROVE  /\ \A jtok \in Nat : Cost(tool, jtok)[m] \in Nat
         /\ Amount(Estimate[tool][m]) \in Nat
         /\ \A report \in Reports[tool] : report[m] \in Optional
<1>1. Estimate[tool][m] \in Optional /\ Reports[tool] \subseteq Report
  BY ToolAssumption DEF Report
<1> QED BY <1>1 DEF Cost, Amount, Optional, None, Report

LEMMA SessionNumbers ==
  ASSUME NEW s \in Session, NEW m \in Meters
  PROVE  s.consumed[m] \in Int /\ s.terms.limits[m] \in Int /\ s.capped \subseteq Meters
  BY DEF Session, Terms, Optional, None

\* Ceilings that are only raised leave a Session within its bounds.
LEMMA BoundedKept ==
  ASSUME NEW s \in Session, NEW z \in Session, Bounded(s), z.capped = s.capped,
         z.consumed = s.consumed,
         \A m \in Meters : s.terms.limits[m] # None =>
           z.terms.limits[m] # None /\ z.terms.limits[m] >= s.terms.limits[m]
  PROVE  Bounded(z)
<1> SUFFICES ASSUME NEW m \in z.capped
             PROVE  /\ z.terms.limits[m] # None
                    /\ z.consumed[m] <= z.terms.limits[m] \/ Overshot(z, m)
  BY DEF Bounded
<1>1. m \in Meters /\ m \in s.capped
  BY SessionNumbers DEF Session
<1>2. /\ s.consumed[m] \in Int /\ s.terms.limits[m] \in Int /\ z.terms.limits[m] \in Int
  BY <1>1, SessionNumbers
<1>3. z.terms.limits[m] # None /\ z.terms.limits[m] >= s.terms.limits[m]
  BY <1>1 DEF Bounded
<1>4. CASE s.consumed[m] <= s.terms.limits[m]
  BY <1>2, <1>3, <1>4
<1>5. CASE Overshot(s, m)
  <2>1. PICK tool \in Tools : \E report \in Reports[tool] :
           /\ report[m] # None
           /\ s.consumed[m] <= s.terms.limits[m] + report[m] - Amount(Estimate[tool][m])
    BY <1>5 DEF Overshot
  <2>2. PICK report \in Reports[tool] :
           /\ report[m] # None
           /\ s.consumed[m] <= s.terms.limits[m] + report[m] - Amount(Estimate[tool][m])
    BY <2>1
  <2>3. report[m] \in Int /\ Amount(Estimate[tool][m]) \in Int
    BY <1>1, CostType DEF Optional, None
  <2>4. z.consumed[m] <= z.terms.limits[m] + report[m] - Amount(Estimate[tool][m])
    BY <1>2, <1>3, <2>2, <2>3
  <2> QED BY <1>3, <2>2, <2>4 DEF Overshot
<1> QED BY <1>1, <1>4, <1>5 DEF Bounded

-----------------------------------------------------------------------------
(* The bounds *)

\* A step that bills a meter leaves it within bounds; the others leave them alone or raise
\* a ceiling.
LEMMA HandleBounded ==
  ASSUME TypeInv, TypeInv', BudgetInv, NEW t \in Threads, Handle(t), NEW o \in Objs
  PROVE  Bounded(heap'[o])
<1>. USE DEF TypeInv, TypeOK
<1>1. heap[o] \in Session /\ heap'[o] \in Session /\ Bounded(heap[o])
  BY DEF BudgetInv
<1>2. pc[t] # "idle" /\ loc[t].obj \in Objs
  BY HandleFrame DEF Idle, Bound, Holds
<1>3. heap'[o].capped = heap[o].capped
  BY HeapFrame
<1>4. CASE pc[t] \in {"widen_scope", "raise_budget"}
  <2>1. heap'[o].consumed = heap[o].consumed
    BY <1>4, HeapFrame
  <2>2. CASE heap'[o].terms = heap[o].terms
    BY <1>1, <1>3, <2>1, <2>2, SessionNumbers, BoundedKept
  <2>3. CASE heap'[o].terms # heap[o].terms
    <3>1. WidenScope(t) \/ RaiseBudget(t)
      BY <1>4, Dispatch
    <3>2. loc[t].am \in Amendments /\ heap[o].terms \in Terms
      BY <1>4 DEF Bound, Holds, Session
    <3>3. heap'[o].terms \in {Widened(heap[o].terms, loc[t].am), Raised(heap[o].terms, loc[t].am)}
      BY <2>3, <3>1 DEF WidenScope, RaiseBudget, Session
    <3>4. \A m \in Meters : heap[o].terms.limits[m] # None =>
            heap'[o].terms.limits[m] # None /\ heap'[o].terms.limits[m] >= heap[o].terms.limits[m]
      BY <1>1, <3>2, <3>3, AmendedTerms, SessionNumbers
    <3> QED BY <1>1, <1>3, <2>1, <3>4, BoundedKept
  <2> QED BY <2>2, <2>3
<1>5. CASE pc[t] \in {"store_meter", "store_delta"}
  <2> DEFINE l == loc[t]
             s == heap[o]
             x == l.load + l.bill[l.meter]
  <2>1. CASE o # l.obj
    <3>1. heap'[o] = heap[o]
      BY <1>2, <1>5, <2>1, Dispatch DEF StoreMeter
    <3> QED BY <1>1, <3>1
  <2>2. CASE o = l.obj
    <3>1. Known(pc[t], l, s) /\ l.meter \in Meters /\ l.tool \in Tools
      BY <1>2, <1>5, <2>2 DEF BudgetInv, Bound, Holds, CallSteps
    <3>2. heap' = [heap EXCEPT ![l.obj].consumed[l.meter] = x]
      BY <1>5, Dispatch DEF StoreMeter
    <3>3. /\ heap'[o].terms = s.terms
          /\ heap'[o].consumed = [s.consumed EXCEPT ![l.meter] = x]
      BY <1>1, <2>2, <3>2 DEF Session
    <3>4. l.load = s.consumed[l.meter] /\ l.meter \in Due(pc[t], l)
      BY <1>5, <3>1 DEF Known, Due
    <3>5. /\ s.consumed[l.meter] \in Int /\ s.terms.limits[l.meter] \in Int /\ l.bill[l.meter] \in Int
      BY <1>1, <3>1, SessionNumbers DEF Local
    <3>6. ASSUME NEW m \in s.capped
          PROVE  /\ heap'[o].terms.limits[m] # None
                 /\ heap'[o].consumed[m] <= heap'[o].terms.limits[m] \/ Overshot(heap'[o], m)
      <4>1. s.terms.limits[m] # None /\ m \in Meters
        BY <1>1, <3>1, SessionNumbers DEF Bounded
      <4>2. CASE m # l.meter
        <5>1. heap'[o].consumed[m] = s.consumed[m] /\ heap'[o].terms = s.terms
          BY <3>3, <4>2
        <5> QED BY <1>1, <5>1 DEF Bounded, Overshot
      <4>3. CASE m = l.meter
        <5>1. heap'[o].consumed[m] = s.consumed[m] + l.bill[m]
          BY <1>1, <3>3, <3>4, <4>1, <4>3 DEF Session
        <5>2. CASE pc[t] = "store_meter"
          <6>1. Fits(s, m, l.bill[m])
            BY <3>1, <3>4, <4>3, <5>2 DEF Known, Room
          <6> QED BY <3>3, <4>1, <5>1, <6>1 DEF Fits
        <5>3. CASE pc[t] = "store_delta"
          <6>1. /\ l.reported \in Reports[l.tool] /\ l.reported[m] # None
                /\ l.bill[m] = l.reported[m] - Amount(Estimate[l.tool][m])
                /\ Fits(s, m, 0)
            BY <3>1, <3>4, <4>3, <5>3 DEF Known
          <6>2. s.consumed[m] <= s.terms.limits[m]
            BY <3>5, <4>1, <4>3, <6>1 DEF Fits
          <6>3. l.reported[m] \in Int /\ Amount(Estimate[l.tool][m]) \in Int
            BY <3>1, <4>1, <6>1, CostType DEF Optional, None
          <6>4. heap'[o].consumed[m]
                  <= heap'[o].terms.limits[m] + l.reported[m] - Amount(Estimate[l.tool][m])
            BY <3>3, <3>5, <4>3, <5>1, <6>1, <6>2, <6>3
          <6> QED BY <3>1, <3>3, <4>1, <6>1, <6>4 DEF Overshot
        <5> QED BY <1>5, <5>2, <5>3
      <4> QED BY <4>2, <4>3
    <3> QED BY <1>3, <3>6 DEF Bounded
  <2> QED BY <2>1, <2>2
<1>6. CASE pc[t] \notin {"widen_scope", "raise_budget", "store_meter", "store_delta"}
  <2>1. heap'[o].consumed = heap[o].consumed /\ heap'[o].terms = heap[o].terms
    BY <1>6, HeapFrame
  <2> QED BY <1>1, <1>3, <2>1, SessionNumbers, BoundedKept
<1> QED BY <1>4, <1>5, <1>6

-----------------------------------------------------------------------------
(* What the handler knows *)

\* Nothing is cost on the meters that are not billed.
LEMMA UnbilledFree ==
  ASSUME NEW tool \in Tools, NEW jtok \in Nat, NEW m \in Meters
  PROVE  m \notin Billed(tool, jtok) => Cost(tool, jtok)[m] = 0
<1>1. Estimate[tool][m] \in Optional
  BY ToolAssumption DEF Report
<1> QED BY <1>1 DEF Billed, Cost, Amount, Optional, None

\* From scope to judgement: each check passed is known of the Session.
LEMMA ChecksKnown ==
  ASSUME TypeInv, BudgetInv, NEW t \in Threads, Handle(t), pc'[t] # "idle",
         pc[t] \in {"scope", "budget", "policy", "judge", "judging", "judged"}
  PROVE  Known(pc'[t], loc'[t], heap'[loc'[t].obj])
<1>. USE DEF TypeInv, TypeOK
<1> DEFINE l == loc[t]
           s == heap[l.obj]
<1>1. /\ l \in Local /\ s \in Session /\ l.obj \in Objs /\ l.tool \in Tools
      /\ Known(pc[t], l, s)
  BY DEF BudgetInv, Bound, Holds, CallSteps
<1>. USE DEF Known, Prelude, Scoped, Counted
<1>2. CASE pc[t] = "scope"
  <2>1. pc'[t] = "budget" /\ loc' = loc /\ heap' = heap /\ InScope(s.terms, l.tool)
    BY <1>2, Dispatch DEF CheckScope, Pass, Deny, Answer, Step, Goto
  <2> QED BY <1>1, <1>2, <2>1
<1>3. CASE pc[t] = "budget"
  <2>1. pc'[t] = "policy" /\ loc' = loc /\ heap' = heap /\ WithinBudget(s, Cost(l.tool, 0))
    BY <1>3, Dispatch DEF CheckBudget, Pass, Deny, Answer, Step, Goto
  <2> QED BY <1>1, <1>3, <2>1 DEF WithinBudget, Checked
<1>4. CASE pc[t] = "policy"
  <2>1. pc'[t] \in {"judge", "load_calls"} /\ loc' = loc /\ heap' = heap
    BY <1>4, Dispatch DEF ApplyPolicy, Pass, Deny, Answer, Step, Goto
  <2> QED BY <1>1, <1>4, <2>1
<1>5. CASE pc[t] = "judge"
  <2>1. /\ pc'[t] \in {"judging", "judged"} /\ heap' = heap
        /\ loc'[t].obj = l.obj /\ loc'[t].tool = l.tool /\ loc'[t].jtok = l.jtok
    <3>1. LookUpJudgement(t)
      BY <1>5, Dispatch
    <3>2. heap' = heap /\ pc'[t] \in {"judging", "judged"}
      BY <3>1 DEF LookUpJudgement, Step, Goto
    <3>3. ASSUME NEW e, loc' = [loc EXCEPT ![t].outcome = e]
          PROVE  loc'[t].obj = l.obj /\ loc'[t].tool = l.tool /\ loc'[t].jtok = l.jtok
      BY <1>1, <3>3 DEF Local
    <3>4. ASSUME NEW b, NEW d, loc' = [loc EXCEPT ![t].base = b, ![t].digest = d]
          PROVE  loc'[t].obj = l.obj /\ loc'[t].tool = l.tool /\ loc'[t].jtok = l.jtok
      BY <1>1, <3>4 DEF Local
    <3>5. \/ \E e : loc' = [loc EXCEPT ![t].outcome = e]
          \/ \E b, d : loc' = [loc EXCEPT ![t].base = b, ![t].digest = d]
      BY <3>1 DEF LookUpJudgement
    <3> QED BY <3>2, <3>3, <3>4, <3>5
  <2> QED BY <1>1, <1>5, <2>1
<1>6. CASE pc[t] = "judging"
  <2>1. PICK outcome \in Outcomes, tokens \in JudgeTokens : JudgeReturns(t, outcome, tokens)
    BY <1>6, Dispatch
  <2>2. /\ pc'[t] = "judged"
        /\ loc'[t].obj = l.obj /\ loc'[t].tool = l.tool /\ loc'[t].jtok = tokens
    BY <1>1, <2>1 DEF JudgeReturns, Step, Goto, Local
  <2>3. /\ heap'[l.obj].terms = s.terms /\ heap'[l.obj].consumed = s.consumed
        /\ heap'[l.obj].calls_made = s.calls_made
    BY <1>1, <1>6, HeapFrame
  <2>4. Checked(s, l.tool, 0) => Checked(heap'[l.obj], l.tool, 0)
    BY <2>3 DEF Checked, Fits
  <2> QED BY <1>1, <1>6, <2>2, <2>3, <2>4 DEF CallsLeft
<1>7. CASE pc[t] = "judged"
  <2>1. /\ pc'[t] = "load_calls" /\ loc' = loc /\ heap' = heap
        /\ l.jtok = 0 \/ WithinBudget(s, Cost(l.tool, l.jtok))
    BY <1>7, Dispatch DEF WeighJudgement, Affordable, Pass, Deny, Answer, Step, Goto
  <2> QED BY <1>1, <1>7, <2>1 DEF WithinBudget, Checked
<1> QED BY <1>2, <1>3, <1>4, <1>5, <1>6, <1>7

\* From the count to the served record: what is billed fits, meter by meter.
LEMMA BillKnown ==
  ASSUME TypeInv, BudgetInv, NEW t \in Threads, Handle(t), pc'[t] # "idle",
         pc[t] \in {"load_calls", "store_calls", "load_meter", "store_meter", "record_served"}
  PROVE  Known(pc'[t], loc'[t], heap'[loc'[t].obj])
<1>. USE DEF TypeInv, TypeOK
<1> DEFINE l == loc[t]
           s == heap[l.obj]
           z == heap'[l.obj]
<1>1. /\ l \in Local /\ s \in Session /\ l.obj \in Objs /\ l.tool \in Tools
      /\ Known(pc[t], l, s)
  BY DEF BudgetInv, Bound, Holds, CallSteps
<1>2. z.terms = s.terms
  BY <1>1, HeapFrame
<1>. USE DEF Known, Prelude, Scoped, Counted
<1>3. CASE pc[t] = "load_calls"
  <2>1. /\ pc'[t] = "store_calls" /\ heap' = heap /\ loc'[t].load = s.calls_made
        /\ loc'[t].obj = l.obj /\ loc'[t].tool = l.tool /\ loc'[t].jtok = l.jtok
    BY <1>1, <1>3, Dispatch DEF LoadCalls, Step, Goto, Local
  <2> QED BY <1>1, <1>3, <2>1
<1>4. CASE pc[t] = "store_calls"
  <2>1. /\ pc'[t] = "load_meter" /\ loc'[t].obj = l.obj /\ loc'[t].bill = Cost(l.tool, l.jtok)
        /\ loc'[t].todo = Billed(l.tool, l.jtok)
    <3>1. StoreCalls(t)
      BY <1>4, Dispatch
    <3>2. loc' = [loc EXCEPT ![t].bill = Cost(l.tool, l.jtok), ![t].todo = Billed(l.tool, l.jtok)]
      BY <3>1 DEF StoreCalls
    <3>3. loc'[t].obj = l.obj
      BY <1>1, <3>2 DEF Local
    <3>4. loc'[t].bill = Cost(l.tool, l.jtok)
      BY <1>1, <3>2 DEF Local
    <3>5. loc'[t].todo = Billed(l.tool, l.jtok)
      BY <1>1, <3>2 DEF Local
    <3>6. pc'[t] = "load_meter"
      BY <3>1 DEF StoreCalls, Step, Goto
    <3> QED BY <3>3, <3>4, <3>5, <3>6
  <2>2. z.consumed = s.consumed
    BY <1>1, <1>4, HeapFrame
  <2>3. \A m \in Meters : Fits(z, m, IF m \in Billed(l.tool, l.jtok) THEN Cost(l.tool, l.jtok)[m] ELSE 0)
    BY <1>1, <1>2, <1>4, <2>2, UnbilledFree DEF Checked, Fits, Local
  <2>4. Room(z, Cost(l.tool, l.jtok), Billed(l.tool, l.jtok))
    BY <2>3 DEF Room
  <2>5. Due("load_meter", loc'[t]) = Billed(l.tool, l.jtok)
    BY <2>1 DEF Due
  <2> QED BY <2>1, <2>4, <2>5
<1>5. CASE pc[t] = "load_meter"
  <2>1. CASE LoadMeter(t, "load_meter", "store_meter")
    <3>1. PICK m \in l.todo :
            loc' = [loc EXCEPT ![t].meter = m, ![t].todo = @ \ {m}, ![t].load = s.consumed[m]]
      BY <2>1 DEF LoadMeter
    <3>2. pc'[t] = "store_meter" /\ heap' = heap
      BY <2>1 DEF LoadMeter, Step, Goto
    <3>3. /\ loc'[t].obj = l.obj /\ loc'[t].bill = l.bill /\ loc'[t].meter = m
          /\ loc'[t].todo = l.todo \ {m} /\ loc'[t].load = s.consumed[m]
      BY <1>1, <3>1 DEF Local
    <3>4. Due("store_meter", loc'[t]) = l.todo /\ Due("load_meter", l) = l.todo
      BY <3>1, <3>3 DEF Due
    <3> QED BY <1>1, <1>5, <3>2, <3>3, <3>4
  <2>2. CASE l.todo = {} /\ Pass(t, "load_meter", "record_served")
    <3>1. pc'[t] = "record_served" /\ heap' = heap /\ loc' = loc /\ Due("load_meter", l) = {}
      BY <2>2 DEF Pass, Step, Goto, Due
    <3> QED BY <1>1, <1>5, <3>1
  <2> QED BY <1>5, <2>1, <2>2, Dispatch
<1>6. CASE pc[t] = "store_meter"
  <2> DEFINE x == l.load + l.bill[l.meter]
  <2>1. /\ pc'[t] = "load_meter" /\ loc' = loc
        /\ heap' = [heap EXCEPT ![l.obj].consumed[l.meter] = x]
    BY <1>6, Dispatch DEF StoreMeter, Step, Goto
  <2>2. l.meter \in Meters
    BY <1>6 DEF Bound, Holds
  <2>3. z.consumed = [s.consumed EXCEPT ![l.meter] = x]
    BY <1>1, <2>1 DEF Session
  <2>4. ASSUME NEW m \in Meters
        PROVE  Fits(z, m, IF m \in l.todo THEN l.bill[m] ELSE 0)
    <3>1. Fits(s, m, IF m \in l.todo \cup {l.meter} THEN l.bill[m] ELSE 0)
      BY <1>1, <1>6 DEF Room, Due
    <3>2. s.consumed \in [Meters -> Int] /\ s.terms.limits[m] \in Int /\ l.bill[m] \in Int
      BY <1>1, SessionNumbers DEF Session, Local
    <3>3. CASE m = l.meter
      <4>1. z.consumed[m] = s.consumed[m] + l.bill[m] /\ m \notin l.todo
        BY <1>1, <1>6, <2>2, <2>3, <3>2, <3>3
      <4> QED BY <1>2, <3>1, <3>2, <3>3, <4>1 DEF Fits
    <3>4. CASE m # l.meter
      <4>1. z.consumed[m] = s.consumed[m]
        BY <2>3, <3>4
      <4> QED BY <1>2, <3>1, <3>4, <4>1 DEF Fits
    <3> QED BY <3>3, <3>4
  <2>5. Room(z, l.bill, Due("load_meter", l))
    BY <2>4 DEF Room, Due
  <2> QED BY <2>1, <2>5
<1>7. CASE pc[t] = "record_served"
  <2> DEFINE ref == Len(audit) + 1
  <2>1. /\ pc'[t] = "forward" /\ loc'[t].obj = l.obj /\ loc'[t].ref = ref /\ loc'[t].bill = l.bill
        /\ heap' = [heap EXCEPT ![l.obj].pending_costs = @ \cup {ref}]
    <3>1. RecordServed(t)
      BY <1>7, Dispatch
    <3>2. loc' = [loc EXCEPT ![t].ref = ref] /\ pc'[t] = "forward"
      BY <3>1 DEF RecordServed, Step, Goto
    <3>3. loc'[t].obj = l.obj /\ loc'[t].ref = ref /\ loc'[t].bill = l.bill
      BY <1>1, <3>2 DEF Local
    <3> QED BY <3>1, <3>2, <3>3 DEF RecordServed
  <2>2. z.pending_costs = s.pending_costs \cup {ref} /\ z.consumed = s.consumed
    BY <1>1, <2>1 DEF Session
  <2>3. Room(z, l.bill, {})
    BY <1>1, <1>2, <1>7, <2>2 DEF Room, Fits
  <2> QED BY <2>1, <2>2, <2>3
<1> QED BY <1>3, <1>4, <1>5, <1>6, <1>7

\* After the call: the report is corrected against the estimate of this very call.
LEMMA ReportKnown ==
  ASSUME SerialInv, BudgetInv, NEW t \in Threads, Handle(t), pc'[t] # "idle",
         pc[t] \in {"forward", "reconcile", "load_delta", "store_delta"}
  PROVE  Known(pc'[t], loc'[t], heap'[loc'[t].obj])
<1>. USE DEF SerialInv, TypeInv, TypeOK
<1> DEFINE l == loc[t]
           s == heap[l.obj]
           z == heap'[l.obj]
<1>1. /\ l \in Local /\ s \in Session /\ l.obj \in Objs /\ l.tool \in Tools
      /\ Known(pc[t], l, s) /\ sessions[l.sid] = l.obj
  BY DEF BudgetInv, Bound, Holds, CallSteps, Current, Idle
<1>2. z.terms = s.terms
  BY <1>1, HeapFrame
<1>. USE DEF Known, Prelude, Scoped, Counted
<1>3. CASE pc[t] = "forward"
  <2>1. CASE UpstreamReports(t)
    <3>1. PICK report \in Reports[l.tool] : loc' = [loc EXCEPT ![t].reported = report]
      BY <2>1 DEF UpstreamReports
    <3>2. /\ pc'[t] = "reconcile" /\ heap' = heap
      BY <2>1 DEF UpstreamReports, Step, Goto
    <3>3. /\ loc'[t].obj = l.obj /\ loc'[t].bill = l.bill /\ loc'[t].ref = l.ref
          /\ loc'[t].tool = l.tool /\ loc'[t].reported = report
      BY <1>1, <3>1 DEF Local
    <3> QED BY <1>1, <1>3, <3>2, <3>3
  <2>2. CASE UpstreamReturns(t)
    <3>1. pc'[t] = "record_result"
      BY <2>2 DEF UpstreamReturns, Pass, Step, Goto
    <3> QED BY <3>1
  <2>3. ~UpstreamFails(t)
    BY DEF UpstreamFails, Step, Goto
  <2> QED BY <1>3, <2>1, <2>2, <2>3, Dispatch
<1>4. CASE pc[t] = "reconcile"
  <2>1. ReconcileCost(t)
    BY <1>4, Dispatch
  <2>2. pc'[t] = "load_delta"
    BY <2>1 DEF ReconcileCost, Step, Goto
  <2>3. l.ref \in s.pending_costs /\ l.reported \in Reports[l.tool] /\ Room(s, l.bill, {})
    BY <1>1, <1>4
  <2>4. loc' = [loc EXCEPT ![t].obj = l.obj,
                           ![t].todo = {m \in Meters : l.reported[m] # None},
                           ![t].bill = [m \in Meters |-> l.reported[m] - Amount(Estimate[l.tool][m])]]
    BY <1>1, <2>1, <2>3 DEF ReconcileCost
  <2>5. loc'[t].obj = l.obj
    BY <1>1, <2>4 DEF Local
  <2>6. loc'[t].tool = l.tool
    BY <1>1, <2>4 DEF Local
  <2>7. loc'[t].reported = l.reported
    BY <1>1, <2>4 DEF Local
  <2>8. loc'[t].todo = {m \in Meters : l.reported[m] # None}
    BY <1>1, <2>4 DEF Local
  <2>9. loc'[t].bill = [m \in Meters |-> l.reported[m] - Amount(Estimate[l.tool][m])]
    BY <1>1, <2>4 DEF Local
  <2>10. z.consumed = s.consumed
    BY <1>1, <1>4, HeapFrame
  <2>11. \A m \in Meters : Fits(z, m, 0)
    BY <1>2, <2>3, <2>10 DEF Room, Fits
  <2>12. Due("load_delta", loc'[t]) = {m \in Meters : l.reported[m] # None}
    BY <2>8 DEF Due
  <2> QED BY <2>2, <2>3, <2>5, <2>6, <2>7, <2>9, <2>11, <2>12
<1>5. CASE pc[t] = "load_delta"
  <2>1. CASE LoadMeter(t, "load_delta", "store_delta")
    <3>1. PICK m \in l.todo :
            loc' = [loc EXCEPT ![t].meter = m, ![t].todo = @ \ {m}, ![t].load = s.consumed[m]]
      BY <2>1 DEF LoadMeter
    <3>2. pc'[t] = "store_delta" /\ heap' = heap
      BY <2>1 DEF LoadMeter, Step, Goto
    <3>3. /\ loc'[t].obj = l.obj /\ loc'[t].bill = l.bill /\ loc'[t].meter = m
          /\ loc'[t].todo = l.todo \ {m} /\ loc'[t].load = s.consumed[m]
          /\ loc'[t].reported = l.reported /\ loc'[t].tool = l.tool
      BY <1>1, <3>1 DEF Local
    <3>4. Due("store_delta", loc'[t]) = l.todo /\ Due("load_delta", l) = l.todo
      BY <3>1, <3>3 DEF Due
    <3> QED BY <1>1, <1>5, <3>2, <3>3, <3>4
  <2>2. CASE Pass(t, "load_delta", "record_result")
    <3>1. pc'[t] = "record_result"
      BY <2>2 DEF Pass, Step, Goto
    <3> QED BY <3>1
  <2> QED BY <1>5, <2>1, <2>2, Dispatch
<1>6. CASE pc[t] = "store_delta"
  <2> DEFINE x == l.load + l.bill[l.meter]
  <2>1. /\ pc'[t] = "load_delta" /\ loc' = loc
        /\ heap' = [heap EXCEPT ![l.obj].consumed[l.meter] = x]
    BY <1>6, Dispatch DEF StoreMeter, Step, Goto
  <2>2. z.consumed = [s.consumed EXCEPT ![l.meter] = x]
    BY <1>1, <2>1 DEF Session
  <2>3. /\ Due("load_delta", l) = l.todo /\ l.meter \notin l.todo
        /\ l.todo \subseteq Due("store_delta", l)
    BY <1>1, <1>6 DEF Due
  <2>4. ASSUME NEW m \in l.todo
        PROVE  Fits(z, m, 0)
    <3>1. Fits(s, m, 0)
      BY <1>1, <1>6, <2>3
    <3>2. z.consumed[m] = s.consumed[m]
      BY <1>1, <2>2, <2>3 DEF Local, Session
    <3> QED BY <1>2, <3>1, <3>2 DEF Fits
  <2> QED BY <1>1, <1>6, <2>1, <2>3, <2>4
<1> QED BY <1>3, <1>4, <1>5, <1>6

\* The steps of an amendment, and those that end a handler, leave it nothing to know.
LEMMA KnownStep ==
  ASSUME SerialInv, BudgetInv, NEW t \in Threads, Handle(t), pc'[t] # "idle"
  PROVE  Known(pc'[t], loc'[t], heap'[loc'[t].obj])
<1>. USE DEF SerialInv
<1>1. CASE pc[t] \in {"widen_scope", "raise_budget", "amend_judge", "record_amend",
                      "record_open", "record_result"}
  <2>1. pc'[t] \in {"raise_budget", "amend_judge", "record_amend"}
    BY <1>1, Dispatch DEF WidenScope, RaiseBudget, JudgeAmendment, RecordAmendment, RecordOpen,
       RecordResult, Answer, Step, Goto, TypeInv, TypeOK
  <2> QED BY <2>1 DEF Known, Prelude, Scoped, Counted
<1>2. CASE pc[t] \notin {"widen_scope", "raise_budget", "amend_judge", "record_amend",
                         "record_open", "record_result"}
  <2>1. pc[t] \in PCs \ {"idle"}
    BY HandleFrame DEF TypeInv, TypeOK, Idle
  <2> QED BY <1>2, <2>1, ChecksKnown, BillKnown, ReportKnown DEF PCs
<1> QED BY <1>1, <1>2

\* A request that is taken finds nothing spent, or a Session as it was.
LEMMA BudgetBegin ==
  ASSUME Serial, SerialInv, BudgetInv, NEW t \in Threads, NEW sid \in Sids, Begin(t, sid)
  PROVE  BudgetInv'
<1>1. \/ heap' = heap
      \/ \E c \in Commitments, o \in Objs : heap' = [heap EXCEPT ![o] = NewSession(c)]
  BY BeginHeap DEF SerialInv
<1>2. pc'[t] \in {"idle", "scope", "widen_scope", "record_open"}
  BY BeginHeap DEF SerialInv
<1>3. ASSUME pc'[t] = "scope"
      PROVE  loc'[t].jtok = 0
  <2>. USE DEF SerialInv, TypeInv, TypeOK
  <2>1. PICK tool \in Tools, high \in BOOLEAN : BindCall(t, sid, tool, high)
    BY <1>3 DEF Begin, RejectMalformed, RejectUnbound, OpenSession, RefuseSession, RefuseUnsigned,
                BindAmendment, Bind, Accept, Idle, Answer, Goto
  <2>2. loc'[t] = [[NoLocal EXCEPT !.tool = tool, !.high = high]
                     EXCEPT !.sid = sid, !.obj = sessions[sid]]
    BY <2>1 DEF BindCall, Bind
  <2> QED BY <2>2 DEF NoLocal
<1>4. ASSUME NEW u \in Threads, pc'[u] # "idle"
      PROVE  Known(pc'[u], loc'[u], heap'[loc'[u].obj])
  <2>1. u = t /\ pc'[u] \in {"scope", "widen_scope", "record_open"}
    BY <1>2, <1>4, OthersIdle
  <2> QED BY <1>3, <2>1 DEF Known, Prelude, Scoped, Counted
<1>5. ASSUME NEW c \in Commitments PROVE Bounded(NewSession(c))
  <2> DEFINE s == NewSession(c)
             terms == WithDefaults(c.terms)
  <2>1. s \in Session
    BY <1>5, NewSessionType
  <2>2. s.capped = {m \in Meters : terms.limits[m] # None} /\ s.terms = terms
        /\ s.consumed = [m \in Meters |-> 0]
    BY DEF NewSession, Free
  <2>3. \A m \in Meters : s.terms.limits[m] \in Optional
    BY <2>1 DEF Session, Terms
  <2> QED BY <2>2, <2>3 DEF Bounded, Optional, None
<1>6. ASSUME NEW o \in Objs PROVE Bounded(heap'[o])
  BY <1>1, <1>5 DEF BudgetInv, SerialInv, TypeInv, TypeOK
<1> QED BY <1>4, <1>6 DEF BudgetInv

\* A deadline that passes changes no ceiling and no scope.
LEMMA BudgetDeadline ==
  ASSUME TypeInv, TypeInv', BudgetInv, NEW o \in Objs, DeadlinePasses(o)
  PROVE  BudgetInv'
<1>1. ASSUME NEW x \in Objs
      PROVE  /\ heap'[x].capped = heap[x].capped /\ heap'[x].consumed = heap[x].consumed
             /\ heap'[x].calls_made = heap[x].calls_made
             /\ heap'[x].pending_costs = heap[x].pending_costs
             /\ heap'[x].terms.limits = heap[x].terms.limits
             /\ heap'[x].terms.max_calls = heap[x].terms.max_calls
             /\ heap'[x].terms.tools_allow = heap[x].terms.tools_allow
             /\ heap'[x].terms.tools_deny = heap[x].terms.tools_deny
  <2>1. heap[x] \in Session /\ heap[x].terms \in Terms
    BY DEF TypeInv, TypeOK, Session
  <2>2. CASE x = o
    <3>1. heap'[x] = [heap[x] EXCEPT !.terms = [heap[x].terms EXCEPT !.deadline = "past"]]
      BY <2>2 DEF DeadlinePasses, TypeInv, TypeOK
    <3>2. heap'[x].terms = [heap[x].terms EXCEPT !.deadline = "past"]
      BY <2>1, <3>1 DEF Session
    <3> QED BY <2>1, <3>1, <3>2 DEF Session, Terms
  <2>3. CASE x # o
    BY <2>3 DEF DeadlinePasses, TypeInv, TypeOK
  <2> QED BY <2>2, <2>3
<1>2. ASSUME NEW x \in Objs PROVE Bounded(heap'[x])
  <2>1. heap[x] \in Session /\ heap'[x] \in Session /\ Bounded(heap[x])
    BY DEF TypeInv, TypeOK, BudgetInv
  <2> QED BY <1>1, <2>1 DEF Bounded, Overshot
<1>3. ASSUME NEW t \in Threads, pc'[t] # "idle"
      PROVE  Known(pc'[t], loc'[t], heap'[loc'[t].obj])
  <2> DEFINE l == loc[t]
  <2>1. pc'[t] = pc[t] /\ loc'[t] = l
    BY DEF DeadlinePasses
  <2>2. l.obj \in Objs /\ Known(pc[t], l, heap[l.obj])
    BY <1>3, <2>1 DEF BudgetInv, TypeInv, Bound, Holds
  <2>3. \A n : \A m \in Meters : Fits(heap[l.obj], m, n) <=> Fits(heap'[l.obj], m, n)
    BY <1>1, <2>2 DEF Fits
  <2>4. \A tool : InScope(heap[l.obj].terms, tool) <=> InScope(heap'[l.obj].terms, tool)
    BY <1>1, <2>2 DEF InScope
  <2>5. CallsLeft(heap[l.obj]) <=> CallsLeft(heap'[l.obj])
    BY <1>1, <2>2 DEF CallsLeft
  <2>6. /\ \A tool, n : Checked(heap[l.obj], tool, n) <=> Checked(heap'[l.obj], tool, n)
        /\ \A bill, due : Room(heap[l.obj], bill, due) <=> Room(heap'[l.obj], bill, due)
    BY <2>3 DEF Checked, Room
  <2>7. pc[t] \in {"load_delta", "store_delta"} => Due(pc[t], l) \subseteq Meters
    BY DEF TypeInv, TypeOK, Local, Bound, Holds, Due
  <2> QED BY <1>1, <2>1, <2>2, <2>3, <2>4, <2>5, <2>6, <2>7 DEF Known
<1> QED BY <1>2, <1>3 DEF BudgetInv

\* Every step of the serial deployment keeps what is known, and the bounds.
LEMMA BudgetStep ==
  ASSUME Serial, SerialInv, SerialInv', BudgetInv, [Next]_vars
  PROVE  BudgetInv'
<1>1. ASSUME NEW t \in Threads, Handle(t) PROVE BudgetInv'
  <2>1. \A o \in Objs : Bounded(heap'[o])
    BY <1>1, HandleBounded DEF SerialInv
  <2>2. ASSUME NEW u \in Threads, pc'[u] # "idle"
        PROVE  Known(pc'[u], loc'[u], heap'[loc'[u].obj])
    <3>1. u = t
      BY <1>1, <2>2, OthersIdle
    <3> QED BY <1>1, <2>2, <3>1, KnownStep
  <2> QED BY <2>1, <2>2 DEF BudgetInv
<1>2. ASSUME NEW o \in Objs, DeadlinePasses(o) PROVE BudgetInv'
  BY <1>2, BudgetDeadline DEF SerialInv
<1>3. CASE UNCHANGED vars
  BY <1>3 DEF vars, BudgetInv
<1> QED BY <1>1, <1>2, <1>3, BudgetBegin DEF Next

\* Before the first request nothing is capped, and nothing known.
LEMMA BudgetInit == Init => BudgetInv
  BY DEF Init, BudgetInv, Bounded, Free

\* In the serial deployment a meter capped from the start is within its ceiling, or past it
\* by no more than one report exceeds its estimate, for any tools, costs and amendments
\* (_check_budget before the charge, reconcile_cost after it).
THEOREM OvershootBounded ==
  ASSUME Serial
  PROVE  Spec => []BoundedOvershoot
<1>1. Init => SerialInv /\ BudgetInv
  BY SerialInvInit, BudgetInit
<1>2. SerialInv /\ BudgetInv /\ [Next]_vars => (SerialInv /\ BudgetInv)'
  BY SerialInvStep, BudgetStep
<1>3. BudgetInv => BoundedOvershoot
  BY DEF BudgetInv, Bounded, Overshot, BoundedOvershoot
<1> QED BY <1>1, <1>2, <1>3, PTL DEF Spec

-----------------------------------------------------------------------------
(* Reading the accounts *)

Billing == {"load_meter", "store_meter", "load_delta", "store_delta"}

\* What a handler has yet to bill on a meter.
Pending(p, l, m) == IF p \in Billing /\ m \in Due(p, l) THEN l.bill[m] ELSE 0

\* The calls of a Session that are due.
Dues(o) == {loc[t].tool : t \in {u \in Threads : loc[u].obj = o /\ pc[u] \in Unsettled}}

\* What the one busy handler, if it is on Session o, adds to what the Session says.
Readable ==
  \A o \in Objs :
    /\ \A t \in Threads : pc[t] # "idle" /\ loc[t].obj = o =>
         /\ Dues(o) = IF pc[t] \in Unsettled THEN {loc[t].tool} ELSE {}
         /\ \A m \in Meters : Spent(o, m) = heap[o].consumed[m] + Pending(pc[t], loc[t], m)
    /\ (\A t \in Threads : pc[t] = "idle" \/ loc[t].obj # o) =>
         Dues(o) = {} /\ \A m \in Meters : Spent(o, m) = heap[o].consumed[m]

LEMMA ReadAccounts == SerialInv => Readable
<1> SUFFICES ASSUME SerialInv, NEW o \in Objs
             PROVE  /\ \A t \in Threads : pc[t] # "idle" /\ loc[t].obj = o =>
                         /\ Dues(o) = IF pc[t] \in Unsettled THEN {loc[t].tool} ELSE {}
                         /\ \A m \in Meters :
                              Spent(o, m) = heap[o].consumed[m] + Pending(pc[t], loc[t], m)
                    /\ (\A t \in Threads : pc[t] = "idle" \/ loc[t].obj # o) =>
                         Dues(o) = {} /\ \A m \in Meters : Spent(o, m) = heap[o].consumed[m]
  BY DEF Readable
<1>1. \A m \in Meters : heap[o].consumed[m] + 0 = heap[o].consumed[m]
  BY DEF SerialInv, TypeInv, TypeOK, Session
<1>2. ASSUME NEW t \in Threads, pc[t] # "idle", loc[t].obj = o
      PROVE  /\ Dues(o) = IF pc[t] \in Unsettled THEN {loc[t].tool} ELSE {}
             /\ \A m \in Meters : Spent(o, m) = heap[o].consumed[m] + Pending(pc[t], loc[t], m)
  <2>1. \A u \in Threads : pc[u] # "idle" => u = t
    BY <1>2 DEF SerialInv, Alone, Idle
  <2>2. \A u \in Threads : pc[u] \in Unsettled \cup Billing => u = t
    BY <2>1 DEF Unsettled, Billing
  <2>3. Dues(o) = IF pc[t] \in Unsettled THEN {loc[t].tool} ELSE {}
    BY <1>2, <2>2 DEF Dues
  <2>4. \A u \in Threads : Bills(u, o) <=> u = t /\ pc[t] \in Billing
    BY <1>2, <2>2 DEF Bills, Billing
  <2>5. ASSUME NEW m \in Meters
        PROVE  Spent(o, m) = heap[o].consumed[m] + Pending(pc[t], loc[t], m)
    <3>1. CASE pc[t] \in Billing
      <4>1. (CHOOSE u \in Threads : Bills(u, o)) = t
        BY <2>4, <3>1
      <4>2. Owed(t, m) = Pending(pc[t], loc[t], m)
        BY <3>1 DEF Owed, Pending, Due
      <4> QED BY <2>4, <3>1, <4>1, <4>2 DEF Spent
    <3>2. CASE pc[t] \notin Billing
      BY <2>4, <3>2 DEF Spent, Pending
    <3> QED BY <3>1, <3>2
  <2> QED BY <2>3, <2>5
<1>3. ASSUME \A t \in Threads : pc[t] = "idle" \/ loc[t].obj # o
      PROVE  Dues(o) = {} /\ \A m \in Meters : Spent(o, m) = heap[o].consumed[m]
  <2>1. Dues(o) = {}
    BY <1>3 DEF Dues, Unsettled
  <2>2. ~\E t \in Threads : Bills(t, o)
    BY <1>3 DEF Bills
  <2> QED BY <1>1, <2>1, <2>2 DEF Spent
<1> QED BY <1>2, <1>3

\* The same of the next state.
LEMMA ReadAccountsNext == SerialInv' => Readable'
  BY ReadAccounts, PTL

\* An account is what the Session says and what is due.
LEMMA SameAccount ==
  ASSUME NEW o \in Objs, heap'[o].live = heap[o].live, heap'[o].calls_made = heap[o].calls_made,
         heap'[o].terms.max_calls = heap[o].terms.max_calls,
         heap'[o].terms.limits = heap[o].terms.limits,
         heap'[o].terms.tools_allow = heap[o].terms.tools_allow,
         heap'[o].terms.tools_deny = heap[o].terms.tools_deny,
         Dues(o)' = Dues(o), \A m \in Meters : Spent(o, m)' = Spent(o, m)
  PROVE  Account(o)' = Account(o)
<1>1. \A tool \in Tools : InScope(heap[o].terms, tool)' <=> InScope(heap[o].terms, tool)
  BY DEF InScope
<1>2. {tool \in Tools : InScope(heap[o].terms, tool)}' = {tool \in Tools : InScope(heap[o].terms, tool)}
  BY <1>1
<1>3. [m \in Meters |-> Spent(o, m)]' = [m \in Meters |-> Spent(o, m)]
  OBVIOUS
<1> QED BY <1>2, <1>3 DEF Account, Dues

\* The Session of a handler stays its Session.
LEMMA SameSession ==
  ASSUME SerialInv, NEW t \in Threads, Handle(t), pc'[t] # "idle"
  PROVE  loc'[t].obj = loc[t].obj /\ loc'[t].sid = loc[t].sid
<1>. USE DEF SerialInv, TypeInv, TypeOK
<1>1. CASE ReconcileCost(t)
  <2>1. loc'[t].obj = sessions[loc[t].sid]
    BY <1>1 DEF ReconcileCost, Local
  <2>2. loc'[t].sid = loc[t].sid
    BY <1>1 DEF ReconcileCost, Local
  <2> QED BY <1>1, <2>1, <2>2 DEF Current, ReconcileCost, Step, At, Idle
<1>2. CASE ~ReconcileCost(t)
  BY <1>2, HandleLocals DEF Idle
<1> QED BY <1>1, <1>2

\* The other Sessions are out of its reach.
LEMMA OtherSessions ==
  ASSUME SerialInv, NEW t \in Threads, Handle(t), NEW o \in Objs, o # loc[t].obj
  PROVE  heap'[o] = heap[o]
<1>. USE DEF SerialInv, TypeInv, TypeOK
<1>1. CASE pc[t] = "judging"
  BY <1>1, Dispatch DEF JudgeReturns
<1>2. CASE pc[t] \in {"store_calls", "record_served", "reconcile"}
  <2>1. sessions[loc[t].sid] = loc[t].obj
    BY <1>2 DEF Current, Idle
  <2>2. CASE pc[t] = "store_calls"
    BY <2>2, Dispatch DEF StoreCalls, ChargedTo
  <2>3. CASE pc[t] = "record_served"
    BY <2>3, Dispatch DEF RecordServed
  <2>4. CASE pc[t] = "reconcile"
    <3>1. heap' = [heap EXCEPT ![loc[t].obj].pending_costs = @ \ {loc[t].ref}]
      BY <2>1, <2>4, Dispatch DEF ReconcileCost
    <3> QED BY <3>1
  <2> QED BY <1>2, <2>2, <2>3, <2>4
<1>3. CASE pc[t] \in {"store_meter", "store_delta", "widen_scope", "raise_budget", "amend_judge"}
  <2>1. CASE pc[t] \in {"store_meter", "store_delta"}
    BY <2>1, Dispatch DEF StoreMeter
  <2>2. CASE pc[t] = "widen_scope"
    BY <2>2, Dispatch DEF WidenScope
  <2>3. CASE pc[t] = "raise_budget"
    BY <2>3, Dispatch DEF RaiseBudget
  <2>4. CASE pc[t] = "amend_judge"
    BY <2>4, Dispatch DEF JudgeAmendment
  <2> QED BY <1>3, <2>1, <2>2, <2>3, <2>4
<1>4. CASE pc[t] \in {"record_open", "scope", "budget", "policy", "judge", "judged"}
  BY <1>4, Dispatch DEF RecordOpen, CheckScope, CheckBudget, ApplyPolicy, LookUpJudgement,
     WeighJudgement, Pass, Deny, Answer
<1>5. CASE pc[t] \in {"load_calls", "load_meter", "forward", "load_delta", "record_result",
                      "record_amend"}
  <2>1. CASE pc[t] \in {"load_calls", "forward", "record_result", "record_amend"}
    BY <2>1, Dispatch DEF LoadCalls, UpstreamFails, UpstreamReturns, UpstreamReports,
       RecordResult, RecordAmendment, Pass, Answer
  <2>2. CASE pc[t] \in {"load_meter", "load_delta"}
    BY <2>2, Dispatch DEF LoadMeter, Pass
  <2> QED BY <1>5, <2>1, <2>2
<1>6. pc[t] \in PCs \ {"idle"}
  BY HandleFrame DEF Idle
<1> QED BY <1>1, <1>2, <1>3, <1>4, <1>5, <1>6 DEF PCs

\* So are their accounts.
LEMMA OtherAccounts ==
  ASSUME Serial, SerialInv, SerialInv', NEW t \in Threads, Handle(t),
         NEW o \in Objs, o # loc[t].obj
  PROVE  Account(o)' = Account(o)
<1>1. heap'[o] = heap[o]
  BY OtherSessions
<1>2. \A u \in Threads : pc[u] = "idle" \/ loc[u].obj # o
  BY OthersIdle
<1>3. \A u \in Threads : pc'[u] = "idle" \/ loc'[u].obj # o
  BY OthersIdle, SameSession
<1>4. Dues(o) = {} /\ \A m \in Meters : Spent(o, m) = heap[o].consumed[m]
  BY <1>2, ReadAccounts DEF Readable
<1>5. Dues(o)' = {} /\ \A m \in Meters : Spent(o, m)' = heap'[o].consumed[m]
  BY <1>3, ReadAccountsNext DEF Readable
<1> QED BY <1>1, <1>4, <1>5, SameAccount

\* The account of a busy handler, before and after its step.
LEMMA OwnAccount ==
  ASSUME Serial, SerialInv, SerialInv', NEW t \in Threads, Handle(t),
         NEW o \in Objs, o = loc[t].obj
  PROVE  /\ pc[t] # "idle"
         /\ Dues(o) = IF pc[t] \in Unsettled THEN {loc[t].tool} ELSE {}
         /\ Dues(o)' = IF pc'[t] \in Unsettled THEN {loc'[t].tool} ELSE {}
         /\ \A m \in Meters :
              /\ Spent(o, m) = heap[o].consumed[m] + Pending(pc[t], loc[t], m)
              /\ Spent(o, m)' = heap'[o].consumed[m] + Pending(pc'[t], loc'[t], m)
<1>1. pc[t] # "idle"
  BY HandleFrame DEF SerialInv, Idle
<1>2. /\ Dues(o) = IF pc[t] \in Unsettled THEN {loc[t].tool} ELSE {}
      /\ \A m \in Meters : Spent(o, m) = heap[o].consumed[m] + Pending(pc[t], loc[t], m)
  BY <1>1, ReadAccounts DEF Readable
<1>3. CASE pc'[t] = "idle"
  <2>1. \A u \in Threads : pc'[u] = "idle" \/ loc'[u].obj # o
    BY <1>3, OthersIdle
  <2>2. Dues(o)' = {} /\ \A m \in Meters : Spent(o, m)' = heap'[o].consumed[m]
    BY <2>1, ReadAccountsNext DEF Readable
  <2>3. \A m \in Meters : heap'[o].consumed[m] + Pending(pc'[t], loc'[t], m) = heap'[o].consumed[m]
    BY <1>3 DEF Pending, Billing, SerialInv, TypeInv, TypeOK, Session
  <2>4. pc'[t] \notin Unsettled
    BY <1>3 DEF Unsettled
  <2> QED BY <1>1, <1>2, <2>2, <2>3, <2>4
<1>4. CASE pc'[t] # "idle"
  <2>1. loc'[t].obj = o
    BY <1>4, SameSession
  <2>2. /\ Dues(o)' = IF pc'[t] \in Unsettled THEN {loc'[t].tool} ELSE {}
        /\ \A m \in Meters : Spent(o, m)' = heap'[o].consumed[m] + Pending(pc'[t], loc'[t], m)
    BY <1>4, <2>1, ReadAccountsNext DEF Readable
  <2> QED BY <1>1, <1>2, <2>2
<1> QED BY <1>3, <1>4

\* A step that leaves the ceilings, the scope and the count alone leaves the account so if
\* what is due and what is spent stays.
LEMMA AccountStays ==
  ASSUME TypeInv, NEW t \in Threads, Handle(t), NEW o \in Objs,
         pc[t] \notin {"store_calls", "widen_scope", "raise_budget"},
         Dues(o)' = Dues(o), \A m \in Meters : Spent(o, m)' = Spent(o, m)
  PROVE  Account(o)' = Account(o)
<1>1. /\ heap'[o].live = heap[o].live /\ heap'[o].calls_made = heap[o].calls_made
      /\ heap'[o].terms = heap[o].terms
  BY HeapFrame
<1> QED BY <1>1, SameAccount

\* Checks, judgements, records and amendments' judgements leave the account as it is.
LEMMA CheckAccount ==
  ASSUME Serial, SerialInv, SerialInv', NEW t \in Threads, Handle(t),
         NEW o \in Objs, o = loc[t].obj,
         pc[t] \in {"record_open", "scope", "budget", "policy", "judge", "judging", "judged",
                    "load_calls", "record_result", "amend_judge", "record_amend"}
  PROVE  Account(o)' = Account(o)
<1>. USE DEF SerialInv, TypeInv, TypeOK
<1>1. pc'[t] \in {"idle", "budget", "policy", "judge", "judging", "judged", "load_calls", "store_calls",
                  "record_amend"}
  BY Routes
<1>2. heap'[o].consumed = heap[o].consumed
  BY HeapFrame
<1>3. /\ pc[t] \notin Unsettled /\ pc'[t] \notin Unsettled
      /\ pc[t] \notin Billing /\ pc'[t] \notin Billing
  BY <1>1 DEF Unsettled, Billing
<1>4. Dues(o)' = Dues(o)
  BY <1>3, OwnAccount
<1>5. ASSUME NEW m \in Meters PROVE Spent(o, m)' = Spent(o, m)
  <2>1. Pending(pc[t], loc[t], m) = 0 /\ Pending(pc'[t], loc'[t], m) = 0
    BY <1>3 DEF Pending
  <2> QED BY <1>2, <2>1, OwnAccount
<1> QED BY <1>4, <1>5, AccountStays

\* Billing meter by meter is spending what is due at once.
LEMMA BillAccount ==
  ASSUME Serial, SerialInv, SerialInv', BudgetInv, NEW t \in Threads, Handle(t),
         NEW o \in Objs, o = loc[t].obj, pc[t] \in Billing
  PROVE  Account(o)' = Account(o)
<1>. USE DEF SerialInv, TypeInv, TypeOK
<1> DEFINE l == loc[t]
           n == loc'[t]
           s == heap[o]
<1>1. /\ l \in Local /\ s \in Session /\ heap'[o] \in Session /\ Known(pc[t], l, s)
      /\ s.consumed \in [Meters -> Int] /\ l.bill \in [Meters -> Int]
  BY DEF BudgetInv, Billing, Session, Local
<1>2. CASE LoadMeter(t, "load_meter", "store_meter") \/ LoadMeter(t, "load_delta", "store_delta")
  <2>1. PICK m \in l.todo :
          loc' = [loc EXCEPT ![t].meter = m, ![t].todo = @ \ {m}, ![t].load = s.consumed[m]]
    BY <1>2 DEF LoadMeter
  <2>2. n.bill = l.bill /\ n.tool = l.tool /\ n.meter = m /\ n.todo = l.todo \ {m}
    BY <1>1, <2>1 DEF Local
  <2>3. \/ pc[t] = "load_meter" /\ pc'[t] = "store_meter"
        \/ pc[t] = "load_delta" /\ pc'[t] = "store_delta"
    BY <1>2 DEF LoadMeter, Step, At, Goto
  <2>4. Due(pc'[t], n) = Due(pc[t], l) /\ pc[t] \in Billing /\ pc'[t] \in Billing
    BY <2>1, <2>2, <2>3 DEF Due, Billing
  <2>5. heap' = heap
    BY <1>2 DEF LoadMeter
  <2>6. Dues(o)' = Dues(o)
    BY <2>2, <2>3, OwnAccount DEF Unsettled
  <2>7. ASSUME NEW x \in Meters PROVE Spent(o, x)' = Spent(o, x)
    <3>1. Pending(pc'[t], n, x) = Pending(pc[t], l, x)
      BY <2>2, <2>4 DEF Pending
    <3>2. /\ Spent(o, x) = s.consumed[x] + Pending(pc[t], l, x)
          /\ Spent(o, x)' = heap'[o].consumed[x] + Pending(pc'[t], n, x)
      BY OwnAccount
    <3> QED BY <2>5, <3>1, <3>2
  <2> QED BY <2>3, <2>6, <2>7, AccountStays
<1>3. CASE l.todo = {} /\ (Pass(t, "load_meter", "record_served") \/ Pass(t, "load_delta", "record_result"))
  <2>1. /\ loc' = loc /\ heap' = heap
        /\ \/ pc[t] = "load_meter" /\ pc'[t] = "record_served"
           \/ pc[t] = "load_delta" /\ pc'[t] = "record_result"
    BY <1>3 DEF Pass, Step, At, Goto
  <2>2. Due(pc[t], l) = {} /\ pc'[t] \notin Billing
    BY <1>3, <2>1 DEF Due, Billing
  <2>3. Dues(o)' = Dues(o)
    BY <2>1, OwnAccount DEF Unsettled
  <2>4. ASSUME NEW x \in Meters PROVE Spent(o, x)' = Spent(o, x)
    <3>1. Pending(pc'[t], n, x) = 0 /\ Pending(pc[t], l, x) = 0
      BY <2>2 DEF Pending
    <3>2. /\ Spent(o, x) = s.consumed[x] + Pending(pc[t], l, x)
          /\ Spent(o, x)' = heap'[o].consumed[x] + Pending(pc'[t], n, x)
      BY OwnAccount
    <3> QED BY <2>1, <3>1, <3>2
  <2> QED BY <2>1, <2>3, <2>4, AccountStays
<1>4. CASE StoreMeter(t, "store_meter", "load_meter") \/ StoreMeter(t, "store_delta", "load_delta")
  <2>1. /\ loc' = loc
        /\ \/ pc[t] = "store_meter" /\ pc'[t] = "load_meter"
           \/ pc[t] = "store_delta" /\ pc'[t] = "load_delta"
        /\ heap' = [heap EXCEPT ![l.obj].consumed[l.meter] = l.load + l.bill[l.meter]]
    BY <1>4 DEF StoreMeter, Step, At, Goto
  <2>2. l.meter \in Meters /\ l.meter \notin l.todo /\ l.load = s.consumed[l.meter]
    BY <1>1, <2>1 DEF Known, Bound, Holds
  <2>3. heap'[o].consumed = [s.consumed EXCEPT ![l.meter] = s.consumed[l.meter] + l.bill[l.meter]]
    BY <1>1, <2>1, <2>2 DEF Session
  <2>4. /\ pc[t] \in Billing /\ pc'[t] \in Billing
        /\ Due(pc[t], l) = l.todo \cup {l.meter} /\ Due(pc'[t], n) = l.todo
    BY <2>1 DEF Due, Billing
  <2>5. Dues(o)' = Dues(o)
    BY <2>1, OwnAccount DEF Unsettled
  <2>6. ASSUME NEW x \in Meters PROVE Spent(o, x)' = Spent(o, x)
    <3>1. /\ Spent(o, x) = s.consumed[x] + Pending(pc[t], l, x)
          /\ Spent(o, x)' = heap'[o].consumed[x] + Pending(pc'[t], n, x)
      BY OwnAccount
    <3>2. CASE x = l.meter
      <4>1. Pending(pc[t], l, x) = l.bill[x] /\ Pending(pc'[t], n, x) = 0
        BY <2>1, <2>2, <2>4, <3>2 DEF Pending
      <4>2. heap'[o].consumed[x] = s.consumed[x] + l.bill[x]
        BY <1>1, <2>3, <3>2
      <4> QED BY <1>1, <3>1, <4>1, <4>2
    <3>3. CASE x # l.meter
      <4>1. Pending(pc'[t], n, x) = Pending(pc[t], l, x)
        BY <2>1, <2>4, <3>3 DEF Pending
      <4>2. heap'[o].consumed[x] = s.consumed[x]
        BY <1>1, <2>3, <3>3
      <4> QED BY <3>1, <4>1, <4>2
    <3> QED BY <3>2, <3>3
  <2> QED BY <2>1, <2>5, <2>6, AccountStays
<1> QED BY <1>2, <1>3, <1>4, Dispatch DEF Billing

\* Logging the served call and waiting for its report change nothing.
LEMMA ServeAccount ==
  ASSUME Serial, SerialInv, SerialInv', NEW t \in Threads, Handle(t),
         NEW o \in Objs, o = loc[t].obj, pc[t] = "record_served" \/ UpstreamReports(t)
  PROVE  Account(o)' = Account(o)
<1>. USE DEF SerialInv, TypeInv, TypeOK
<1>1. /\ loc[t] \in Local
      /\ \/ pc[t] = "record_served" /\ pc'[t] = "forward"
         \/ pc[t] = "forward" /\ pc'[t] = "reconcile"
  BY Dispatch DEF RecordServed, UpstreamReports, Step, At, Goto
<1>2. loc'[t].tool = loc[t].tool
  <2>1. CASE pc[t] = "record_served"
    <3>1. loc' = [loc EXCEPT ![t].ref = Len(audit) + 1]
      BY <2>1, Dispatch DEF RecordServed
    <3> QED BY <1>1, <3>1 DEF Local
  <2>2. CASE UpstreamReports(t)
    BY <1>1, <2>2 DEF UpstreamReports, Local
  <2> QED BY <2>1, <2>2
<1>3. heap'[o].consumed = heap[o].consumed
  BY <1>1, HeapFrame
<1>4. Dues(o)' = Dues(o)
  BY <1>1, <1>2, OwnAccount DEF Unsettled
<1>5. ASSUME NEW m \in Meters PROVE Spent(o, m)' = Spent(o, m)
  <2>1. Pending(pc[t], loc[t], m) = 0 /\ Pending(pc'[t], loc'[t], m) = 0
    BY <1>1 DEF Pending, Billing
  <2> QED BY <1>3, <2>1, OwnAccount
<1> QED BY <1>1, <1>4, <1>5, AccountStays

-----------------------------------------------------------------------------
(* The steps of Admission *)

\* What a charge or a settlement makes of an account.
LEMMA NextAccount ==
  ASSUME NEW o \in Objs, heap'[o].live = heap[o].live, heap'[o].terms = heap[o].terms,
         NEW amounts, \A m \in Meters : Spent(o, m)' = Spent(o, m) + amounts[m]
  PROVE  Account(o)' = [Account(o) EXCEPT !.made = heap'[o].calls_made,
                                          !.spent = Adm!Plus(Account(o).spent, amounts),
                                          !.due = Dues(o)']
<1>1. /\ Account(o).spent = [m \in Meters |-> Spent(o, m)]
      /\ Account(o)'.spent = [m \in Meters |-> Spent(o, m)']
  BY DEF Account
<1>2. Account(o)'.spent = Adm!Plus(Account(o).spent, amounts)
  BY <1>1 DEF Adm!Plus
<1>3. {tool \in Tools : InScope(heap[o].terms, tool)}' = {tool \in Tools : InScope(heap[o].terms, tool)}
  BY DEF InScope
<1>4. Account(o)'.due = Dues(o)'
  BY DEF Account, Dues
<1>5. /\ Account(o)'.open = Account(o).open /\ Account(o)'.made = heap'[o].calls_made
      /\ Account(o)'.max_calls = Account(o).max_calls /\ Account(o)'.limits = Account(o).limits
      /\ Account(o)'.tools = Account(o).tools
  BY <1>3 DEF Account
<1>6. ASSUME NEW open, NEW made, NEW spent, NEW max_calls, NEW limits, NEW tools, NEW due,
             NEW a, a = [open |-> open, made |-> made, spent |-> spent, max_calls |-> max_calls,
                         limits |-> limits, tools |-> tools, due |-> due],
             NEW b, b = [open |-> b.open, made |-> b.made, spent |-> b.spent,
                         max_calls |-> b.max_calls, limits |-> b.limits, tools |-> b.tools,
                         due |-> b.due],
             b.open = a.open, b.max_calls = a.max_calls, b.limits = a.limits, b.tools = a.tools
      PROVE  b = [a EXCEPT !.made = b.made, !.spent = b.spent, !.due = b.due]
  BY <1>6
<1>7. PICK a, b : a = Account(o) /\ b = Account(o)'
  OBVIOUS
<1>8. a = [open |-> a.open, made |-> a.made, spent |-> a.spent, max_calls |-> a.max_calls,
           limits |-> a.limits, tools |-> a.tools, due |-> a.due]
  BY <1>7 DEF Account
<1>9. b = [open |-> b.open, made |-> b.made, spent |-> b.spent, max_calls |-> b.max_calls,
           limits |-> b.limits, tools |-> b.tools, due |-> b.due]
  BY <1>7 DEF Account
<1>10. b = [a EXCEPT !.made = b.made, !.spent = b.spent, !.due = b.due]
  BY <1>5, <1>6, <1>7, <1>8, <1>9
<1> QED BY <1>2, <1>4, <1>5, <1>7, <1>10

\* The accounts change where the handler works only.
LEMMA OneAccount ==
  ASSUME Serial, SerialInv, SerialInv', NEW t \in Threads, Handle(t),
         NEW o \in Objs, o = loc[t].obj
  PROVE  [x \in Objs |-> Account(x)]' = [[x \in Objs |-> Account(x)] EXCEPT ![o] = Account(o)']
<1>1. \A x \in Objs \ {o} : Account(x)' = Account(x)
  BY OtherAccounts
<1> QED BY <1>1

\* Counting a call that was checked is admitting it.
LEMMA AdmitStep ==
  ASSUME Serial, SerialInv, SerialInv', BudgetInv, NEW t \in Threads, Handle(t),
         pc[t] = "store_calls"
  PROVE  Adm!Next
<1>. USE DEF SerialInv, TypeInv, TypeOK
<1>1. PICK sid \in Sids, o \in Objs, tool \in Tools, jtok \in JudgeTokens \cup {0} :
        /\ sid = loc[t].sid /\ o = loc[t].obj /\ tool = loc[t].tool /\ jtok = loc[t].jtok
        /\ sessions[sid] = o
  BY DEF Bound, Holds, CallSteps, Current, Idle, BudgetInv, Known
<1>2. /\ InScope(heap[o].terms, tool) /\ CallsLeft(heap[o]) /\ Checked(heap[o], tool, jtok)
      /\ loc[t].load = heap[o].calls_made
  BY <1>1 DEF BudgetInv, Known, Scoped, Counted
<1> DEFINE cost == Cost(tool, jtok)
           A == Account(o)
<1>3. StoreCalls(t)
  BY Dispatch
<1>4. loc' = [loc EXCEPT ![t].bill = cost, ![t].todo = Billed(tool, jtok)]
  BY <1>1, <1>3 DEF StoreCalls
<1>5. loc'[t].tool = tool
  BY <1>1, <1>4 DEF Local
<1>6. loc'[t].bill = cost
  BY <1>4 DEF Local
<1>7. loc'[t].todo = Billed(tool, jtok)
  BY <1>4 DEF Local
<1>8. pc'[t] = "load_meter"
  BY <1>3 DEF StoreCalls, Step, Goto
<1>9. heap'[o].calls_made = heap[o].calls_made + 1
  BY <1>1, <1>2, <1>3 DEF StoreCalls, ChargedTo, Session
<1>10. /\ heap'[o].live = heap[o].live /\ heap'[o].terms = heap[o].terms
       /\ heap'[o].consumed = heap[o].consumed
  BY HeapFrame
<1>11. Dues(o) = {} /\ Dues(o)' = {tool}
  BY <1>1, <1>5, <1>8, OwnAccount DEF Unsettled
<1>12. ASSUME NEW m \in Meters
       PROVE  Spent(o, m) = heap[o].consumed[m] /\ Spent(o, m)' = Spent(o, m) + cost[m]
  <2>1. /\ Spent(o, m) = heap[o].consumed[m] + Pending(pc[t], loc[t], m)
        /\ Spent(o, m)' = heap'[o].consumed[m] + Pending(pc'[t], loc'[t], m)
    BY <1>1, OwnAccount
  <2>2. Pending(pc[t], loc[t], m) = 0
    BY DEF Pending, Billing
  <2>3. Pending(pc'[t], loc'[t], m) = cost[m]
    <3>1. Due(pc'[t], loc'[t]) = Billed(tool, jtok)
      BY <1>7, <1>8 DEF Due
    <3>2. m \notin Billed(tool, jtok) => cost[m] = 0
      BY UnbilledFree, ToolAssumption
    <3> QED BY <1>6, <1>8, <3>1, <3>2 DEF Pending, Billing
  <2>4. heap[o].consumed[m] \in Int
    BY SessionNumbers
  <2> QED BY <1>10, <2>1, <2>2, <2>3, <2>4
<1>13. Account(o)' = [A EXCEPT !.made = heap[o].calls_made + 1, !.spent = Adm!Plus(A.spent, cost),
                               !.due = {tool}]
  <2>1. Account(o)' = [A EXCEPT !.made = heap'[o].calls_made, !.spent = Adm!Plus(A.spent, cost),
                                !.due = Dues(o)']
    BY <1>10, <1>12, NextAccount
  <2> QED BY <1>9, <1>11, <2>1
<1>14. /\ A.made = heap[o].calls_made /\ A.due = {} /\ tool \in A.tools
       /\ A.max_calls = heap[o].terms.max_calls /\ A.limits = heap[o].terms.limits
       /\ \A m \in Meters : A.spent[m] = heap[o].consumed[m]
  BY <1>2, <1>11, <1>12 DEF Account, Dues
<1>15. Adm!CallsLeft(A)
  BY <1>2, <1>14 DEF Adm!CallsLeft, CallsLeft
<1>16. Adm!Fits(A, cost)
  BY <1>2, <1>14 DEF Adm!Fits, Checked, Fits
<1>17. cost \in [x \in Tools |-> {Cost(x, n) : n \in JudgeTokens \cup {0}}][tool]
  OBVIOUS
<1>18. /\ [x \in Objs |-> Account(x)][sessions[sid]] = A
       /\ [x \in Objs |-> Account(x)]' = [[x \in Objs |-> Account(x)] EXCEPT ![sessions[sid]] = Account(o)']
  BY <1>1, OneAccount
<1>19. sessions' = sessions /\ sessions[sid] # Null
  BY <1>1, HandleFrame, NullAssumption
<1> HIDE DEF cost, A
<1> DEFINE accounts == [x \in Objs |-> Account(x)]
<1>20. PICK a : a = accounts[sessions[sid]]
  OBVIOUS
<1>21. a = A
  BY <1>18, <1>20
<1>22. accounts' = [accounts EXCEPT ![sessions[sid]] =
                      [a EXCEPT !.made = a.made + 1, !.spent = Adm!Plus(a.spent, cost), !.due = {tool}]]
  BY <1>13, <1>14, <1>18, <1>21
<1>23. /\ sessions[sid] # Null /\ tool \in a.tools /\ a.due = {} /\ Adm!CallsLeft(a)
       /\ cost \in [x \in Tools |-> {Cost(x, n) : n \in JudgeTokens \cup {0}}][tool]
       /\ Adm!Fits(a, cost) /\ sessions' = sessions
  BY <1>14, <1>15, <1>16, <1>17, <1>19, <1>21
<1> HIDE DEF accounts
<1>24. Adm!Admit(sid, tool)
  BY <1>20, <1>22, <1>23, Zenon DEF Adm!Admit, accounts
<1> QED BY <1>24 DEF Adm!Next

\* What a call may be settled for.
Settlements(tool) ==
  [x \in Tools |-> {Correction(x, r) : r \in Reports[x]}][tool] \cup {[m \in Meters |-> 0]}

\* Accounts that differ in what is spent and due only.
LEMMA SettledAccount ==
  ASSUME NEW A, NEW B,
         A = [open |-> A.open, made |-> A.made, spent |-> A.spent, max_calls |-> A.max_calls,
              limits |-> A.limits, tools |-> A.tools, due |-> A.due],
         B = [open |-> B.open, made |-> B.made, spent |-> B.spent, max_calls |-> B.max_calls,
              limits |-> B.limits, tools |-> B.tools, due |-> B.due],
         B.open = A.open, B.made = A.made, B.max_calls = A.max_calls, B.limits = A.limits,
         B.tools = A.tools
  PROVE  B = [A EXCEPT !.spent = B.spent, !.due = B.due]
<1>1. ASSUME NEW open, NEW made, NEW spent, NEW max_calls, NEW limits, NEW tools, NEW due,
             NEW a, a = [open |-> open, made |-> made, spent |-> spent, max_calls |-> max_calls,
                         limits |-> limits, tools |-> tools, due |-> due],
             NEW b, b = [open |-> b.open, made |-> b.made, spent |-> b.spent,
                         max_calls |-> b.max_calls, limits |-> b.limits, tools |-> b.tools,
                         due |-> b.due],
             b.open = a.open, b.made = a.made, b.max_calls = a.max_calls, b.limits = a.limits,
             b.tools = a.tools
      PROVE  b = [a EXCEPT !.spent = b.spent, !.due = b.due]
  BY <1>1
<1> QED BY <1>1

\* A charge that is settled for some amounts is a step of Admission.
LEMMA Settles ==
  ASSUME Serial, SerialInv, SerialInv', NEW t \in Threads, Handle(t), pc[t] \in Unsettled,
         pc[t] \in CallSteps, pc[t] \notin {"store_calls", "widen_scope", "raise_budget"},
         pc'[t] \notin Unsettled, NEW o \in Objs, o = loc[t].obj, NEW tool \in Tools, tool = loc[t].tool,
         NEW amounts \in Settlements(tool),
         \A m \in Meters : Spent(o, m)' = Spent(o, m) + amounts[m]
  PROVE  Adm!Next
<1>. USE DEF SerialInv, TypeInv, TypeOK
<1>1. PICK sid \in Sids : sid = loc[t].sid /\ sessions[sid] = o
  BY OwnAccount DEF Bound, Holds, Current, Idle
<1>2. Dues(o) = {tool} /\ Dues(o)' = {}
  BY OwnAccount
<1>3. /\ heap'[o].live = heap[o].live /\ heap'[o].terms = heap[o].terms
      /\ heap'[o].calls_made = heap[o].calls_made
  BY HeapFrame
<1> DEFINE A == Account(o)
           accounts == [x \in Objs |-> Account(x)]
<1>4. Account(o)' = [A EXCEPT !.made = heap'[o].calls_made, !.spent = Adm!Plus(A.spent, amounts),
                              !.due = Dues(o)']
  BY <1>3, NextAccount
<1>5. A.made = heap[o].calls_made /\ A.due = {tool}
  BY <1>2 DEF Account, Dues
<1>6. Account(o)' = [A EXCEPT !.spent = Adm!Plus(A.spent, amounts), !.due = {}]
  <2>1. PICK x, y : x = A /\ y = Account(o)'
    OBVIOUS
  <2>2. x = [open |-> x.open, made |-> x.made, spent |-> x.spent, max_calls |-> x.max_calls,
             limits |-> x.limits, tools |-> x.tools, due |-> x.due]
    BY <2>1 DEF Account
  <2>3. y = [open |-> y.open, made |-> y.made, spent |-> y.spent, max_calls |-> y.max_calls,
             limits |-> y.limits, tools |-> y.tools, due |-> y.due]
    BY <2>1 DEF Account
  <2>4. y = [x EXCEPT !.made = heap'[o].calls_made, !.spent = Adm!Plus(A.spent, amounts),
                      !.due = Dues(o)']
    BY <1>4, <2>1
  <2>5. y.open = x.open /\ y.max_calls = x.max_calls /\ y.limits = x.limits /\ y.tools = x.tools
    BY <2>2, <2>4
  <2>6. y.made = x.made /\ y.spent = Adm!Plus(A.spent, amounts) /\ y.due = {}
    <3>1. y.made = heap'[o].calls_made /\ y.spent = Adm!Plus(A.spent, amounts) /\ y.due = Dues(o)'
      BY <2>2, <2>4
    <3> QED BY <1>2, <1>3, <1>5, <2>1, <3>1
  <2>7. y = [x EXCEPT !.spent = y.spent, !.due = y.due]
    BY <2>2, <2>3, <2>5, <2>6, SettledAccount
  <2> QED BY <2>1, <2>6, <2>7
<1>7. accounts[sessions[sid]] = A /\ accounts' = [accounts EXCEPT ![sessions[sid]] = Account(o)']
  BY <1>1, OneAccount
<1>8. sessions' = sessions /\ sessions[sid] # Null
  BY <1>1, HandleFrame, NullAssumption
<1> HIDE DEF A, accounts
<1>9. PICK a : a = accounts[sessions[sid]]
  OBVIOUS
<1>10. accounts' = [accounts EXCEPT ![sessions[sid]] =
                      [a EXCEPT !.spent = Adm!Plus(a.spent, amounts), !.due = {}]]
  BY <1>6, <1>7, <1>9
<1>11. sessions[sid] # Null /\ tool \in a.due /\ sessions' = sessions
  BY <1>5, <1>7, <1>8, <1>9
<1>12. Adm!Settle(sid, tool)
  BY <1>9, <1>10, <1>11, Zenon DEF Adm!Settle, accounts, Settlements
<1> QED BY <1>12 DEF Adm!Next

\* A call that fails, or returns without a report, is settled as it is ...
LEMMA ReturnStep ==
  ASSUME Serial, SerialInv, SerialInv', NEW t \in Threads, Handle(t),
         UpstreamFails(t) \/ UpstreamReturns(t)
  PROVE  Adm!Next
<1>. USE DEF SerialInv, TypeInv, TypeOK
<1>1. pc[t] = "forward" /\ pc'[t] \in {"idle", "record_result"} /\ heap' = heap
  BY DEF UpstreamFails, UpstreamReturns, Pass, Step, At, Goto
<1>2. PICK o \in Objs, tool \in Tools : o = loc[t].obj /\ tool = loc[t].tool
  BY <1>1 DEF Bound, Holds, CallSteps
<1>3. /\ pc[t] \in Unsettled /\ pc'[t] \notin Unsettled /\ pc[t] \in CallSteps
      /\ pc[t] \notin Billing /\ pc'[t] \notin Billing
  BY <1>1 DEF Unsettled, CallSteps, Billing
<1> DEFINE amounts == [m \in Meters |-> 0]
<1>4. ASSUME NEW m \in Meters PROVE Spent(o, m)' = Spent(o, m) + amounts[m]
  <2>1. /\ Spent(o, m) = heap[o].consumed[m] + Pending(pc[t], loc[t], m)
        /\ Spent(o, m)' = heap'[o].consumed[m] + Pending(pc'[t], loc'[t], m)
    BY <1>2, OwnAccount
  <2>2. Pending(pc[t], loc[t], m) = 0 /\ Pending(pc'[t], loc'[t], m) = 0
    BY <1>3 DEF Pending
  <2>3. heap[o].consumed[m] \in Int
    BY SessionNumbers
  <2> QED BY <1>1, <2>1, <2>2, <2>3
<1> HIDE DEF amounts
<1>5. amounts \in Settlements(tool)
  BY DEF amounts, Settlements
<1>6. pc[t] \notin {"store_calls", "widen_scope", "raise_budget"}
  BY <1>1
<1> QED BY <1>2, <1>3, <1>4, <1>5, <1>6, Settles

\* ... and one whose result reports costs, for the difference to the estimate.
LEMMA ReconcileStep ==
  ASSUME Serial, SerialInv, SerialInv', BudgetInv, NEW t \in Threads, Handle(t), pc[t] = "reconcile"
  PROVE  Adm!Next
<1>. USE DEF SerialInv, TypeInv, TypeOK
<1>1. PICK sid \in Sids, o \in Objs, tool \in Tools, report \in Reports[loc[t].tool] :
        /\ sid = loc[t].sid /\ o = loc[t].obj /\ tool = loc[t].tool /\ report = loc[t].reported
        /\ sessions[sid] = o /\ loc[t].ref \in heap[o].pending_costs /\ report \in Reports[tool]
  BY DEF Bound, Holds, CallSteps, Current, Idle, BudgetInv, Known
<1> DEFINE amounts == Correction(tool, report)
<1>2. ReconcileCost(t)
  BY Dispatch
<1>3. loc' = [loc EXCEPT ![t].obj = o, ![t].todo = {m \in Meters : report[m] # None},
                         ![t].bill = [m \in Meters |-> report[m] - Amount(Estimate[tool][m])]]
  BY <1>1, <1>2 DEF ReconcileCost
<1>4. loc'[t].todo = {m \in Meters : report[m] # None}
  BY <1>3 DEF Local
<1>5. loc'[t].bill = [m \in Meters |-> report[m] - Amount(Estimate[tool][m])]
  BY <1>3 DEF Local
<1>6. pc'[t] = "load_delta"
  BY <1>2 DEF ReconcileCost, Step, Goto
<1>7. heap'[o].consumed = heap[o].consumed
  BY HeapFrame
<1>8. /\ pc[t] \in Unsettled /\ pc'[t] \notin Unsettled /\ pc[t] \in CallSteps
      /\ pc[t] \notin Billing /\ pc'[t] \in Billing
  BY <1>6 DEF Unsettled, CallSteps, Billing
<1>9. ASSUME NEW m \in Meters PROVE Spent(o, m)' = Spent(o, m) + amounts[m]
  <2>1. /\ Spent(o, m) = heap[o].consumed[m] + Pending(pc[t], loc[t], m)
        /\ Spent(o, m)' = heap'[o].consumed[m] + Pending(pc'[t], loc'[t], m)
    BY <1>1, OwnAccount
  <2>2. Pending(pc[t], loc[t], m) = 0
    BY <1>8 DEF Pending
  <2>3. Due(pc'[t], loc'[t]) = {x \in Meters : report[x] # None}
    BY <1>4, <1>6 DEF Due
  <2>4. Pending(pc'[t], loc'[t], m) = amounts[m]
    BY <1>5, <1>8, <2>3 DEF Pending, Correction
  <2>5. heap[o].consumed[m] \in Int
    BY SessionNumbers
  <2> QED BY <1>7, <2>1, <2>2, <2>4, <2>5
<1>10. amounts \in Settlements(tool)
  BY <1>1 DEF Settlements
<1> HIDE DEF amounts
<1> QED BY <1>1, <1>8, <1>9, <1>10, Settles

\* Accounts that differ in their scope and ceilings only.
LEMMA AmendedAccount ==
  ASSUME NEW A, NEW B,
         A = [open |-> A.open, made |-> A.made, spent |-> A.spent, max_calls |-> A.max_calls,
              limits |-> A.limits, tools |-> A.tools, due |-> A.due],
         B = [open |-> B.open, made |-> B.made, spent |-> B.spent, max_calls |-> B.max_calls,
              limits |-> B.limits, tools |-> B.tools, due |-> B.due],
         B.open = A.open, B.made = A.made, B.spent = A.spent, B.due = A.due
  PROVE  B = [A EXCEPT !.tools = B.tools, !.max_calls = B.max_calls, !.limits = B.limits]
<1>1. ASSUME NEW open, NEW made, NEW spent, NEW max_calls, NEW limits, NEW tools, NEW due,
             NEW a, a = [open |-> open, made |-> made, spent |-> spent, max_calls |-> max_calls,
                         limits |-> limits, tools |-> tools, due |-> due],
             NEW b, b = [open |-> b.open, made |-> b.made, spent |-> b.spent,
                         max_calls |-> b.max_calls, limits |-> b.limits, tools |-> b.tools,
                         due |-> b.due],
             b.open = a.open, b.made = a.made, b.spent = a.spent, b.due = a.due
      PROVE  b = [a EXCEPT !.tools = b.tools, !.max_calls = b.max_calls, !.limits = b.limits]
  BY <1>1
<1> QED BY <1>1

\* Applying an amendment is amending the account.
LEMMA AmendStep ==
  ASSUME Serial, SerialInv, SerialInv', NEW t \in Threads, Handle(t),
         pc[t] \in {"widen_scope", "raise_budget"}
  PROVE  Adm!Next
<1>. USE DEF SerialInv, TypeInv, TypeOK
<1>1. PICK sid \in Sids, o \in Objs : sid = loc[t].sid /\ o = loc[t].obj /\ sessions[sid] = o
  BY DEF Bound, Holds, Current, Idle
<1>2. /\ loc[t].am \in Amendments /\ heap[o] \in Session /\ heap[o].terms \in Terms
      /\ heap'[o].terms \in {Widened(heap[o].terms, loc[t].am), Raised(heap[o].terms, loc[t].am)}
      /\ pc'[t] \in {"raise_budget", "amend_judge"}
  <2>1. loc[t].am \in Amendments /\ heap[o] \in Session /\ heap[o].terms \in Terms
    BY DEF Bound, Holds, Session
  <2>2. WidenScope(t) \/ RaiseBudget(t)
    BY Dispatch
  <2>3. heap'[o].terms \in {Widened(heap[o].terms, loc[t].am), Raised(heap[o].terms, loc[t].am)}
    BY <1>1, <2>1, <2>2 DEF WidenScope, RaiseBudget, Session
  <2>4. pc'[t] \in {"raise_budget", "amend_judge"}
    BY <2>2 DEF WidenScope, RaiseBudget, Step, Goto
  <2> QED BY <2>1, <2>3, <2>4
<1>3. /\ IF heap[o].terms.max_calls = None THEN heap'[o].terms.max_calls = None
         ELSE heap'[o].terms.max_calls >= heap[o].terms.max_calls
      /\ \A m \in Meters : heap[o].terms.limits[m] # None
                             => heap'[o].terms.limits[m] >= heap[o].terms.limits[m]
  <2>1. heap[o].terms.max_calls \in Int /\ \A m \in Meters : heap[o].terms.limits[m] \in Int
    BY <1>2, SessionNumbers DEF Terms, Optional, None
  <2>2. CASE heap'[o].terms = Widened(heap[o].terms, loc[t].am)
    BY <1>2, <2>1, <2>2, AmendedTerms
  <2>3. CASE heap'[o].terms = Raised(heap[o].terms, loc[t].am)
    BY <1>2, <2>3, AmendedTerms
  <2> QED BY <1>2, <2>2, <2>3
<1>4. /\ heap'[o].live = heap[o].live /\ heap'[o].calls_made = heap[o].calls_made
      /\ heap'[o].consumed = heap[o].consumed
  BY HeapFrame
<1>5. /\ pc[t] \notin Unsettled /\ pc'[t] \notin Unsettled
      /\ pc[t] \notin Billing /\ pc'[t] \notin Billing
  BY <1>2 DEF Unsettled, Billing
<1>6. Dues(o)' = Dues(o)
  BY <1>1, <1>5, OwnAccount
<1>7. ASSUME NEW m \in Meters PROVE Spent(o, m)' = Spent(o, m)
  <2>1. Pending(pc[t], loc[t], m) = 0 /\ Pending(pc'[t], loc'[t], m) = 0
    BY <1>5 DEF Pending
  <2> QED BY <1>1, <1>4, <2>1, OwnAccount
<1> DEFINE accounts == [x \in Objs |-> Account(x)]
<1>8. PICK a, b : a = Account(o) /\ b = Account(o)'
  OBVIOUS
<1>9. /\ a = [open |-> a.open, made |-> a.made, spent |-> a.spent, max_calls |-> a.max_calls,
              limits |-> a.limits, tools |-> a.tools, due |-> a.due]
      /\ a.max_calls = heap[o].terms.max_calls /\ a.limits = heap[o].terms.limits
  BY <1>8 DEF Account
<1>10. /\ b = [open |-> b.open, made |-> b.made, spent |-> b.spent, max_calls |-> b.max_calls,
               limits |-> b.limits, tools |-> b.tools, due |-> b.due]
       /\ b.max_calls = heap'[o].terms.max_calls /\ b.limits = heap'[o].terms.limits
  BY <1>8 DEF Account
<1>11. b.open = a.open /\ b.made = a.made
  BY <1>4, <1>8 DEF Account
<1>12. b.due = a.due
  BY <1>6, <1>8 DEF Account, Dues
<1>13. b.spent = a.spent
  <2>1. a.spent = [m \in Meters |-> Spent(o, m)] /\ b.spent = [m \in Meters |-> Spent(o, m)']
    BY <1>8 DEF Account
  <2> QED BY <1>7, <2>1
<1>14. b = [a EXCEPT !.tools = b.tools, !.max_calls = b.max_calls, !.limits = b.limits]
  BY <1>9, <1>10, <1>11, <1>12, <1>13, AmendedAccount
<1>15. /\ IF a.max_calls = None THEN b.max_calls = None ELSE b.max_calls >= a.max_calls
       /\ \A m \in Meters : a.limits[m] # None => b.limits[m] >= a.limits[m]
  BY <1>3, <1>9, <1>10
<1>16. accounts[sessions[sid]] = a /\ accounts' = [accounts EXCEPT ![sessions[sid]] = b]
  BY <1>1, <1>8, OneAccount
<1>17. sessions' = sessions /\ sessions[sid] # Null
  BY <1>1, HandleFrame, NullAssumption
<1>18. accounts'[sessions[sid]] = b
  BY <1>1, <1>8
<1> HIDE DEF accounts
<1>19. Adm!Amend(sid)
  BY <1>14, <1>15, <1>16, <1>17, <1>18, Zenon DEF Adm!Amend, accounts
<1> QED BY <1>19 DEF Adm!Next

\* Every other step of a handler leaves the accounts as they are.
LEMMA HandleStep ==
  ASSUME Serial, SerialInv, SerialInv', BudgetInv, NEW t \in Threads, Handle(t)
  PROVE  Adm!Next \/ UNCHANGED Adm!vars
<1>1. PICK o \in Objs : o = loc[t].obj /\ pc[t] \in PCs \ {"idle"} /\ sessions' = sessions
  BY HandleFrame DEF SerialInv, TypeInv, TypeOK, Bound, Holds, Idle
<1>2. ASSUME Account(o)' = Account(o) PROVE UNCHANGED Adm!vars
  <2>1. \A x \in Objs : Account(x)' = Account(x)
    BY <1>1, <1>2, OtherAccounts
  <2> QED BY <1>1, <2>1 DEF Adm!vars
<1>3. CASE pc[t] \in {"record_open", "scope", "budget", "policy", "judge", "judging", "judged",
                     "load_calls", "record_result", "amend_judge", "record_amend"}
  BY <1>1, <1>2, <1>3, CheckAccount
<1>4. CASE pc[t] \in Billing
  BY <1>1, <1>2, <1>4, BillAccount
<1>5. CASE pc[t] = "record_served"
  BY <1>1, <1>2, <1>5, ServeAccount
<1>6. CASE pc[t] = "forward"
  <2>1. UpstreamFails(t) \/ UpstreamReturns(t) \/ UpstreamReports(t)
    BY <1>6, Dispatch
  <2> QED BY <1>1, <1>2, <2>1, ServeAccount, ReturnStep
<1>7. CASE pc[t] \in {"store_calls", "reconcile", "widen_scope", "raise_budget"}
  BY <1>7, AdmitStep, ReconcileStep, AmendStep
<1> QED BY <1>1, <1>3, <1>4, <1>5, <1>6, <1>7 DEF PCs, Billing

\* A request that opens no session leaves them too; one that does opens an account.
LEMMA BeginStep ==
  ASSUME Serial, SerialInv, SerialInv', NEW t \in Threads, NEW sid \in Sids, Begin(t, sid)
  PROVE  Adm!Next \/ UNCHANGED Adm!vars
<1>0. \/ heap' = heap /\ sessions' = sessions
      \/ \E c \in Commitments, o \in Objs :
           /\ ~heap[o].live /\ heap' = [heap EXCEPT ![o] = NewSession(c)]
           /\ sessions' = [sessions EXCEPT ![sid] = o]
  <2>1. \/ /\ heap' = heap /\ sessions' = sessions
           /\ pc'[t] \in {"idle", "scope", "widen_scope"}
        \/ \E c \in Commitments, o \in Objs :
             /\ ~heap[o].live
             /\ heap' = [heap EXCEPT ![o] = NewSession(c)]
             /\ sessions' = [sessions EXCEPT ![sid] = o]
             /\ pc'[t] = "record_open"
             /\ loc'[t] = [NoLocal EXCEPT !.sid = sid, !.obj = o, !.digest = OpenDigest(c)]
    BY BeginHeap, Zenon DEF SerialInv
  <2> QED BY <2>1, Zenon
<1>. USE DEF SerialInv, TypeInv, TypeOK
<1>1. /\ \A u \in Threads : pc[u] = "idle"
      /\ \A u \in Threads : pc'[u] = "idle" \/ (u = t /\ pc'[u] \in {"scope", "widen_scope", "record_open"})
  <2>1. \A u \in Threads \ {t} : pc[u] = "idle" /\ pc'[u] = "idle"
    BY OthersIdle
  <2>2. pc[t] = "idle"
    BY BeginFrame DEF Accept, Idle
  <2>3. pc'[t] \in {"idle", "scope", "widen_scope", "record_open"}
    BY BeginHeap
  <2> QED BY <2>1, <2>2, <2>3
<1>2. ASSUME NEW o \in Objs
      PROVE  /\ Dues(o) = {} /\ Dues(o)' = {}
             /\ \A m \in Meters : Spent(o, m) = heap[o].consumed[m]
             /\ \A m \in Meters : Spent(o, m)' = heap'[o].consumed[m]
  <2>1. Dues(o) = {} /\ \A m \in Meters : Spent(o, m) = heap[o].consumed[m]
    BY <1>1, ReadAccounts DEF Readable
  <2>2. heap'[o] \in Session
    OBVIOUS
  <2>3. CASE \A u \in Threads : pc'[u] = "idle" \/ loc'[u].obj # o
    BY <2>1, <2>3, ReadAccountsNext DEF Readable
  <2>4. CASE pc'[t] # "idle" /\ loc'[t].obj = o
    <3>1. pc'[t] \notin Unsettled /\ pc'[t] \notin Billing
      BY <1>1, <2>4 DEF Unsettled, Billing
    <3>2. \A m \in Meters : Pending(pc'[t], loc'[t], m) = 0 /\ heap'[o].consumed[m] \in Int
      BY <2>2, <3>1, SessionNumbers DEF Pending
    <3>3. /\ Dues(o)' = {}
          /\ \A m \in Meters : Spent(o, m)' = heap'[o].consumed[m] + Pending(pc'[t], loc'[t], m)
      BY <2>4, <3>1, ReadAccountsNext DEF Readable
    <3> QED BY <2>1, <3>2, <3>3
  <2> QED BY <1>1, <2>3, <2>4
<1>3. ASSUME NEW o \in Objs, heap'[o] = heap[o] PROVE Account(o)' = Account(o)
  BY <1>2, <1>3, SameAccount
<1>4. CASE heap' = heap /\ sessions' = sessions
  BY <1>3, <1>4 DEF Adm!vars
<1>5. ASSUME NEW c \in Commitments, NEW o \in Objs, ~heap[o].live,
             heap' = [heap EXCEPT ![o] = NewSession(c)], sessions' = [sessions EXCEPT ![sid] = o]
      PROVE  Adm!Next
  <2> DEFINE accounts == [x \in Objs |-> Account(x)]
  <2>1. /\ heap'[o] = NewSession(c) /\ NewSession(c).live /\ NewSession(c).calls_made = 0
        /\ NewSession(c).consumed = [m \in Meters |-> 0]
    BY <1>5 DEF NewSession, Free
  <2>2. \A x \in Objs \ {o} : Account(x)' = Account(x)
    BY <1>3, <1>5
  <2>3. accounts' = [accounts EXCEPT ![o] = Account(o)']
    BY <2>2
  <2>4. accounts[o] = Account(o) /\ accounts'[o] = Account(o)'
    OBVIOUS
  <2>5. ~Account(o).open
    BY <1>5 DEF Account
  <2>6. Account(o)'.open /\ Account(o)'.made = 0
    BY <2>1 DEF Account
  <2>7. Account(o)'.due = {}
    BY <1>2 DEF Account, Dues
  <2>8. Account(o)'.spent = [m \in Meters |-> 0]
    <3>1. Account(o)'.spent = [m \in Meters |-> Spent(o, m)']
      BY DEF Account
    <3>2. \A m \in Meters : Spent(o, m)' = 0
      BY <1>2, <2>1
    <3> QED BY <3>1, <3>2
  <2>9. PICK a, b : a = Account(o) /\ b = Account(o)'
    OBVIOUS
  <2>10. /\ ~a.open /\ b.open /\ b.made = 0 /\ b.due = {} /\ b.spent = [m \in Meters |-> 0]
         /\ accounts[o] = a /\ accounts'[o] = b /\ accounts' = [accounts EXCEPT ![o] = b]
    BY <2>3, <2>4, <2>5, <2>6, <2>7, <2>8, <2>9
  <2> HIDE DEF accounts
  <2>11. Adm!Open(sid, o)
    BY <1>5, <2>10, Zenon DEF Adm!Open, accounts
  <2> QED BY <2>11 DEF Adm!Next
<1> QED BY <1>0, <1>4, <1>5

\* A deadline is no part of an account.
LEMMA DeadlineStep ==
  ASSUME SerialInv, NEW o \in Objs, DeadlinePasses(o)
  PROVE  UNCHANGED Adm!vars
<1>. USE DEF SerialInv, TypeInv, TypeOK
<1>1. sessions' = sessions /\ pc' = pc /\ loc' = loc
  BY DEF DeadlinePasses
<1>2. ASSUME NEW x \in Objs
      PROVE  /\ heap'[x].live = heap[x].live /\ heap'[x].calls_made = heap[x].calls_made
             /\ heap'[x].consumed = heap[x].consumed
             /\ heap'[x].terms.max_calls = heap[x].terms.max_calls
             /\ heap'[x].terms.limits = heap[x].terms.limits
             /\ heap'[x].terms.tools_allow = heap[x].terms.tools_allow
             /\ heap'[x].terms.tools_deny = heap[x].terms.tools_deny
  <2>1. heap[x] \in Session /\ heap[x].terms \in Terms
    BY DEF Session
  <2>2. CASE x = o
    <3>1. heap'[x] = [heap[x] EXCEPT !.terms = [heap[x].terms EXCEPT !.deadline = "past"]]
      BY <2>2 DEF DeadlinePasses
    <3>2. heap'[x].terms = [heap[x].terms EXCEPT !.deadline = "past"]
      BY <2>1, <3>1 DEF Session
    <3> QED BY <2>1, <3>1, <3>2 DEF Session, Terms
  <2>3. CASE x # o
    BY <2>3 DEF DeadlinePasses
  <2> QED BY <2>2, <2>3
<1>3. ASSUME NEW x \in Objs PROVE Account(x)' = Account(x)
  <2>1. Dues(x)' = Dues(x)
    BY <1>1 DEF Dues
  <2>2. ASSUME NEW m \in Meters PROVE Spent(x, m)' = Spent(x, m)
    BY <1>1, <1>2 DEF Spent, Bills, Owed
  <2> QED BY <1>2, <2>1, <2>2, SameAccount
<1> QED BY <1>1, <1>3 DEF Adm!vars

\* The serial engine implements Admission: its checks, the judge and the billing of a call
\* amount to one step that admits it within scope and budget, and one that settles it, for
\* any tools, costs, patterns and amendments (verify_call, reconcile_cost, amend).
THEOREM AdmissionIsImplemented ==
  ASSUME Serial
  PROVE  Spec => AdmissionImplemented
<1>1. Init => SerialInv /\ BudgetInv
  BY SerialInvInit, BudgetInit
<1>2. SerialInv /\ BudgetInv /\ [Next]_vars => (SerialInv /\ BudgetInv)'
  BY SerialInvStep, BudgetStep
<1>3. Init => Adm!Init
  BY DEF Init, Adm!Init, Account, Free
<1>4. SerialInv /\ SerialInv' /\ BudgetInv /\ [Next]_vars => [Adm!Next]_(Adm!vars)
  <2> SUFFICES ASSUME SerialInv, SerialInv', BudgetInv, [Next]_vars
               PROVE  Adm!Next \/ UNCHANGED Adm!vars
    OBVIOUS
  <2>1. ASSUME UNCHANGED vars PROVE UNCHANGED Adm!vars
    BY <2>1 DEF vars, Adm!vars, Account, Spent, Bills, Owed, InScope
  <2> QED BY <2>1, HandleStep, BeginStep, DeadlineStep DEF Next
<1> QED BY <1>1, <1>2, <1>3, <1>4, PTL DEF Spec, AdmissionImplemented, Adm!Spec

-----------------------------------------------------------------------------
(* What the log says a Session owes *)

\* What a served call owes on a meter.
Owes(i, m) == ToolCost(i, m) + JudgeCost(i, m)

\* What the calls that a Session has served owe.
Total(o, m) == SumFunction([i \in ServedOf(o) |-> Owes(i, m)])

\* Served calls name a tool.
Named == \A o \in Objs : \A i \in ServedOf(o) : audit[i].tool \in Tools

\* The log after one more record.
LEMMA LogAppended ==
  ASSUME TypeInv, NEW r, audit' = Append(audit, r)
  PROVE  /\ Len(audit) \in Nat /\ DOMAIN audit = 1..Len(audit)
         /\ DOMAIN audit' = DOMAIN audit \cup {Len(audit) + 1}
         /\ Len(audit) + 1 \notin DOMAIN audit
         /\ audit'[Len(audit) + 1] = r /\ \A j \in DOMAIN audit : audit'[j] = audit[j]
  BY DEF TypeInv, TypeOK

LEMMA ServedFinite ==
  ASSUME TypeInv, NEW o
  PROVE  IsFiniteSet(ServedOf(o)) /\ Cardinality(ServedOf(o)) \in Nat
<1>1. IsFiniteSet(1..Len(audit)) /\ DOMAIN audit = 1..Len(audit)
  BY FS_Interval DEF TypeInv, TypeOK
<1>2. IsFiniteSet(ServedOf(o))
  BY <1>1, FS_Subset DEF ServedOf, CallsOf
<1> QED BY <1>2, FS_CardinalityType

\* What a served call owes is a number.
LEMMA OwesInt ==
  ASSUME TypeInv, Named, NEW o \in Objs, NEW i \in ServedOf(o), NEW m \in Meters
  PROVE  /\ Owes(i, m) \in Int /\ JudgeCost(i, m) \in Int
         /\ Amount(Estimate[audit[i].tool][m]) \in Int
<1>1. /\ \A x \in DOMAIN audit : audit[x] \in Entry
      /\ i \in DOMAIN audit /\ audit[i].tool \in Tools
  BY DEF TypeInv, TypeOK, Named, ServedOf, CallsOf
<1>2. Amount(Estimate[audit[i].tool][m]) \in Int
  BY <1>1, CostType
<1>3. JudgeCost(i, m) \in Int
  BY <1>1 DEF JudgeCost, Entry
<1>4. ToolCost(i, m) \in Int
  <2> DEFINE reports == {r \in ResultsOf(i) : audit[r].reported[m] # None}
  <2>1. CASE reports = {}
    BY <1>2, <2>1 DEF ToolCost
  <2>2. CASE reports # {}
    <3>1. PICK x \in reports : x = CHOOSE r \in reports : TRUE
      BY <2>2
    <3>2. audit[x] \in Entry
      BY <1>1 DEF ResultsOf
    <3>3. audit[x].reported[m] \in Int
      BY <3>2 DEF Entry, Report, Optional, None
    <3> QED BY <2>2, <3>1, <3>3 DEF ToolCost
  <2> QED BY <2>1, <2>2
<1> QED BY <1>2, <1>3, <1>4 DEF Owes

\* So is what all of them do.
LEMMA TotalInt ==
  ASSUME TypeInv, Named, NEW o \in Objs, NEW m \in Meters
  PROVE  Total(o, m) \in Int
<1> DEFINE f == [i \in ServedOf(o) |-> Owes(i, m)]
<1>1. \A i \in ServedOf(o) : f[i] \in Int
  BY OwesInt
<1>2. DOMAIN f = ServedOf(o)
  OBVIOUS
<1> HIDE DEF f
<1>3. SumFunctionOnSet(f, ServedOf(o)) \in Int
  BY <1>1, ServedFinite, SumInt
<1> QED BY <1>2, <1>3 DEF Total, SumFunction, f

\* A record that is neither a served call nor its result leaves what a call owes.
LEMMA OwesStays ==
  ASSUME TypeInv, NEW r, audit' = audit \/ audit' = Append(audit, r),
         NEW o, NEW i \in ServedOf(o), ~(r.kind = "result" /\ r.ref = i), NEW m
  PROVE  Owes(i, m)' = Owes(i, m)
<1>1. ResultsOf(i)' = ResultsOf(i)
  BY LogGrows
<1>2. \A x \in DOMAIN audit : audit'[x] = audit[x]
  BY LogAppended
<1>3. audit'[i] = audit[i]
  BY <1>2 DEF ServedOf, CallsOf
<1>4. {x \in ResultsOf(i)' : audit'[x].reported[m] # None} = {x \in ResultsOf(i) : audit[x].reported[m] # None}
  BY <1>1, <1>2 DEF ResultsOf
<1>5. ASSUME NEW x, x = CHOOSE y \in {z \in ResultsOf(i) : audit[z].reported[m] # None} : TRUE,
             {z \in ResultsOf(i) : audit[z].reported[m] # None} # {}
      PROVE  audit'[x] = audit[x]
  BY <1>2, <1>5 DEF ResultsOf
<1>6. ToolCost(i, m)' = ToolCost(i, m)
  <2>1. PICK reports : reports = {x \in ResultsOf(i) : audit[x].reported[m] # None}
    OBVIOUS
  <2>2. CASE reports = {}
    BY <1>3, <1>4, <2>1, <2>2 DEF ToolCost
  <2>3. CASE reports # {}
    <3>1. PICK x : x = CHOOSE y \in reports : TRUE
      OBVIOUS
    <3>2. audit'[x] = audit[x]
      BY <1>5, <2>1, <2>3, <3>1
    <3>3. ToolCost(i, m) = audit[x].reported[m]
      BY <2>1, <2>3, <3>1 DEF ToolCost
    <3>4. ToolCost(i, m)' = audit'[x].reported[m]
      BY <1>4, <2>1, <2>3, <3>1 DEF ToolCost
    <3> QED BY <3>2, <3>3, <3>4
  <2> QED BY <2>2, <2>3
<1>7. JudgeCost(i, m)' = JudgeCost(i, m)
  BY <1>3 DEF JudgeCost
<1> QED BY <1>6, <1>7 DEF Owes

\* The calls of the Session stay what they were.
LEMMA ServedStays ==
  ASSUME TypeInv, NEW r, audit' = audit \/ audit' = Append(audit, r),
         NEW o, audit' = audit \/ ~(r.kind = "call" /\ r.verdict = "served" /\ r.obj = o)
  PROVE  ServedOf(o)' = ServedOf(o)
<1>1. CASE audit' = audit
  BY <1>1 DEF ServedOf, CallsOf
<1>2. CASE audit' # audit
  BY <1>2, LogAppended DEF ServedOf, CallsOf
<1> QED BY <1>1, <1>2

LEMMA TotalStays ==
  ASSUME TypeInv, NEW r, audit' = audit \/ audit' = Append(audit, r), NEW o,
         audit' = audit \/ ~(r.kind = "call" /\ r.verdict = "served" /\ r.obj = o),
         r.kind = "result" => r.ref \notin ServedOf(o)
  PROVE  ServedOf(o)' = ServedOf(o) /\ \A m : Total(o, m)' = Total(o, m)
<1>1. ServedOf(o)' = ServedOf(o)
  BY ServedStays
<1>2. ASSUME NEW m PROVE Total(o, m)' = Total(o, m)
  <2>1. \A i \in ServedOf(o) : Owes(i, m)' = Owes(i, m)
    BY OwesStays
  <2>2. [i \in ServedOf(o) |-> Owes(i, m)]' = [i \in ServedOf(o) |-> Owes(i, m)]
    BY <1>1, <2>1
  <2> QED BY <2>2 DEF Total
<1> QED BY <1>1, <1>2

\* One more served call owes its estimate and its judge tokens.
LEMMA TotalGrows ==
  ASSUME TypeInv, ResultsPaired, Named, NEW r \in Entry, audit' = Append(audit, r),
         NEW o \in Objs, r.kind = "call", r.verdict = "served", r.obj = o, r.tool \in Tools
  PROVE  /\ Len(audit) + 1 \in ServedOf(o)'
         /\ Cardinality(ServedOf(o)') = Cardinality(ServedOf(o)) + 1
         /\ \A m \in Meters : Total(o, m)' = Total(o, m) + Cost(r.tool, r.jtok)[m]
<1>0. PICK n : n = Len(audit) + 1
  OBVIOUS
<1>1. ServedOf(o)' = ServedOf(o) \cup {n} /\ n \notin ServedOf(o)
  BY <1>0, LogAppended DEF ServedOf, CallsOf
<1>2. Cardinality(ServedOf(o)') = Cardinality(ServedOf(o)) + 1
  BY <1>1, ServedFinite, FS_AddElement
<1>3. \A x \in DOMAIN audit : audit[x].kind = "result" => audit[x].ref # n
  BY <1>0, LogAppended DEF ResultsPaired
<1>4. ResultsOf(n)' = {}
  BY <1>0, <1>3, LogAppended DEF ResultsOf
<1>5. ASSUME NEW m \in Meters
      PROVE  Total(o, m)' = Total(o, m) + Cost(r.tool, r.jtok)[m]
  <2>1. Owes(n, m)' = Cost(r.tool, r.jtok)[m]
    <3>1. audit'[n] = r
      BY <1>0, LogAppended
    <3>2. ToolCost(n, m)' = Amount(Estimate[r.tool][m])
      BY <1>4, <3>1 DEF ToolCost
    <3>3. JudgeCost(n, m)' = IF m = TokensMeter THEN r.jtok ELSE 0
      BY <3>1 DEF JudgeCost
    <3> QED BY <3>2, <3>3 DEF Owes, Cost
  <2>2. \A i \in ServedOf(o) : Owes(i, m)' = Owes(i, m)
    BY OwesStays
  <2>3. Cost(r.tool, r.jtok)[m] \in Int
    BY CostType DEF Entry
  <2> DEFINE f == [i \in ServedOf(o) |-> Owes(i, m)]
             g == [i \in ServedOf(o) \cup {n} |-> Owes(i, m)']
  <2>4. \A i \in ServedOf(o) : g[i] = f[i] /\ f[i] \in Int
    BY <2>2, OwesInt
  <2>5. g[n] = Cost(r.tool, r.jtok)[m] /\ DOMAIN g = ServedOf(o) \cup {n} /\ DOMAIN f = ServedOf(o)
    BY <2>1
  <2>6. Total(o, m) = SumFunctionOnSet(f, ServedOf(o))
    BY DEF Total, SumFunction
  <2>7. Total(o, m)' = SumFunctionOnSet(g, ServedOf(o) \cup {n})
    BY <1>1 DEF Total, SumFunction
  <2> HIDE DEF f, g
  <2>8. SumFunctionOnSet(g, ServedOf(o) \cup {n}) = g[n] + SumFunctionOnSet(g, ServedOf(o))
    BY <1>1, <2>3, <2>4, <2>5, ServedFinite, SumAdd
  <2>9. SumFunctionOnSet(g, ServedOf(o)) = SumFunctionOnSet(f, ServedOf(o))
    BY <2>4, ServedFinite, SumSame
  <2>10. SumFunctionOnSet(f, ServedOf(o)) \in Int
    BY <2>4, ServedFinite, SumInt
  <2> QED BY <2>3, <2>5, <2>6, <2>7, <2>8, <2>9, <2>10
<1> QED BY <1>0, <1>1, <1>2, <1>5

\* The result of a call sets what it reports in the place of the estimate.
LEMMA TotalChanges ==
  ASSUME TypeInv, Named, NEW r \in Entry, audit' = Append(audit, r), r.kind = "result",
         NEW o \in Objs, r.ref \in ServedOf(o), ResultsOf(r.ref) = {}
  PROVE  /\ ServedOf(o)' = ServedOf(o)
         /\ \A m \in Meters :
              Total(o, m)' = Total(o, m) + IF r.reported[m] = None THEN 0
                                           ELSE r.reported[m] - Amount(Estimate[audit[r.ref].tool][m])
<1>0. PICK n : n = Len(audit) + 1
  OBVIOUS
<1> DEFINE j == r.ref
<1>1. ServedOf(o)' = ServedOf(o)
  BY ServedStays
<1>2. ResultsOf(j)' = {n}
  BY <1>0, LogAppended DEF ResultsOf
<1>3. j \in DOMAIN audit /\ audit'[j] = audit[j] /\ audit'[n] = r
  BY <1>0, LogAppended DEF ServedOf, CallsOf
<1>4. ASSUME NEW m \in Meters
      PROVE  Total(o, m)' = Total(o, m) + IF r.reported[m] = None THEN 0
                                          ELSE r.reported[m] - Amount(Estimate[audit[j].tool][m])
  <2> DEFINE d == IF r.reported[m] = None THEN 0
                  ELSE r.reported[m] - Amount(Estimate[audit[j].tool][m])
  <2>1. /\ Owes(j, m) \in Int /\ JudgeCost(j, m) \in Int
        /\ Amount(Estimate[audit[j].tool][m]) \in Int /\ r.reported[m] \in Int
    BY OwesInt DEF Entry, Report, Optional, None
  <2>2. ToolCost(j, m) = Amount(Estimate[audit[j].tool][m])
    BY DEF ToolCost
  <2>3. ToolCost(j, m)' = IF r.reported[m] = None THEN Amount(Estimate[audit[j].tool][m])
                          ELSE r.reported[m]
    <3>1. CASE r.reported[m] = None
      <4>1. {x \in ResultsOf(j)' : audit'[x].reported[m] # None} = {}
        BY <1>2, <1>3, <3>1
      <4> QED BY <1>3, <3>1, <4>1 DEF ToolCost
    <3>2. CASE r.reported[m] # None
      <4>1. {x \in ResultsOf(j)' : audit'[x].reported[m] # None} = {n}
        BY <1>2, <1>3, <3>2
      <4>2. (CHOOSE x \in {n} : TRUE) = n
        OBVIOUS
      <4>3. ToolCost(j, m)' = audit'[n].reported[m]
        BY <4>1, <4>2 DEF ToolCost
      <4> QED BY <1>3, <3>2, <4>3
    <3> QED BY <3>1, <3>2
  <2>4. JudgeCost(j, m)' = JudgeCost(j, m)
    BY <1>3 DEF JudgeCost
  <2>5. Owes(j, m)' = Owes(j, m) + d /\ d \in Int
    BY <2>1, <2>2, <2>3, <2>4 DEF Owes
  <2>6. \A i \in ServedOf(o) \ {j} : Owes(i, m)' = Owes(i, m)
    BY OwesStays
  <2> HIDE DEF d
  <2> DEFINE f == [i \in ServedOf(o) |-> Owes(i, m)]
             g == [i \in ServedOf(o) |-> Owes(i, m)']
  <2>7. \A i \in ServedOf(o) : f[i] \in Int
    BY OwesInt
  <2>8. g[j] = f[j] + d /\ \A i \in ServedOf(o) \ {j} : g[i] = f[i]
    BY <2>5, <2>6
  <2>9. Total(o, m) = SumFunctionOnSet(f, ServedOf(o))
    BY DEF Total, SumFunction
  <2>10. Total(o, m)' = SumFunctionOnSet(g, ServedOf(o))
    BY <1>1 DEF Total, SumFunction
  <2> HIDE DEF f, g
  <2>11. \A i \in ServedOf(o) : g[i] \in Int
    BY <2>5, <2>7, <2>8
  <2>12. SumFunctionOnSet(g, ServedOf(o)) = SumFunctionOnSet(f, ServedOf(o)) + g[j] - f[j]
    BY <2>7, <2>8, <2>11, ServedFinite, SumChange
  <2>13. SumFunctionOnSet(f, ServedOf(o)) \in Int
    BY <2>7, ServedFinite, SumInt
  <2> QED BY <2>5, <2>7, <2>8, <2>9, <2>10, <2>12, <2>13 DEF d
<1> QED BY <1>1, <1>4

-----------------------------------------------------------------------------
(* The inductive invariant *)

\* The call is counted, and its record is yet to be logged.
Charged == {"load_meter", "store_meter", "record_served"}

\* The report is being billed, or has been, and its record is yet to be logged.
Corrected == {"load_delta", "store_delta", "record_result"}

\* What the counters have, or are about to have, and the log does not say yet.
Unlogged(p, l, m) ==
  IF p \in Charged THEN Cost(l.tool, l.jtok)[m]
  ELSE IF p \in Corrected /\ l.reported[m] # None
       THEN l.reported[m] - Amount(Estimate[l.tool][m]) ELSE 0

\* What a handler at step p with locals l remembers of its call.
Remembered(p, l) ==
  /\ p \notin Corrected \cup {"reconcile"} => l.reported = Nothing
  /\ p \in {"load_meter", "store_meter"} => l.bill = Cost(l.tool, l.jtok)
  /\ p \in Answering => l.ref \in ServedOf(l.obj) /\ audit[l.ref].tool = l.tool

\* The counters of Session o are the log's account but for that handler's share.
Booked(p, l, o) ==
  /\ heap[o].calls_made = Cardinality(ServedOf(o)) + IF p \in Charged THEN 1 ELSE 0
  /\ \A m \in Meters : heap[o].consumed[m] + Pending(p, l, m) = Total(o, m) + Unlogged(p, l, m)

LedgerInv ==
  /\ Named
  /\ \A o \in Objs : ~heap[o].live => ServedOf(o) = {}
  /\ \A t \in Threads : pc[t] # "idle" =>
       Remembered(pc[t], loc[t]) /\ Booked(pc[t], loc[t], loc[t].obj)
  /\ \A o \in Objs : (\A t \in Threads : pc[t] = "idle" \/ loc[t].obj # o) =>
       Booked("idle", NoLocal, o)

-----------------------------------------------------------------------------
(* What a handler's step logs *)

\* A served call for its own Session, with its tool and judge tokens, ...
LEMMA LogsServed ==
  ASSUME TypeInv, NEW t \in Threads, Handle(t), pc[t] = "record_served"
  PROVE  \E r \in Entry :
           /\ audit' = Append(audit, r) /\ r.kind = "call" /\ r.verdict = "served"
           /\ r.obj = loc[t].obj /\ r.tool = loc[t].tool /\ r.jtok = loc[t].jtok
<1> DEFINE r == CallRecord(loc[t], "served")
<1>1. r \in Entry
  BY CallRecordType DEF TypeInv, TypeOK, Bound, Holds, Verdicts
<1>2. audit' = Append(audit, r)
  BY Dispatch DEF RecordServed
<1>3. /\ r.kind = "call" /\ r.verdict = "served"
      /\ r.obj = loc[t].obj /\ r.tool = loc[t].tool /\ r.jtok = loc[t].jtok
  BY DEF CallRecord, Record
<1> HIDE DEF r
<1> QED BY <1>1, <1>2, <1>3

\* ... or the result of that call, with its report, ...
LEMMA LogsResult ==
  ASSUME TypeInv, NEW t \in Threads, Handle(t), pc[t] = "record_result"
  PROVE  \E r \in Entry :
           /\ audit' = Append(audit, r) /\ r.kind = "result"
           /\ r.ref = loc[t].ref /\ r.reported = loc[t].reported
<1> DEFINE q == Record("result", loc[t].sid, loc[t].obj, "served", Null)
           r == [q EXCEPT !.ref = loc[t].ref, !.reported = loc[t].reported]
<1>1. q \in Entry
  BY RecordType DEF TypeInv, TypeOK, Bound, Holds, Verdicts
<1>2. r \in Entry
  BY <1>1 DEF TypeInv, TypeOK, Local, Entry
<1>3. audit' = Append(audit, r)
  BY Dispatch DEF RecordResult, Answer, AnsweredRef
<1>4. r.kind = "result" /\ r.ref = loc[t].ref /\ r.reported = loc[t].reported
  BY <1>1 DEF Record, Entry
<1> HIDE DEF r
<1> QED BY <1>2, <1>3, <1>4

\* ... or a record that is neither.
LEMMA LogsElse ==
  ASSUME TypeInv, NEW t \in Threads, Handle(t), pc[t] \notin {"record_served", "record_result"}
  PROVE  \E r : /\ audit' = audit \/ audit' = Append(audit, r)
                /\ ~(r.kind = "call" /\ r.verdict = "served") /\ r.kind # "result"
  BY Logged

\* So the other Sessions' accounts of the log stay, and every served call names a tool.
LEMMA OtherTotals ==
  ASSUME SerialInv, LedgerInv, NEW t \in Threads, Handle(t), NEW o \in Objs,
         o # loc[t].obj \/ pc[t] \notin {"record_served", "record_result"}
  PROVE  ServedOf(o)' = ServedOf(o) /\ \A m : Total(o, m)' = Total(o, m)
<1>. USE DEF SerialInv
<1>1. CASE pc[t] = "record_served"
  <2>1. PICK r \in Entry : audit' = Append(audit, r) /\ r.kind = "call" /\ r.obj = loc[t].obj
    BY <1>1, LogsServed
  <2> QED BY <1>1, <2>1, TotalStays
<1>2. CASE pc[t] = "record_result"
  <2>1. PICK r \in Entry : audit' = Append(audit, r) /\ r.kind = "result" /\ r.ref = loc[t].ref
    BY <1>2, LogsResult
  <2>2. r.ref \in ServedOf(loc[t].obj)
    BY <1>2, <2>1 DEF LedgerInv, Remembered, Answering
  <2>3. r.ref \notin ServedOf(o)
    BY <1>2, <2>2 DEF ServedOf, CallsOf
  <2> QED BY <2>1, <2>3, TotalStays
<1>3. CASE pc[t] \notin {"record_served", "record_result"}
  <2>1. PICK r : /\ audit' = audit \/ audit' = Append(audit, r)
                 /\ ~(r.kind = "call" /\ r.verdict = "served") /\ r.kind # "result"
    BY <1>3, LogsElse
  <2> QED BY <2>1, TotalStays
<1> QED BY <1>1, <1>2, <1>3

LEMMA NamedStays ==
  ASSUME TypeInv, LedgerInv, NEW t \in Threads, Handle(t)
  PROVE  Named'
<1>1. PICK r : /\ audit' = audit \/ audit' = Append(audit, r)
               /\ r.kind = "call" /\ r.verdict = "served" => r.tool \in Tools
  <2>1. CASE pc[t] = "record_served"
    BY <2>1, LogsServed DEF TypeInv, Bound, Holds, CallSteps
  <2>2. CASE pc[t] = "record_result"
    BY <2>2, LogsResult
  <2> QED BY <2>1, <2>2, LogsElse
<1>2. CASE audit' = audit
  BY <1>2 DEF LedgerInv, Named, ServedOf, CallsOf
<1>3. CASE audit' = Append(audit, r)
  <2>1. ASSUME NEW o \in Objs, NEW i \in ServedOf(o)' PROVE audit'[i].tool \in Tools
    <3>1. i \in DOMAIN audit' /\ audit'[i].kind = "call" /\ audit'[i].verdict = "served"
          /\ audit'[i].obj = o
      BY <2>1 DEF ServedOf, CallsOf
    <3>2. CASE i = Len(audit) + 1
      BY <1>1, <1>3, <3>1, <3>2, LogAppended
    <3>3. CASE i \in DOMAIN audit
      <4>1. audit'[i] = audit[i]
        BY <1>3, <3>3, LogAppended
      <4>2. i \in ServedOf(o)
        BY <3>1, <3>3, <4>1 DEF ServedOf, CallsOf
      <4> QED BY <4>1, <4>2 DEF LedgerInv, Named
    <3> QED BY <1>3, <3>1, <3>2, <3>3, LogAppended
  <2> QED BY <2>1 DEF Named
<1> QED BY <1>1, <1>2, <1>3

-----------------------------------------------------------------------------
(* What a handler's step books *)

\* What is pending, and what is not logged, are numbers.
Shares ==
  \A t \in Threads : \A m \in Meters :
    Pending(pc[t], loc[t], m) \in Int /\ Unlogged(pc[t], loc[t], m) \in Int

LEMMA ShareInt == TypeInv => Shares
<1> SUFFICES ASSUME TypeInv, NEW t \in Threads, NEW m \in Meters
             PROVE  Pending(pc[t], loc[t], m) \in Int /\ Unlogged(pc[t], loc[t], m) \in Int
  BY DEF Shares
<1>1. loc[t] \in Local /\ (pc[t] \in Charged \cup Corrected => loc[t].tool \in Tools)
  BY DEF TypeInv, TypeOK, Bound, Holds, CallSteps, Charged, Corrected
<1>2. Pending(pc[t], loc[t], m) \in Int
  BY <1>1 DEF Pending, Local
<1>3. loc[t].jtok \in Nat /\ loc[t].reported[m] \in Int
  BY <1>1 DEF Local, Report, Optional, None
<1>4. pc[t] \in Charged \cup Corrected =>
        Cost(loc[t].tool, loc[t].jtok)[m] \in Int /\ Amount(Estimate[loc[t].tool][m]) \in Int
  BY <1>1, <1>3, CostType
<1>5. Unlogged(pc[t], loc[t], m) \in Int
  BY <1>3, <1>4 DEF Unlogged
<1> QED BY <1>2, <1>5

\* The same of the next state.
LEMMA ShareIntNext == TypeInv' => Shares'
  BY ShareInt, PTL

\* A step that logs neither call nor result keeps the books if it moves the counters as it
\* moves the handler's share.
LEMMA BooksBalance ==
  ASSUME SerialInv, SerialInv', LedgerInv, NEW t \in Threads, Handle(t),
         pc[t] \notin {"record_served", "record_result"}, NEW o \in Objs, o = loc[t].obj,
         heap'[o].calls_made - (IF pc'[t] \in Charged THEN 1 ELSE 0)
           = heap[o].calls_made - (IF pc[t] \in Charged THEN 1 ELSE 0),
         \A m \in Meters :
           (heap'[o].consumed[m] + Pending(pc'[t], loc'[t], m)) - Unlogged(pc'[t], loc'[t], m)
             = (heap[o].consumed[m] + Pending(pc[t], loc[t], m)) - Unlogged(pc[t], loc[t], m)
  PROVE  Booked(pc[t], loc[t], o)'
<1>. USE DEF SerialInv
<1>1. Booked(pc[t], loc[t], o)
  BY HandleFrame DEF LedgerInv, Idle
<1>2. /\ heap[o].calls_made \in Int /\ heap'[o].calls_made \in Int
      /\ \A m \in Meters : heap[o].consumed[m] \in Int /\ heap'[o].consumed[m] \in Int
  BY DEF TypeInv, TypeOK, Session
<1>3. ServedOf(o)' = ServedOf(o) /\ \A m : Total(o, m)' = Total(o, m)
  BY OtherTotals
<1>4. Cardinality(ServedOf(o)) \in Nat /\ \A m \in Meters : Total(o, m) \in Int
  BY ServedFinite, TotalInt DEF LedgerInv
<1>5. Cardinality(ServedOf(o)') = Cardinality(ServedOf(o))
  BY <1>3
<1>6. heap'[o].calls_made = Cardinality(ServedOf(o)') + IF pc'[t] \in Charged THEN 1 ELSE 0
  BY <1>1, <1>2, <1>4, <1>5 DEF Booked
<1>7. ASSUME NEW m \in Meters
      PROVE  heap'[o].consumed[m] + Pending(pc'[t], loc'[t], m)
               = Total(o, m)' + Unlogged(pc'[t], loc'[t], m)
  <2>1. /\ Pending(pc[t], loc[t], m) \in Int /\ Unlogged(pc[t], loc[t], m) \in Int
        /\ Pending(pc'[t], loc'[t], m) \in Int /\ Unlogged(pc'[t], loc'[t], m) \in Int
    BY ShareInt, ShareIntNext DEF Shares
  <2>2. heap[o].consumed[m] + Pending(pc[t], loc[t], m) = Total(o, m) + Unlogged(pc[t], loc[t], m)
    BY <1>1 DEF Booked
  <2>3. Total(o, m)' = Total(o, m)
    BY <1>3
  <2> QED BY <1>2, <1>4, <2>1, <2>2, <2>3
<1> QED BY <1>6, <1>7 DEF Booked, Pending, Unlogged, Due

\* Where a handler that goes on writes its locals.
LEMMA CallLocals ==
  ASSUME TypeInv, NEW t \in Threads, Handle(t), pc'[t] # "idle"
  PROVE  /\ loc'[t].tool = loc[t].tool
         /\ pc[t] # "judging" => loc'[t].jtok = loc[t].jtok
         /\ pc[t] # "forward" => loc'[t].reported = loc[t].reported
         /\ pc[t] \notin {"store_calls", "reconcile"} => loc'[t].bill = loc[t].bill
         /\ pc[t] # "record_served" => loc'[t].ref = loc[t].ref
<1>. USE DEF TypeInv, TypeOK
<1>1. CASE pc[t] \in {"record_open", "scope", "budget", "policy", "judged", "store_meter", "store_delta",
                      "record_result", "widen_scope", "raise_budget", "record_amend"}
  <2>1. loc' = loc
    BY <1>1, QuietSteps
  <2> QED BY <2>1
<1>2. CASE pc[t] = "judge"
  <2>1. ASSUME NEW e, loc' = [loc EXCEPT ![t].outcome = e]
        PROVE  /\ loc'[t].tool = loc[t].tool /\ loc'[t].jtok = loc[t].jtok
               /\ loc'[t].reported = loc[t].reported /\ loc'[t].bill = loc[t].bill
               /\ loc'[t].ref = loc[t].ref
    BY <2>1 DEF Local
  <2>2. ASSUME NEW b, NEW d, loc' = [loc EXCEPT ![t].base = b, ![t].digest = d]
        PROVE  /\ loc'[t].tool = loc[t].tool /\ loc'[t].jtok = loc[t].jtok
               /\ loc'[t].reported = loc[t].reported /\ loc'[t].bill = loc[t].bill
               /\ loc'[t].ref = loc[t].ref
    BY <2>2 DEF Local
  <2>3. \/ \E e : loc' = [loc EXCEPT ![t].outcome = e]
        \/ \E b, d : loc' = [loc EXCEPT ![t].base = b, ![t].digest = d]
    BY <1>2, Dispatch DEF LookUpJudgement
  <2> QED BY <2>1, <2>2, <2>3
<1>3. CASE pc[t] = "judging"
  <2>1. PICK outcome \in Outcomes, tokens \in JudgeTokens : JudgeReturns(t, outcome, tokens)
    BY <1>3, Dispatch
  <2>2. loc' = [loc EXCEPT ![t].outcome = outcome, ![t].jtok = tokens]
    BY <2>1 DEF JudgeReturns
  <2> QED BY <1>3, <2>2 DEF Local
<1>4. CASE pc[t] = "load_calls"
  BY <1>4, Dispatch DEF LoadCalls, Local
<1>5. CASE pc[t] = "store_calls"
  <2>1. loc' = [loc EXCEPT ![t].bill = Cost(loc[t].tool, loc[t].jtok),
                           ![t].todo = Billed(loc[t].tool, loc[t].jtok)]
    BY <1>5, Dispatch DEF StoreCalls
  <2> QED BY <1>5, <2>1 DEF Local
<1>6. CASE pc[t] \in {"load_meter", "load_delta"}
  <2>1. ASSUME NEW m, NEW x, loc' = [loc EXCEPT ![t].meter = m, ![t].todo = @ \ {m}, ![t].load = x]
        PROVE  /\ loc'[t].tool = loc[t].tool /\ loc'[t].jtok = loc[t].jtok
               /\ loc'[t].reported = loc[t].reported /\ loc'[t].bill = loc[t].bill
               /\ loc'[t].ref = loc[t].ref
    BY <2>1 DEF Local
  <2>2. \/ loc' = loc
        \/ \E m, x : loc' = [loc EXCEPT ![t].meter = m, ![t].todo = @ \ {m}, ![t].load = x]
    BY <1>6, Dispatch DEF LoadMeter, Pass
  <2> QED BY <2>1, <2>2
<1>7. CASE pc[t] = "record_served"
  <2>1. PICK x : loc' = [loc EXCEPT ![t].ref = x]
    BY <1>7, Dispatch DEF RecordServed
  <2> QED BY <1>7, <2>1 DEF Local
<1>8. CASE pc[t] = "forward"
  <2>1. CASE UpstreamReports(t)
    BY <1>8, <2>1 DEF UpstreamReports, Local
  <2>2. CASE UpstreamReturns(t)
    BY <2>2 DEF UpstreamReturns, Pass
  <2>3. ~UpstreamFails(t)
    BY DEF UpstreamFails, Step, Goto
  <2> QED BY <1>8, <2>1, <2>2, <2>3, Dispatch
<1>9. CASE pc[t] = "reconcile"
  <2>1. PICK a, b, c :
           /\ a = sessions[loc[t].sid] /\ b = {m \in Meters : loc[t].reported[m] # None}
           /\ c = [m \in Meters |-> loc[t].reported[m] -
                    IF loc[t].ref \in heap[sessions[loc[t].sid]].pending_costs
                    THEN Amount(Estimate[loc[t].tool][m]) ELSE 0]
    OBVIOUS
  <2>2. loc' = [loc EXCEPT ![t].obj = a, ![t].todo = b, ![t].bill = c]
    BY <1>9, <2>1, Dispatch DEF ReconcileCost
  <2> QED BY <1>9, <2>2 DEF Local
<1>10. CASE pc[t] = "amend_judge"
  BY <1>10, Dispatch DEF JudgeAmendment, Local
<1>11. pc[t] \in PCs \ {"idle"}
  BY HandleFrame DEF Idle
<1> QED BY <1>1, <1>2, <1>3, <1>4, <1>5, <1>6, <1>7, <1>8, <1>9, <1>10, <1>11 DEF PCs

\* Billing moves what is pending into the counters.
LEMMA BooksBilling ==
  ASSUME Serial, SerialInv, SerialInv', BudgetInv, LedgerInv, NEW t \in Threads, Handle(t),
         pc[t] \in Billing, NEW o \in Objs, o = loc[t].obj
  PROVE  Booked(pc[t], loc[t], o)'
<1>. USE DEF SerialInv
<1>1. Account(o)' = Account(o)
  BY BillAccount
<1>2. Account(o).spent = [m \in Meters |-> Spent(o, m)] /\ Account(o)'.spent = [m \in Meters |-> Spent(o, m)']
  BY DEF Account
<1>3. \A m \in Meters : Spent(o, m)' = Spent(o, m)
  <2>1. [m \in Meters |-> Spent(o, m)'] = [m \in Meters |-> Spent(o, m)]
    BY <1>1, <1>2
  <2> QED BY <2>1
<1>4. \A m \in Meters : heap'[o].consumed[m] + Pending(pc'[t], loc'[t], m)
                          = heap[o].consumed[m] + Pending(pc[t], loc[t], m)
  BY <1>3, OwnAccount
<1>5. \/ pc[t] \in {"load_meter", "store_meter"} /\ pc'[t] \in Charged
      \/ pc[t] \in {"load_delta", "store_delta"} /\ pc'[t] \in Corrected
  BY Dispatch DEF Billing, LoadMeter, StoreMeter, Pass, Step, Goto, TypeInv, TypeOK, Charged, Corrected
<1>6. \A m \in Meters : Unlogged(pc'[t], loc'[t], m) = Unlogged(pc[t], loc[t], m)
  <2>1. loc'[t].tool = loc[t].tool /\ loc'[t].jtok = loc[t].jtok /\ loc'[t].reported = loc[t].reported
    BY <1>5, CallLocals DEF Charged, Corrected
  <2> QED BY <1>5, <2>1 DEF Unlogged, Charged, Corrected
<1>7. heap'[o].calls_made = heap[o].calls_made
  BY <1>5, HeapFrame
<1>8. pc[t] \in Charged <=> pc'[t] \in Charged
  BY <1>5 DEF Charged, Corrected
<1>9. heap'[o].calls_made - (IF pc'[t] \in Charged THEN 1 ELSE 0)
        = heap[o].calls_made - (IF pc[t] \in Charged THEN 1 ELSE 0)
  BY <1>7, <1>8
<1>10. ASSUME NEW m \in Meters
       PROVE  (heap'[o].consumed[m] + Pending(pc'[t], loc'[t], m)) - Unlogged(pc'[t], loc'[t], m)
                = (heap[o].consumed[m] + Pending(pc[t], loc[t], m)) - Unlogged(pc[t], loc[t], m)
  BY <1>4, <1>6
<1>11. pc[t] \notin {"record_served", "record_result"}
  BY DEF Billing
<1> QED BY <1>9, <1>10, <1>11, BooksBalance

\* Counting a call is owing its cost: the meters it bills have it due.
LEMMA BooksCount ==
  ASSUME SerialInv, SerialInv', BudgetInv, LedgerInv, NEW t \in Threads, Handle(t),
         pc[t] = "store_calls", NEW o \in Objs, o = loc[t].obj
  PROVE  Booked(pc[t], loc[t], o)'
<1>. USE DEF SerialInv, TypeInv, TypeOK
<1> DEFINE l == loc[t]
           n == loc'[t]
           cost == Cost(l.tool, l.jtok)
<1>1. l \in Local /\ l.tool \in Tools /\ l.jtok \in Nat /\ l.load = heap[o].calls_made
      /\ heap[o] \in Session
  BY DEF Bound, Holds, CallSteps, BudgetInv, Known, Local
<1>2. StoreCalls(t)
  BY Dispatch
<1>3. loc' = [loc EXCEPT ![t].bill = cost, ![t].todo = Billed(l.tool, l.jtok)]
  BY <1>2 DEF StoreCalls
<1>4. n.bill = cost
  BY <1>3 DEF Local
<1>5. n.todo = Billed(l.tool, l.jtok)
  BY <1>3 DEF Local
<1>6. pc'[t] = "load_meter"
  BY <1>2 DEF StoreCalls, Step, Goto
<1>7. n.tool = l.tool /\ n.jtok = l.jtok
  BY <1>6, CallLocals
<1>8. heap'[o].calls_made = heap[o].calls_made + 1
  BY <1>1, <1>2 DEF StoreCalls, ChargedTo, Session
<1>9. heap'[o].consumed = heap[o].consumed
  BY HeapFrame
<1>10. ASSUME NEW m \in Meters
       PROVE  (heap'[o].consumed[m] + Pending(pc'[t], n, m)) - Unlogged(pc'[t], n, m)
                = (heap[o].consumed[m] + Pending(pc[t], l, m)) - Unlogged(pc[t], l, m)
  <2>1. Pending(pc'[t], n, m) = cost[m]
    <3>1. Due(pc'[t], n) = Billed(l.tool, l.jtok)
      BY <1>5, <1>6 DEF Due
    <3>2. m \notin Billed(l.tool, l.jtok) => cost[m] = 0
      BY <1>1, UnbilledFree
    <3> QED BY <1>4, <1>6, <3>1, <3>2 DEF Pending, Billing
  <2>2. Unlogged(pc'[t], n, m) = cost[m]
    BY <1>6, <1>7 DEF Unlogged, Charged
  <2>3. Pending(pc[t], l, m) = 0 /\ Unlogged(pc[t], l, m) = 0
    BY DEF Pending, Billing, Unlogged, Charged, Corrected
  <2>4. heap[o].consumed[m] \in Int /\ cost[m] \in Int
    BY <1>1, CostType DEF Session
  <2> QED BY <1>9, <2>1, <2>2, <2>3, <2>4
<1>11. heap'[o].calls_made - (IF pc'[t] \in Charged THEN 1 ELSE 0)
         = heap[o].calls_made - (IF pc[t] \in Charged THEN 1 ELSE 0)
  BY <1>1, <1>6, <1>8 DEF Charged, Session
<1> HIDE DEF cost
<1> QED BY <1>10, <1>11, BooksBalance

\* Looking the estimate up again for a report is owing the difference: the meters that the
\* report mentions have it due.
LEMMA BooksReconcile ==
  ASSUME SerialInv, SerialInv', BudgetInv, LedgerInv, NEW t \in Threads, Handle(t),
         pc[t] = "reconcile", NEW o \in Objs, o = loc[t].obj
  PROVE  Booked(pc[t], loc[t], o)'
<1>. USE DEF SerialInv, TypeInv, TypeOK
<1> DEFINE l == loc[t]
           n == loc'[t]
<1>1. /\ l \in Local /\ l.tool \in Tools /\ sessions[l.sid] = o /\ l.ref \in heap[o].pending_costs
      /\ heap[o] \in Session
  BY DEF Bound, Holds, CallSteps, BudgetInv, Known, Current, Idle
<1>2. ReconcileCost(t)
  BY Dispatch
<1>3. loc' = [loc EXCEPT ![t].obj = o, ![t].todo = {m \in Meters : l.reported[m] # None},
                         ![t].bill = [m \in Meters |-> l.reported[m] - Amount(Estimate[l.tool][m])]]
  BY <1>1, <1>2 DEF ReconcileCost
<1>4. n.todo = {m \in Meters : l.reported[m] # None}
  BY <1>3 DEF Local
<1>5. n.bill = [m \in Meters |-> l.reported[m] - Amount(Estimate[l.tool][m])]
  BY <1>3 DEF Local
<1>6. pc'[t] = "load_delta"
  BY <1>2 DEF ReconcileCost, Step, Goto
<1>7. n.tool = l.tool /\ n.reported = l.reported
  BY <1>6, CallLocals
<1>8. heap'[o].consumed = heap[o].consumed /\ heap'[o].calls_made = heap[o].calls_made
  BY HeapFrame
<1>9. ASSUME NEW m \in Meters
      PROVE  (heap'[o].consumed[m] + Pending(pc'[t], n, m)) - Unlogged(pc'[t], n, m)
               = (heap[o].consumed[m] + Pending(pc[t], l, m)) - Unlogged(pc[t], l, m)
  <2> DEFINE d == IF l.reported[m] = None THEN 0 ELSE l.reported[m] - Amount(Estimate[l.tool][m])
  <2>1. Due(pc'[t], n) = {x \in Meters : l.reported[x] # None}
    BY <1>4, <1>6 DEF Due
  <2>2. Pending(pc'[t], n, m) = d
    BY <1>5, <1>6, <2>1 DEF Pending, Billing
  <2>3. Unlogged(pc'[t], n, m) = d
    BY <1>6, <1>7 DEF Unlogged, Charged, Corrected
  <2>4. Pending(pc[t], l, m) = 0 /\ Unlogged(pc[t], l, m) = 0
    BY DEF Pending, Billing, Unlogged, Charged, Corrected
  <2>5. heap[o].consumed[m] \in Int
    BY <1>1, SessionNumbers
  <2>6. l.reported[m] \in Int
    BY <1>1 DEF Local, Report, Optional, None
  <2>7. Amount(Estimate[l.tool][m]) \in Int
    BY <1>1, CostType
  <2> QED BY <1>8, <2>2, <2>3, <2>4, <2>5, <2>6, <2>7
<1>10. pc[t] \notin Charged /\ pc'[t] \notin Charged
  BY <1>6 DEF Charged
<1> QED BY <1>8, <1>9, <1>10, BooksBalance

\* A served call that is logged is one more that the log accounts for ...
LEMMA BooksServe ==
  ASSUME SerialInv, SerialInv', PairInv, LedgerInv, NEW t \in Threads, Handle(t),
         pc[t] = "record_served", NEW o \in Objs, o = loc[t].obj
  PROVE  Booked(pc[t], loc[t], o)' /\ Remembered(pc[t], loc[t])'
<1>. USE DEF SerialInv, TypeInv, TypeOK
<1>1. PICK r \in Entry :
        /\ audit' = Append(audit, r) /\ r.kind = "call" /\ r.verdict = "served"
        /\ r.obj = o /\ r.tool = loc[t].tool /\ r.jtok = loc[t].jtok
  BY LogsServed
<1>2. PICK n : n = Len(audit) + 1
  OBVIOUS
<1>3. loc[t].tool \in Tools /\ loc[t].jtok \in Nat /\ heap[o] \in Session
  BY DEF Bound, Holds, CallSteps, Local
<1>4. /\ n \in ServedOf(o)'
      /\ Cardinality(ServedOf(o)') = Cardinality(ServedOf(o)) + 1
      /\ \A m \in Meters : Total(o, m)' = Total(o, m) + Cost(loc[t].tool, loc[t].jtok)[m]
  BY <1>1, <1>2, <1>3, TotalGrows DEF PairInv, LedgerInv
<1>5. RecordServed(t)
  BY Dispatch
<1>6. pc'[t] = "forward" /\ loc'[t].ref = n
  BY <1>2, <1>5 DEF RecordServed, Step, Goto, Local
<1>7. loc'[t].obj = o /\ loc'[t].tool = loc[t].tool /\ loc'[t].reported = loc[t].reported
  BY <1>6, CallLocals, SameSession
<1>8. heap'[o].calls_made = heap[o].calls_made /\ heap'[o].consumed = heap[o].consumed
  BY HeapFrame
<1>9. Booked(pc[t], loc[t], o) /\ Remembered(pc[t], loc[t])
  BY DEF LedgerInv
<1>10. heap'[o].calls_made = Cardinality(ServedOf(o)') + IF pc'[t] \in Charged THEN 1 ELSE 0
  BY <1>4, <1>6, <1>8, <1>9, ServedFinite DEF Booked, Charged
<1>11. ASSUME NEW m \in Meters
       PROVE  heap'[o].consumed[m] + Pending(pc'[t], loc'[t], m)
                = Total(o, m)' + Unlogged(pc'[t], loc'[t], m)
  <2>1. /\ Pending(pc[t], loc[t], m) = 0 /\ Pending(pc'[t], loc'[t], m) = 0
        /\ Unlogged(pc[t], loc[t], m) = Cost(loc[t].tool, loc[t].jtok)[m]
        /\ Unlogged(pc'[t], loc'[t], m) = 0
    BY <1>6 DEF Pending, Billing, Unlogged, Charged, Corrected
  <2>2. heap[o].consumed[m] + Pending(pc[t], loc[t], m) = Total(o, m) + Unlogged(pc[t], loc[t], m)
    BY <1>9 DEF Booked
  <2>3. heap[o].consumed[m] \in Int /\ Total(o, m) \in Int /\ Cost(loc[t].tool, loc[t].jtok)[m] \in Int
    BY <1>3, CostType, TotalInt DEF Session, LedgerInv
  <2>4. Total(o, m)' = Total(o, m) + Cost(loc[t].tool, loc[t].jtok)[m]
    BY <1>4
  <2> QED BY <1>8, <2>1, <2>2, <2>3, <2>4
<1>12. Booked(pc[t], loc[t], o)'
  BY <1>10, <1>11 DEF Booked, Pending, Unlogged, Due
<1>13. loc'[t].ref \in ServedOf(o)' /\ audit'[loc'[t].ref].tool = loc'[t].tool
  BY <1>1, <1>2, <1>4, <1>6, <1>7, LogAppended
<1>14. Remembered(pc[t], loc[t])'
  BY <1>6, <1>7, <1>9, <1>13 DEF Remembered, Corrected, ServedOf, CallsOf
<1> QED BY <1>12, <1>14

\* ... and a result that is logged sets the report in place of the estimate there too.
LEMMA BooksResult ==
  ASSUME SerialInv, SerialInv', PairInv, LedgerInv, NEW t \in Threads, Handle(t),
         pc[t] = "record_result", NEW o \in Objs, o = loc[t].obj
  PROVE  Booked(pc[t], loc[t], o)'
<1>. USE DEF SerialInv, TypeInv, TypeOK
<1>1. PICK r \in Entry :
        audit' = Append(audit, r) /\ r.kind = "result"
        /\ r.ref = loc[t].ref /\ r.reported = loc[t].reported
  BY LogsResult
<1>2. Booked(pc[t], loc[t], o) /\ Remembered(pc[t], loc[t])
  BY DEF LedgerInv
<1>3. r.ref \in ServedOf(o) /\ ResultsOf(r.ref) = {} /\ audit[r.ref].tool = loc[t].tool
  BY <1>1, <1>2 DEF Remembered, PairInv, Awaited, Answering
<1>4. /\ ServedOf(o)' = ServedOf(o)
      /\ \A m \in Meters :
           Total(o, m)' = Total(o, m) + IF r.reported[m] = None THEN 0
                                        ELSE r.reported[m] - Amount(Estimate[audit[r.ref].tool][m])
  BY <1>1, <1>3, TotalChanges DEF LedgerInv
<1>5. pc'[t] = "idle"
  BY Dispatch DEF RecordResult, Answer, Goto
<1>6. heap'[o].calls_made = heap[o].calls_made /\ heap'[o].consumed = heap[o].consumed
  BY HeapFrame
<1>7. heap[o] \in Session /\ loc[t].tool \in Tools /\ loc[t] \in Local
  BY DEF Bound, Holds, CallSteps
<1>8. Cardinality(ServedOf(o)') = Cardinality(ServedOf(o))
  BY <1>4
<1>9. heap'[o].calls_made = Cardinality(ServedOf(o)') + IF pc'[t] \in Charged THEN 1 ELSE 0
  BY <1>2, <1>5, <1>6, <1>8 DEF Booked, Charged
<1>10. ASSUME NEW m \in Meters
       PROVE  heap'[o].consumed[m] + Pending(pc'[t], loc'[t], m)
                = Total(o, m)' + Unlogged(pc'[t], loc'[t], m)
  <2> DEFINE d == IF loc[t].reported[m] # None
                  THEN loc[t].reported[m] - Amount(Estimate[loc[t].tool][m]) ELSE 0
  <2>1. /\ Pending(pc[t], loc[t], m) = 0 /\ Pending(pc'[t], loc'[t], m) = 0
        /\ Unlogged(pc[t], loc[t], m) = d /\ Unlogged(pc'[t], loc'[t], m) = 0
    BY <1>5 DEF Pending, Billing, Unlogged, Charged, Corrected
  <2>2. heap[o].consumed[m] + Pending(pc[t], loc[t], m) = Total(o, m) + Unlogged(pc[t], loc[t], m)
    BY <1>2 DEF Booked
  <2>3. Total(o, m)' = Total(o, m) + d
    BY <1>1, <1>3, <1>4
  <2>4. heap[o].consumed[m] \in Int /\ Total(o, m) \in Int
    BY <1>7, TotalInt, SessionNumbers DEF LedgerInv
  <2>5. d \in Int
    <3>1. loc[t].reported[m] \in Int
      BY <1>7 DEF Local, Report, Optional, None
    <3> QED BY <1>7, <3>1, CostType
  <2> HIDE DEF d
  <2> QED BY <1>6, <2>1, <2>2, <2>3, <2>4, <2>5
<1> QED BY <1>9, <1>10 DEF Booked, Pending, Unlogged, Due

\* The other steps have no share in the counters.
LEMMA BooksElse ==
  ASSUME SerialInv, SerialInv', LedgerInv, NEW t \in Threads, Handle(t),
         pc[t] \notin Billing \cup {"store_calls", "record_served", "reconcile", "record_result"},
         NEW o \in Objs, o = loc[t].obj
  PROVE  Booked(pc[t], loc[t], o)'
<1>. USE DEF SerialInv, TypeInv, TypeOK
<1>1. \/ pc'[t] \notin Billing \cup Charged \cup Corrected
      \/ pc[t] = "forward" /\ pc'[t] = "record_result"
  <2>1. pc[t] \in PCs \ {"idle"}
    BY HandleFrame DEF Idle
  <2> QED BY <2>1, Routes DEF PCs, Billing, Charged, Corrected
<1>2. heap'[o].calls_made = heap[o].calls_made /\ heap'[o].consumed = heap[o].consumed
  BY HeapFrame DEF Billing
<1>3. pc[t] \notin Billing \cup Charged \cup Corrected
  BY DEF Billing, Charged, Corrected
<1>4. pc'[t] \notin Billing \cup Charged
  BY <1>1 DEF Billing, Charged, Corrected
<1>5. ASSUME NEW m \in Meters
      PROVE  /\ Pending(pc[t], loc[t], m) = 0 /\ Pending(pc'[t], loc'[t], m) = 0
             /\ Unlogged(pc[t], loc[t], m) = 0 /\ Unlogged(pc'[t], loc'[t], m) = 0
  <2>1. /\ Pending(pc[t], loc[t], m) = 0 /\ Pending(pc'[t], loc'[t], m) = 0
        /\ Unlogged(pc[t], loc[t], m) = 0
    BY <1>3, <1>4 DEF Pending, Unlogged
  <2>2. CASE pc'[t] \notin Corrected
    BY <1>4, <2>1, <2>2 DEF Unlogged
  <2>3. CASE pc[t] = "forward" /\ pc'[t] = "record_result"
    <3>1. loc'[t] = loc[t]
      BY <2>3, Dispatch DEF UpstreamFails, UpstreamReturns, UpstreamReports, Pass, Step, Goto
    <3>2. loc[t].reported = Nothing
      BY <2>3 DEF LedgerInv, Remembered, Corrected
    <3>3. loc'[t].reported[m] = None
      BY <3>1, <3>2 DEF Nothing
    <3> QED BY <1>4, <2>1, <3>3 DEF Unlogged
  <2> QED BY <1>1, <2>2, <2>3
<1>6. ASSUME NEW m \in Meters
      PROVE  (heap'[o].consumed[m] + Pending(pc'[t], loc'[t], m)) - Unlogged(pc'[t], loc'[t], m)
               = (heap[o].consumed[m] + Pending(pc[t], loc[t], m)) - Unlogged(pc[t], loc[t], m)
  BY <1>2, <1>5
<1>7. heap'[o].calls_made - (IF pc'[t] \in Charged THEN 1 ELSE 0)
        = heap[o].calls_made - (IF pc[t] \in Charged THEN 1 ELSE 0)
  BY <1>2, <1>3, <1>4
<1> QED BY <1>6, <1>7, BooksBalance

\* Each step of a busy handler keeps the books of its own Session, ...
LEMMA BooksStep ==
  ASSUME Serial, SerialInv, SerialInv', BudgetInv, PairInv, LedgerInv,
         NEW t \in Threads, Handle(t), NEW o \in Objs, o = loc[t].obj
  PROVE  Booked(pc[t], loc[t], o)'
<1>1. CASE pc[t] \in Billing
  BY <1>1, BooksBilling
<1>2. CASE pc[t] \in {"store_calls", "reconcile"}
  BY <1>2, BooksCount, BooksReconcile
<1>3. CASE pc[t] \in {"record_served", "record_result"}
  BY <1>3, BooksServe, BooksResult
<1>4. CASE pc[t] \notin Billing \cup {"store_calls", "record_served", "reconcile", "record_result"}
  BY <1>4, BooksElse
<1> QED BY <1>1, <1>2, <1>3, <1>4

\* ... and a handler that goes on remembers its call.
LEMMA RemembersStep ==
  ASSUME SerialInv, SerialInv', PairInv, LedgerInv, NEW t \in Threads, Handle(t), pc'[t] # "idle"
  PROVE  Remembered(pc[t], loc[t])'
<1>. USE DEF SerialInv, TypeInv, TypeOK
<1>1. loc[t].obj \in Objs /\ loc'[t].obj = loc[t].obj
  BY SameSession, HandleFrame DEF Bound, Holds, Idle
<1>2. CASE pc[t] = "record_served"
  BY <1>1, <1>2, BooksServe
<1>3. CASE pc[t] # "record_served"
  <2>1. Remembered(pc[t], loc[t]) /\ pc[t] # "idle"
    BY HandleFrame DEF LedgerInv, Idle
  <2>2. /\ loc'[t].tool = loc[t].tool
        /\ pc[t] # "judging" => loc'[t].jtok = loc[t].jtok
        /\ pc[t] # "forward" => loc'[t].reported = loc[t].reported
        /\ pc[t] \notin {"store_calls", "reconcile"} => loc'[t].bill = loc[t].bill
    BY CallLocals
  <2>3. pc[t] \in Corrected \cup {"reconcile"} => pc'[t] \in Corrected
    BY Routes DEF Corrected
  <2>4. pc[t] = "forward" => pc'[t] \in {"reconcile", "record_result"}
    BY Routes
  <2>5. ASSUME pc'[t] \notin Corrected \cup {"reconcile"}
        PROVE  loc'[t].reported = Nothing
    BY <2>1, <2>2, <2>3, <2>4, <2>5 DEF Remembered, Corrected
  <2>6. ASSUME pc'[t] \in {"load_meter", "store_meter"}
        PROVE  loc'[t].bill = Cost(loc'[t].tool, loc'[t].jtok)
    <3>1. CASE pc[t] = "store_calls"
      <4>1. loc' = [loc EXCEPT ![t].bill = Cost(loc[t].tool, loc[t].jtok),
                               ![t].todo = Billed(loc[t].tool, loc[t].jtok)]
        BY <3>1, Dispatch DEF StoreCalls
      <4>2. loc'[t].bill = Cost(loc[t].tool, loc[t].jtok)
        BY <4>1 DEF Local
      <4> QED BY <2>2, <3>1, <4>2
    <3>2. CASE pc[t] \in {"load_meter", "store_meter"}
      BY <2>1, <2>2, <3>2 DEF Remembered
    <3>3. CASE pc[t] \notin {"store_calls", "load_meter", "store_meter"}
      <4>1. CASE pc[t] \in Answering
        BY <2>3, <2>4, <2>6, <4>1 DEF Answering, Corrected
      <4>2. CASE pc[t] \notin Answering
        BY <1>3, <2>1, <2>6, <3>3, <4>2, Routes DEF PCs, Answering
      <4> QED BY <4>1, <4>2
    <3> QED BY <3>1, <3>2, <3>3
  <2>7. ASSUME pc'[t] \in Answering
        PROVE  (loc[t].ref \in ServedOf(loc[t].obj))' /\ audit'[loc'[t].ref].tool = loc'[t].tool
    <3>1. pc[t] \in Answering /\ loc'[t].ref = loc[t].ref /\ audit' = audit
      BY <1>3, <2>7, AnsweringFrame
    <3>2. loc[t].ref \in ServedOf(loc[t].obj) /\ audit[loc[t].ref].tool = loc[t].tool
      BY <2>1, <3>1 DEF Remembered
    <3>3. PICK o, i : o = loc[t].obj /\ i = loc[t].ref
      OBVIOUS
    <3>4. loc'[t].obj = o /\ loc'[t].ref = i /\ audit'[i].tool = loc'[t].tool
      BY <1>1, <2>2, <3>1, <3>2, <3>3
    <3>5. i \in ServedOf(o)'
      BY <3>1, <3>2, <3>3 DEF ServedOf, CallsOf
    <3> QED BY <3>4, <3>5 DEF ServedOf, CallsOf
  <2> QED BY <2>5, <2>6, <2>7 DEF Remembered, ServedOf, CallsOf
<1> QED BY <1>2, <1>3

\* Books of a Session that nothing has touched.
LEMMA BooksUntouched ==
  ASSUME NEW o, heap'[o].calls_made = heap[o].calls_made, heap'[o].consumed = heap[o].consumed,
         ServedOf(o)' = ServedOf(o), \A m : Total(o, m)' = Total(o, m), Booked("idle", NoLocal, o)
  PROVE  Booked("idle", NoLocal, o)'
<1>1. Cardinality(ServedOf(o)') = Cardinality(ServedOf(o))
  OBVIOUS
<1> QED BY <1>1 DEF Booked, Pending, Unlogged, Billing, Charged, Corrected
-----------------------------------------------------------------------------
(* The invariant is inductive *)

LEMMA LedgerHandle ==
  ASSUME Serial, SerialInv, SerialInv', DigestInv, BudgetInv, PairInv, LedgerInv,
         NEW t \in Threads, Handle(t)
  PROVE  LedgerInv'
<1>. USE DEF SerialInv
<1>1. PICK own \in Objs : own = loc[t].obj
  BY HandleFrame DEF TypeInv, Bound, Holds, Idle
<1>2. heap[own].live
  <2>1. loc[t].sid \in Sids /\ sessions[loc[t].sid] = own
    BY <1>1, HandleFrame DEF TypeInv, Bound, Holds, Current, Idle
  <2> QED BY <2>1, NullAssumption DEF DigestInv, Registered
<1>3. Booked(pc[t], loc[t], own)'
  BY <1>1, BooksStep
<1>4. \A u \in Threads \ {t} : pc[u] = "idle" /\ pc'[u] = "idle"
  BY OthersIdle
<1>5. ASSUME NEW o \in Objs, o # own
      PROVE  Booked("idle", NoLocal, o)' /\ ServedOf(o)' = ServedOf(o) /\ heap'[o] = heap[o]
  <2>1. heap'[o] = heap[o] /\ ServedOf(o)' = ServedOf(o) /\ \A m : Total(o, m)' = Total(o, m)
    BY <1>1, <1>5, OtherSessions, OtherTotals
  <2>2. Booked("idle", NoLocal, o)
    BY <1>1, <1>4, <1>5 DEF LedgerInv
  <2> QED BY <2>1, <2>2, BooksUntouched
<1>6. ASSUME NEW o \in Objs, ~heap'[o].live PROVE ServedOf(o)' = {}
  <2>1. heap'[own].live
    BY <1>2, HeapFrame
  <2> QED BY <1>5, <1>6, <2>1 DEF LedgerInv
<1>7. ASSUME NEW u \in Threads, pc'[u] # "idle"
      PROVE  Remembered(pc[u], loc[u])' /\ Booked(pc[u], loc[u], loc[u].obj)'
  <2>1. u = t
    BY <1>4, <1>7
  <2>2. loc'[t].obj = own
    BY <1>1, <1>7, <2>1, SameSession
  <2>3. Booked(pc[t], loc[t], loc[t].obj)'
    BY <1>3, <2>2 DEF Booked, Total, ServedOf, CallsOf
  <2> QED BY <1>7, <2>1, <2>3, RemembersStep
<1>8. ASSUME NEW o \in Objs, \A u \in Threads : pc'[u] = "idle" \/ loc'[u].obj # o
      PROVE  Booked("idle", NoLocal, o)'
  <2>1. CASE o = own
    <3>1. pc'[t] = "idle"
      BY <1>1, <1>8, <2>1, SameSession
    <3>2. pc'[t] \notin Billing \cup Charged \cup Corrected
      BY <3>1 DEF Billing, Charged, Corrected
    <3> QED BY <1>3, <2>1, <3>2 DEF Booked, Pending, Unlogged, Billing, Charged, Corrected
  <2> QED BY <1>5, <2>1
<1> QED BY <1>6, <1>7, <1>8, NamedStays DEF LedgerInv

\* A request that is taken finds the books closed, and a new Session has clean ones.
LEMMA LedgerBegin ==
  ASSUME Serial, SerialInv, SerialInv', PairInv, LedgerInv, NEW t \in Threads, NEW sid \in Sids,
         Begin(t, sid)
  PROVE  LedgerInv'
<1>. USE DEF SerialInv
<1>1. PICK r : /\ audit' = audit \/ audit' = Append(audit, r)
               /\ r.verdict # "served" /\ r.kind # "result"
  BY BeginLogs
<1>2. \A o : ServedOf(o)' = ServedOf(o) /\ \A m : Total(o, m)' = Total(o, m)
  BY <1>1, TotalStays
<1>3. \A u \in Threads : pc[u] = "idle"
  BY BeginFrame DEF Accept, Idle
<1>4. \A u \in Threads \ {t} : pc'[u] = "idle"
  BY OthersIdle
<1>5. Named'
  <2>1. \A j \in DOMAIN audit : audit'[j] = audit[j]
    BY <1>1, LogAppended
  <2> QED BY <1>2, <2>1 DEF LedgerInv, Named, ServedOf, CallsOf
<1>6. pc'[t] \in {"idle", "scope", "widen_scope", "record_open"}
      /\ (pc'[t] # "idle" => loc'[t].reported = Nothing)
  <2>. USE DEF TypeInv, TypeOK
  <2>1. CASE \E c \in Commitments : OpenSession(t, sid, c)
    BY <2>1 DEF OpenSession, Goto, NoLocal
  <2>2. CASE \E tool \in Tools, high \in BOOLEAN : BindCall(t, sid, tool, high)
    <3>1. PICK tool \in Tools, high \in BOOLEAN : BindCall(t, sid, tool, high)
      BY <2>2
    <3>2. loc'[t] = [[NoLocal EXCEPT !.tool = tool, !.high = high]
                       EXCEPT !.sid = sid, !.obj = sessions[sid]] /\ pc'[t] = "scope"
      BY <3>1 DEF BindCall, Bind, Goto
    <3> QED BY <3>2 DEF NoLocal
  <2>3. CASE \E am \in Amendments : BindAmendment(t, sid, am)
    <3>1. PICK am \in Amendments : BindAmendment(t, sid, am)
      BY <2>3
    <3>2. loc'[t] = [[NoLocal EXCEPT !.am = am] EXCEPT !.sid = sid, !.obj = sessions[sid]]
          /\ pc'[t] = "widen_scope"
      BY <3>1 DEF BindAmendment, Bind, Goto
    <3> QED BY <3>2 DEF NoLocal
  <2>4. CASE pc' = pc \/ pc'[t] = "idle"
    BY <1>3, <2>4
  <2> QED BY <2>1, <2>2, <2>3, <2>4 DEF Begin, RejectMalformed, RejectUnbound, RefuseSession,
             RefuseUnsigned, Answer, Goto
<1>7. ASSUME NEW o \in Objs
      PROVE  Booked("idle", NoLocal, o)' /\ (~heap'[o].live => ServedOf(o)' = {})
  <2>1. Booked("idle", NoLocal, o) /\ (~heap[o].live => ServedOf(o) = {})
    BY <1>3 DEF LedgerInv
  <2>2. CASE heap'[o] = heap[o]
    BY <1>2, <2>1, <2>2, BooksUntouched
  <2>3. CASE heap'[o] # heap[o]
    <3>1. PICK c \in Commitments : ~heap[o].live /\ heap'[o] = NewSession(c)
      <4>1. PICK c \in Commitments, x \in Objs : ~heap[x].live /\ heap' = [heap EXCEPT ![x] = NewSession(c)]
        BY <2>3, BeginHeap
      <4>2. x = o
        BY <2>3, <4>1 DEF TypeInv, TypeOK
      <4> QED BY <4>1, <4>2 DEF TypeInv, TypeOK
    <3>2. /\ heap[o].live \in BOOLEAN /\ heap'[o].live /\ heap'[o].calls_made = 0
          /\ heap'[o].consumed = [m \in Meters |-> 0]
      BY <3>1 DEF NewSession, Free, TypeInv, TypeOK, Session
    <3>3. ServedOf(o) = {}
      BY <2>1, <3>1
    <3>4. \A m : Total(o, m) = 0
      <4>1. ASSUME NEW m PROVE Total(o, m) = 0
        <5> DEFINE f == [i \in ServedOf(o) |-> Owes(i, m)]
        <5>1. DOMAIN f = {}
          BY <3>3
        <5> HIDE DEF f
        <5>2. SumFunctionOnSet(f, DOMAIN f) = 0
          BY <5>1, SumEmpty
        <5> QED BY <5>2 DEF Total, SumFunction, f
      <4> QED BY <4>1
    <3>5. \A m \in Meters : Total(o, m)' = 0
      BY <1>2, <3>4
    <3>6. ServedOf(o)' = {} /\ Cardinality(ServedOf(o)') = 0
      BY <1>2, <3>3, FS_EmptySet
    <3> QED BY <3>2, <3>5, <3>6 DEF Booked, Pending, Unlogged, Billing, Charged, Corrected
  <2> QED BY <2>2, <2>3
<1>8. ASSUME NEW u \in Threads, pc'[u] # "idle"
      PROVE  Remembered(pc[u], loc[u])' /\ Booked(pc[u], loc[u], loc[u].obj)'
  <2>1. u = t /\ pc'[t] \in {"scope", "widen_scope", "record_open"}
    BY <1>4, <1>6, <1>8
  <2>2. Remembered(pc[t], loc[t])'
    BY <1>6, <2>1 DEF Remembered, Corrected, Answering
  <2>3. PICK o \in Objs : o = loc'[t].obj
    BY <1>8, <2>1 DEF TypeInv, Bound, Holds
  <2>4. Booked(pc[t], loc[t], o)'
    BY <1>7, <2>1 DEF Booked, Pending, Unlogged, Billing, Charged, Corrected
  <2>5. Booked(pc[t], loc[t], loc[t].obj)'
    BY <2>3, <2>4 DEF Booked, Total, ServedOf, CallsOf
  <2> QED BY <2>1, <2>2, <2>5
<1> QED BY <1>5, <1>7, <1>8 DEF LedgerInv

\* A step that touches neither the handlers, nor the log, nor the counters keeps the books.
LEMMA LedgerFrame ==
  ASSUME TypeInv, LedgerInv, pc' = pc, loc' = loc, audit' = audit,
         \A x \in Objs : /\ heap'[x].calls_made = heap[x].calls_made
                         /\ heap'[x].consumed = heap[x].consumed /\ heap'[x].live = heap[x].live
  PROVE  LedgerInv'
<1>1. \A x : ServedOf(x)' = ServedOf(x) /\ \A m : Total(x, m)' = Total(x, m)
  <2>1. \E r : r.kind # "result"
    <3>1. [kind |-> "call"].kind # "result"
      OBVIOUS
    <3> QED BY <3>1
  <2> QED BY <2>1, TotalStays
<1>2. Named' /\ \A x \in Objs : ~heap'[x].live => ServedOf(x)' = {}
  BY <1>1 DEF LedgerInv, Named
<1>3. ASSUME NEW t \in Threads, pc'[t] # "idle"
      PROVE  Remembered(pc[t], loc[t])' /\ Booked(pc[t], loc[t], loc[t].obj)'
  <2>1. PICK x \in Objs : x = loc[t].obj
    BY <1>3 DEF TypeInv, Bound, Holds
  <2>2. Remembered(pc[t], loc[t]) /\ Booked(pc[t], loc[t], x)
    BY <1>3, <2>1 DEF LedgerInv
  <2>3. Remembered(pc[t], loc[t])'
    BY <2>2 DEF Remembered, ServedOf, CallsOf
  <2>4. \A m : Pending(pc[t], loc[t], m)' = Pending(pc[t], loc[t], m)
               /\ Unlogged(pc[t], loc[t], m)' = Unlogged(pc[t], loc[t], m)
    BY DEF Pending, Unlogged, Due
  <2>5. Cardinality(ServedOf(x)') = Cardinality(ServedOf(x))
    BY <1>1
  <2>6. Booked(pc[t], loc[t], x)'
    BY <1>1, <2>2, <2>4, <2>5 DEF Booked
  <2> QED BY <2>1, <2>3, <2>6 DEF Booked, Total, ServedOf, CallsOf
<1>4. ASSUME NEW x \in Objs, \A t \in Threads : pc'[t] = "idle" \/ loc'[t].obj # x
      PROVE  Booked("idle", NoLocal, x)'
  <2>1. Booked("idle", NoLocal, x)
    BY <1>4 DEF LedgerInv
  <2> QED BY <1>1, <2>1, BooksUntouched
<1> QED BY <1>2, <1>3, <1>4 DEF LedgerInv

\* So does a deadline that passes.
LEMMA LedgerDeadline ==
  ASSUME TypeInv, LedgerInv, NEW o \in Objs, DeadlinePasses(o)
  PROVE  LedgerInv'
<1>1. ASSUME NEW x \in Objs
      PROVE  /\ heap'[x].calls_made = heap[x].calls_made /\ heap'[x].consumed = heap[x].consumed
             /\ heap'[x].live = heap[x].live
  <2>1. heap'[x] = heap[x] \/ heap'[x] = [heap[x] EXCEPT !.terms = [heap[x].terms EXCEPT !.deadline = "past"]]
    BY DEF DeadlinePasses, TypeInv, TypeOK
  <2> QED BY <2>1 DEF TypeInv, TypeOK, Session
<1> QED BY <1>1, LedgerFrame DEF DeadlinePasses

\* Before the first request the books are empty.
LEMMA LedgerInit == Init => LedgerInv
<1> SUFFICES ASSUME Init PROVE LedgerInv
  OBVIOUS
<1>1. \A o : ServedOf(o) = {}
  BY DEF Init, ServedOf, CallsOf
<1>2. ASSUME NEW o, NEW m PROVE Total(o, m) = 0
  <2> DEFINE f == [i \in ServedOf(o) |-> Owes(i, m)]
  <2>1. DOMAIN f = {}
    BY <1>1
  <2> HIDE DEF f
  <2>2. SumFunctionOnSet(f, DOMAIN f) = 0
    BY <2>1, SumEmpty
  <2> QED BY <2>2 DEF Total, SumFunction, f
<1>3. \A o \in Objs : heap[o].calls_made = 0 /\ heap[o].consumed = [m \in Meters |-> 0]
  BY DEF Init, Free
<1>4. \A o \in Objs : Booked("idle", NoLocal, o)
  <2>1. \A o : Cardinality(ServedOf(o)) = 0
    BY <1>1, FS_EmptySet
  <2> QED BY <1>2, <1>3, <2>1 DEF Booked, Pending, Unlogged, Billing, Charged, Corrected
<1> QED BY <1>1, <1>4 DEF Init, LedgerInv, Named

LEMMA LedgerStep ==
  ASSUME Serial, SerialInv, SerialInv', DigestInv, BudgetInv, PairInv, LedgerInv, [Next]_vars
  PROVE  LedgerInv'
<1>1. CASE UNCHANGED vars
  BY <1>1, LedgerFrame DEF vars, SerialInv
<1> QED BY <1>1, LedgerHandle, LedgerBegin, LedgerDeadline DEF Next, SerialInv

\* Closed books say what LedgerExact says.
LEMMA LedgerSays ==
  ASSUME SerialInv, LedgerInv
  PROVE  LedgerExact
<1>1. ASSUME NEW o \in Objs, \A t \in Threads : pc[t] = "idle" \/ loc[t].obj # o
      PROVE  /\ heap[o].calls_made = Cardinality(ServedOf(o))
             /\ \A m \in Meters : heap[o].consumed[m] = Total(o, m)
  <2>1. Booked("idle", NoLocal, o)
    BY <1>1 DEF LedgerInv
  <2>2. ASSUME NEW m \in Meters PROVE heap[o].consumed[m] \in Int /\ Total(o, m) \in Int
    BY TotalInt DEF LedgerInv, SerialInv, TypeInv, TypeOK, Session
  <2> QED BY <2>1, <2>2, ServedFinite
          DEF Booked, Pending, Unlogged, Billing, Charged, Corrected, SerialInv
<1>2. \A o, m : Total(o, m) = SumFunction([i \in ServedOf(o) |-> ToolCost(i, m) + JudgeCost(i, m)])
  BY DEF Total, Owes
<1> QED BY <1>1, <1>2 DEF LedgerExact, Quiet, Idle

\* Between requests of the serial deployment the counters are the audit log's account of
\* each session: one call for each served record, and on each meter what those calls have
\* reported, or else their estimates, and their judge tokens, for any tools, costs and
\* requests (verify_call's charges, reconcile_cost, log_verdict, log_result).
THEOREM LedgerIsExact ==
  ASSUME Serial
  PROVE  Spec => []LedgerExact
<1> DEFINE Inv == SerialInv /\ DigestInv /\ BudgetInv /\ PairInv /\ LedgerInv
<1>1. Init => Inv
  <2>1. Init => DigestInv
    BY DEF Init, DigestInv, Registered, AcceptedDigest
  <2>2. Init => PairInv
    BY DEF Init, PairInv, ResultsPaired, Awaited, Answering
  <2> QED BY <2>1, <2>2, SerialInvInit, BudgetInit, LedgerInit
<1>2. Inv /\ [Next]_vars => Inv'
  <2> SUFFICES ASSUME Inv, [Next]_vars PROVE Inv'
    OBVIOUS
  <2>1. SerialInv'
    BY SerialInvStep
  <2>2. DigestInv' /\ BudgetInv' /\ LedgerInv'
    BY <2>1, DigestStep, BudgetStep, LedgerStep
  <2>3. PairInv'
    <3>1. ASSUME UNCHANGED <<pc, loc, audit>> PROVE PairInv'
      BY <3>1 DEF PairInv, ResultsPaired, Awaited, ServedCall, ResultsOf
    <3> QED BY <3>1, PairHandle, PairBegin DEF Next, DeadlinePasses, vars, SerialInv
  <2> QED BY <2>1, <2>2, <2>3
<1>3. Inv => LedgerExact
  BY LedgerSays
<1> QED BY <1>1, <1>2, <1>3, PTL DEF Spec

=============================================================================
