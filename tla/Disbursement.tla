---------------------------- MODULE Disbursement ----------------------------
(***************************************************************************)
(* The demo agent at work (src/agent), with the Python client, the proxy   *)
(* and the upstream server it is deployed with: its workflows, what their  *)
(* calls cost, and the money that moves, while attempts fail and are       *)
(* repeated.  A behaviour is one workflow; main runs them one after        *)
(* another, each in a session of its own, and ends with the first that     *)
(* raises.                                                                 *)
(*                                                                         *)
(* The proxy handles a request at a time (FastAPI).  The judge is the      *)
(* mock, and finds the calls of the workflows consistent, however often    *)
(* they are repeated.                                                      *)
(***************************************************************************)
EXTENDS Integers, Sequences, FiniteSets, Functions

CONSTANTS
  Attempts,    \* attempts of _post at one request
  MaxFaults    \* bound on the attempts that fail

ASSUME DisbursementAssumption == Attempts \in Nat \ {0} /\ MaxFaults \in Nat

VARIABLES
  workflow,   \* the name of the one that runs
  agent,      \* step, attempt, verdicts told so far; "waiting", "broken", "done", "raised"
  flights,    \* the attempts made, the last one being the one the agent waits for
  session,    \* made (calls_made), spent (consumed) and limits of the agent's Session
  faults

vars == <<workflow, agent, flights, session, faults>>

-----------------------------------------------------------------------------
(* The workflows *)

Meters == {"usd_opcost", "tokens", "disbursed_usd"}

\* usd_opcost is in cents.
Amounts(usd, tokens, disbursed) ==
  [m \in Meters |-> CASE m = "usd_opcost" -> usd [] m = "tokens" -> tokens
                      [] m = "disbursed_usd" -> disbursed]

SupportCommitment(disbursed) == [max_calls |-> 25, limits |-> Amounts(100, 20000, disbursed)]
ToolsAllow == {"crm.read", "payments.refund", "tickets.update", "tickets.escalate"}
ToolsDeny == {"admin.delete_user"}

Call(tool) == [op |-> "call", tool |-> tool, amount |-> 0]
Refund(amount) == [op |-> "call", tool |-> "payments.refund", amount |-> amount]
AddDisbursed(amount) == [op |-> "amend", amount |-> amount]

\* Every refund of them cites a ticket.
Workflows ==
  [happy_support |->
     [commitment |-> SupportCommitment(400),
      steps |-> <<Call("crm.read"), Refund(25), Call("tickets.update")>>],
   drift_delete |->
     [commitment |-> SupportCommitment(400), steps |-> <<Call("admin.delete_user")>>],
   policy_deny_then_amend |->
     [commitment |-> SupportCommitment(400), steps |-> <<Refund(300), AddDisbursed(200), Refund(150)>>],
   cumulative_disbursement |->
     [commitment |-> SupportCommitment(250), steps |-> [i \in 1..4 |-> Refund(120)]]]

Commitment == Workflows[workflow].commitment
Steps == <<[op |-> "open"]>> \o Workflows[workflow].steps

-----------------------------------------------------------------------------
(* What calls cost *)

Estimate(call) ==
  CASE call.tool = "payments.refund" -> Amounts(1, 50, 0)
    [] call.tool = "crm.read" -> Amounts(0, 200, 0)
    [] call.tool \in {"tickets.update", "tickets.escalate"} -> Amounts(0, 120, 0)
    [] call.tool = "admin.delete_user" -> Amounts(0, 80, 0)

\* _self_reported_cost: a refund reports what it moved; the other tools report what the
\* operator estimates.
Report(call) ==
  IF call.tool = "payments.refund" THEN Amounts(1, 50, call.amount) ELSE Estimate(call)

Plus(a, b) == [m \in Meters |-> a[m] + b[m]]

-----------------------------------------------------------------------------
NoSession == [made |-> 0, spent |-> Amounts(0, 0, 0), limits |-> Amounts(0, 0, 0)]
Opened == [NoSession EXCEPT !.limits = Commitment.limits]

Flight(step) == [step |-> step, phase |-> "sent", ran |-> FALSE, verdict |-> "none"]

Init ==
  /\ workflow \in DOMAIN Workflows
  /\ agent = [step |-> 1, attempt |-> 1, told |-> <<>>, state |-> "waiting"]
  /\ flights = <<Flight(1)>>
  /\ session = NoSession /\ faults = 0

-----------------------------------------------------------------------------
(* The agent *)

Awaited == Len(flights)

\* run_workflow goes on to the next step, whatever the verdict.
TakeVerdict ==
  /\ agent.state = "waiting" /\ flights[Awaited].phase = "answered"
  /\ LET told == Append(agent.told, flights[Awaited].verdict)
         last == agent.step = Len(Steps)
     IN  /\ agent' = [step |-> IF last THEN agent.step ELSE agent.step + 1, attempt |-> 1,
                      told |-> told, state |-> IF last THEN "done" ELSE "waiting"]
         /\ flights' = IF last THEN flights ELSE Append(flights, Flight(agent.step + 1))
  /\ UNCHANGED <<workflow, session, faults>>

\* The answer does not come in 20 seconds, or the connection breaks on either way.
LosesTouch ==
  /\ agent.state = "waiting" /\ faults < MaxFaults
  /\ agent' = [agent EXCEPT !.state = "broken"] /\ faults' = faults + 1
  /\ UNCHANGED <<workflow, flights, session>>

Retry ==
  /\ agent.state = "broken" /\ agent.attempt < Attempts
  /\ agent' = [agent EXCEPT !.attempt = @ + 1, !.state = "waiting"]
  /\ flights' = Append(flights, Flight(agent.step))
  /\ UNCHANGED <<workflow, session, faults>>

Raise ==
  /\ agent.state = "broken" /\ agent.attempt = Attempts
  /\ agent' = [agent EXCEPT !.state = "raised"]
  /\ UNCHANGED <<workflow, flights, session, faults>>

-----------------------------------------------------------------------------
(* The proxy *)

\* Mutant: a request that was given up keeps the proxy from taking the next.
FreeUnlessDropped == \A f \in DOMAIN flights : flights[f].phase \in {"sent", "answered"}

\* Mutant: requests are handled concurrently.
FreeAlways == TRUE

Free == \A f \in DOMAIN flights : flights[f].phase # "forwarded"

Arrives(f, op) == flights[f].phase = "sent" /\ Steps[flights[f].step].op = op /\ Free

Answer(f, verdict) ==
  flights' = [flights EXCEPT ![f].phase = "answered", ![f].verdict = verdict]

\* A session that was made for an attempt nobody waits for is left unused.
Open(f) ==
  /\ Arrives(f, "open") /\ Answer(f, "served")
  /\ session' = IF f = Awaited THEN Opened ELSE session
  /\ UNCHANGED <<workflow, agent, faults>>

\* Signed, and the goal still coherent.
Amend(f) ==
  /\ Arrives(f, "amend") /\ Answer(f, "served")
  /\ session' = [session EXCEPT !.limits = Plus(@, Amounts(0, 0, Steps[flights[f].step].amount))]
  /\ UNCHANGED <<workflow, agent, faults>>

InScope(call) == call.tool \notin ToolsDeny /\ call.tool \in ToolsAllow

WithinBudget(call) ==
  /\ session.made + 1 <= Commitment.max_calls
  /\ \A m \in Meters : Plus(session.spent, Estimate(call))[m] <= session.limits[m]

RefundCap == 200

\* Mutant: no rule on the amount.
PermittedAnyAmount(call) == TRUE

Permitted(call) == call.tool = "payments.refund" => call.amount <= RefundCap

Refuse(f) ==
  /\ Arrives(f, "call")
  /\ LET call == Steps[flights[f].step] IN
     ~InScope(call) \/ ~WithinBudget(call) \/ ~Permitted(call)
  /\ Answer(f, "denied")
  /\ UNCHANGED <<workflow, agent, session, faults>>

Forward(f) ==
  /\ Arrives(f, "call")
  /\ LET call == Steps[flights[f].step] IN
     /\ InScope(call) /\ WithinBudget(call) /\ Permitted(call)
     /\ session' = [session EXCEPT !.made = @ + 1, !.spent = Plus(@, Estimate(call))]
  /\ flights' = [flights EXCEPT ![f].phase = "forwarded"]
  /\ UNCHANGED <<workflow, agent, faults>>

\* Upstream does not answer in 20 seconds: the connection to the client breaks too.
Drop(f) ==
  /\ flights[f].phase = "forwarded" /\ faults < MaxFaults
  /\ flights' = [flights EXCEPT ![f].phase = "dropped"] /\ faults' = faults + 1
  /\ agent' = IF f = Awaited /\ agent.state = "waiting"
              THEN [agent EXCEPT !.state = "broken"] ELSE agent
  /\ UNCHANGED <<workflow, session>>

\* Mutant: what the tool reports comes on top of the estimate.
ReconciledOnTop(spent, call) == Plus(spent, Report(call))

\* Mutant: the estimate stands.
EstimateStands(spent, call) == spent

Reconciled(spent, call) == [m \in Meters |-> spent[m] + Report(call)[m] - Estimate(call)[m]]

Return(f) ==
  /\ flights[f].phase = "forwarded" /\ flights[f].ran
  /\ session' = [session EXCEPT !.spent = Reconciled(@, Steps[flights[f].step])]
  /\ Answer(f, "served")
  /\ UNCHANGED <<workflow, agent, faults>>

-----------------------------------------------------------------------------
\* Upstream runs what was forwarded to it, perhaps when nobody waits any more.
Execute(f) ==
  /\ flights[f].phase \in {"forwarded", "dropped"} /\ ~flights[f].ran
  /\ flights' = [flights EXCEPT ![f].ran = TRUE]
  /\ UNCHANGED <<workflow, agent, session, faults>>

RunWorkflow == TakeVerdict \/ Retry \/ Raise
Dispatch(f) == Open(f) \/ Amend(f) \/ Refuse(f) \/ Forward(f) \/ Return(f)

Next ==
  \/ RunWorkflow \/ LosesTouch
  \/ \E f \in DOMAIN flights : Dispatch(f) \/ Drop(f) \/ Execute(f)

Spec == Init /\ [][Next]_vars

\* Processes run; faults need not happen, nor a request arrive that nobody waits for.
LiveSpec ==
  /\ Spec /\ WF_vars(RunWorkflow) /\ WF_vars(Dispatch(Awaited))
  /\ WF_vars(\E f \in DOMAIN flights : Return(f) \/ Execute(f))

-----------------------------------------------------------------------------
(* Properties *)

CallOf(f) == Steps[flights[f].step]
Admitted == {f \in DOMAIN flights : CallOf(f).op = "call" /\ flights[f].verdict # "denied"
                                    /\ flights[f].phase # "sent"}
Moved(over) == SumFunction([f \in over |-> CallOf(f).amount])

\* What an admitted call has cost so far.
Cost(f) == IF flights[f].phase = "answered" THEN Report(CallOf(f)) ELSE Estimate(CallOf(f))

\* Whatever is lost, late or repeated, each meter has for every admitted call what its
\* tool reported, or the estimate if the report never came, and nothing else
\* (verify_call, reconcile_cost).
MetersTrue ==
  /\ session.made = Cardinality(Admitted)
  /\ \A m \in Meters : session.spent[m] = SumFunction([f \in Admitted |-> Cost(f)[m]])

\* The cumulative meter and the cap of the local policy together bound the money: refunds
\* upstream has made, except those the proxy gave up waiting for, are over the limit by
\* one refund at most (_check_budget, PolicyRule.check, reconcile_cost).
MoneyBounded ==
  Moved({f \in Admitted : flights[f].ran /\ flights[f].phase # "dropped"})
    <= session.limits["disbursed_usd"] + RefundCap

Expected ==
  [happy_support |-> <<"served", "served", "served", "served">>,
   drift_delete |-> <<"served", "denied">>,
   policy_deny_then_amend |-> <<"served", "denied", "served", "served">>,
   cumulative_disbursement |-> <<"served", "served", "served", "served", "denied">>]

\* Drift and the refund above the cap never reach upstream, however often they are
\* repeated (_check_scope, PolicyRule.check).
RefusedNeverRuns ==
  \A f \in DOMAIN flights :
    flights[f].ran => CallOf(f).tool \notin ToolsDeny /\ CallOf(f).amount <= RefundCap

\* If nothing fails the agent is told the verdicts that the workflows' comments say they
\* are there to show (WORKFLOWS, run_workflow).
ShowsWhatItShould == agent.state = "done" /\ faults = 0 => agent.told = Expected[workflow]

\* The agent comes to the end of its workflow or raises (run_workflow, _post).
WorkflowEnds == <>(agent.state \in {"done", "raised"})

Tools == ToolsAllow \cup ToolsDeny
Asked == UNION {Range(Workflows[w].steps) : w \in DOMAIN Workflows}

\* What a call's report adds to its estimate.
Correction(call) == [m \in Meters |-> Report(call)[m] - Estimate(call)[m]]
CorrectionsOn(tool) == {Correction(call) : call \in {c \in Asked : c.op = "call" /\ c.tool = tool}}

\* Each attempt at opening that was answered has a session.  The agent uses that of the
\* last attempt.
Openings == 1..(MaxFaults + 1)
Made(f) == f \in DOMAIN flights /\ flights[f].step = 1 /\ flights[f].phase = "answered"
Unused(f) == \E g \in DOMAIN flights : g > f /\ flights[g].step = 1

InFlight == {CallOf(f).tool : f \in {g \in DOMAIN flights : flights[g].phase = "forwarded"}}

AccountOf(commitment, s, due) ==
  [open |-> TRUE, made |-> s.made, spent |-> s.spent, limits |-> s.limits,
   max_calls |-> commitment.max_calls, tools |-> {tool \in Tools : InScope(Call(tool))},
   due |-> due]

Account(f) ==
  CASE ~Made(f) -> [open |-> FALSE]
    [] Made(f) /\ Unused(f) -> AccountOf(Commitment, Opened, {})
    [] Made(f) /\ ~Unused(f) -> AccountOf(Commitment, session, InFlight)

Adm == INSTANCE Admission WITH
         Sids <- Openings, Accounts <- Openings, Null <- 0, None <- -1,
         Costs <- [tool \in Tools |-> {Estimate(Call(tool))}],
         Corrections <- [tool \in Tools |-> CorrectionsOn(tool)],
         current <- [f \in Openings |-> IF Made(f) THEN f ELSE 0],
         account <- [f \in Openings |-> Account(f)]

\* However often requests are repeated, and whoever still waits for them, each session is
\* an account that admits calls one at a time within its scope and ceilings and settles
\* each at most once, for what the tool reports (verify_call, reconcile_cost, amend).
SessionAdmits == Adm!Spec

\* The draft: a limit is the maximum cumulative value of its meter.
LimitIsMaximum == session.spent["disbursed_usd"] <= session.limits["disbursed_usd"]

=============================================================================
