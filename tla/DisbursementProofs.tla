-------------------------- MODULE DisbursementProofs --------------------------
(***************************************************************************)
(* For any number of attempts and of faults: the meters of the agent's     *)
(* session have what its admitted calls cost, the refunds that count are   *)
(* over the limit by one at most, what scope and policy refuse is never    *)
(* run, a demo that nothing disturbs shows what it is there to show, and   *)
(* each session that was made is an account of Admission.                  *)
(*                                                                         *)
(* The proxy handles a request at a time, so nothing changes between the   *)
(* comparison with the limit and the report of the call that passed it.    *)
(* Three invariants: IInv, of what is charged; and, resting on it,         *)
(* Tracked, of the attempts at opening and the session that the agent has, *)
(* and OnCourse, of a workflow while nothing fails.                        *)
(***************************************************************************)
EXTENDS Disbursement, SumProofs

Disbursed == "disbursed_usd"

\* The steps of the workflows: a commitment, then calls and amendments.  Only a refund has
\* an amount.
CallStep == {call \in [op : {"call"}, tool : ToolsAllow \cup ToolsDeny, amount : Nat] :
               call.tool # "payments.refund" => call.amount = 0}
AmendStep == [op : {"amend"}, amount : Nat]

Verdicts == {"none", "served", "denied"}
AgentType == [step : Nat, attempt : Nat, told : Seq(Verdicts),
              state : {"waiting", "broken", "done", "raised"}]
FlightType == [step : Nat, phase : {"sent", "answered", "forwarded", "dropped"},
               ran : BOOLEAN, verdict : Verdicts]

\* The agent waits for the last attempt, at its latest step.
TypeOK ==
  /\ workflow \in DOMAIN Workflows
  /\ agent \in AgentType /\ agent.step \in 1..Len(Steps)
  /\ flights \in Seq(FlightType) /\ flights # <<>>
  /\ session \in [made : Nat, spent : [Meters -> Nat], limits : [Meters -> Nat]]
  /\ \A f \in DOMAIN flights : flights[f].step \in 1..agent.step
  /\ flights[Awaited].step = agent.step

\* What runs passed scope and policy, and only one call is at the upstream server for the
\* proxy.
Flown ==
  /\ \A f \in DOMAIN flights :
       /\ flights[f].phase # "answered" => flights[f].verdict = "none"
       /\ flights[f].phase = "sent" => ~flights[f].ran
       /\ flights[f].ran \/ flights[f].phase \in {"forwarded", "dropped"} =>
            CallOf(f).op = "call" /\ InScope(CallOf(f)) /\ Permitted(CallOf(f))
  /\ \A f, g \in DOMAIN flights :
       flights[f].phase = "forwarded" /\ flights[g].phase = "forwarded" => f = g

\* A call is forwarded under the limit, and reports a refund within the cap.
Bounded ==
  /\ session.spent[Disbursed] <= session.limits[Disbursed] + RefundCap
  /\ (\E f \in DOMAIN flights : flights[f].phase = "forwarded") =>
       session.spent[Disbursed] <= session.limits[Disbursed]

IInv == TypeOK /\ Flown /\ MetersTrue /\ Bounded

-----------------------------------------------------------------------------
(* The workflows *)

LEMMA ScriptSteps ==
  ASSUME workflow \in DOMAIN Workflows
  PROVE  Workflows[workflow].steps \in Seq(CallStep \cup AmendStep)
<1>1. /\ \A tool \in ToolsAllow \cup ToolsDeny : Call(tool) \in CallStep
      /\ \A amount \in Nat : Refund(amount) \in CallStep /\ AddDisbursed(amount) \in AmendStep
  BY DEF Call, Refund, AddDisbursed, CallStep, AmendStep, ToolsAllow
<1>2. DOMAIN Workflows = {"happy_support", "drift_delete", "policy_deny_then_amend",
                          "cumulative_disbursement"}
  BY DEF Workflows
<1>3. CASE workflow = "happy_support"
  <2>1. Workflows[workflow].steps = <<Call("crm.read"), Refund(25), Call("tickets.update")>>
    BY <1>3 DEF Workflows
  <2> QED BY <1>1, <2>1 DEF ToolsAllow
<1>4. CASE workflow = "drift_delete"
  <2>1. Workflows[workflow].steps = <<Call("admin.delete_user")>>
    BY <1>4 DEF Workflows
  <2> QED BY <1>1, <2>1 DEF ToolsDeny
<1>5. CASE workflow = "policy_deny_then_amend"
  <2>1. Workflows[workflow].steps = <<Refund(300), AddDisbursed(200), Refund(150)>>
    BY <1>5 DEF Workflows
  <2> QED BY <1>1, <2>1
<1>6. CASE workflow = "cumulative_disbursement"
  <2>1. Workflows[workflow].steps = [i \in 1..4 |-> Refund(120)]
    BY <1>6 DEF Workflows
  <2> QED BY <1>1, <2>1
<1> QED BY <1>2, <1>3, <1>4, <1>5, <1>6

LEMMA StepsOf ==
  ASSUME workflow \in DOMAIN Workflows
  PROVE  /\ Len(Steps) \in Nat \ {0} /\ Steps[1] = [op |-> "open"]
         /\ \A i \in 2..Len(Steps) : Steps[i] \in CallStep \cup AmendStep
BY ScriptSteps DEF Steps

\* The limits that a workflow starts with.
LEMMA CommitmentOf ==
  ASSUME workflow \in DOMAIN Workflows
  PROVE  Commitment.limits \in [Meters -> Nat]
<1>1. DOMAIN Workflows = {"happy_support", "drift_delete", "policy_deny_then_amend",
                          "cumulative_disbursement"}
  BY DEF Workflows
<1>2. \A disbursed \in Nat : SupportCommitment(disbursed).limits \in [Meters -> Nat]
  BY DEF SupportCommitment, Amounts, Meters
<1>3. Commitment \in {SupportCommitment(400), SupportCommitment(250)}
  BY <1>1 DEF Commitment, Workflows
<1> QED BY <1>2, <1>3

\* What calls cost, and report: the disbursed meter is charged with refunds only, when they
\* report.
LEMMA CostsOf ==
  ASSUME NEW call \in CallStep
  PROVE  /\ Estimate(call) \in [Meters -> Nat] /\ Report(call) \in [Meters -> Nat]
         /\ \A m \in Meters : Estimate(call)[m] <= Report(call)[m]
         /\ Estimate(call)[Disbursed] = 0
         /\ Report(call)[Disbursed] = call.amount /\ call.amount \in Nat
         /\ Permitted(call) => call.amount <= RefundCap
<1>1. /\ call.tool \in {"crm.read", "payments.refund", "tickets.update", "tickets.escalate",
                        "admin.delete_user"}
      /\ call.amount \in Nat /\ (call.tool # "payments.refund" => call.amount = 0)
  BY DEF CallStep, ToolsAllow, ToolsDeny
<1>2. ASSUME NEW usd \in Nat, NEW tokens \in Nat, NEW disbursed \in Nat
      PROVE  /\ Amounts(usd, tokens, disbursed) \in [Meters -> Nat]
             /\ Amounts(usd, tokens, disbursed)["usd_opcost"] = usd
             /\ Amounts(usd, tokens, disbursed)["tokens"] = tokens
             /\ Amounts(usd, tokens, disbursed)[Disbursed] = disbursed
  BY DEF Amounts, Meters, Disbursed
<1>3. /\ call.tool = "payments.refund" => Estimate(call) = Amounts(1, 50, 0)
      /\ call.tool = "crm.read" => Estimate(call) = Amounts(0, 200, 0)
      /\ call.tool \in {"tickets.update", "tickets.escalate"} => Estimate(call) = Amounts(0, 120, 0)
      /\ call.tool = "admin.delete_user" => Estimate(call) = Amounts(0, 80, 0)
  BY DEF Estimate
<1>4. Report(call) = IF call.tool = "payments.refund" THEN Amounts(1, 50, call.amount)
                     ELSE Estimate(call)
  BY DEF Report
<1>5. Meters = {"usd_opcost", "tokens", Disbursed}
  BY DEF Meters, Disbursed
<1> HIDE DEF Disbursed
<1>6. /\ Estimate(call) \in [Meters -> Nat] /\ Report(call) \in [Meters -> Nat]
      /\ Estimate(call)[Disbursed] = 0 /\ Report(call)[Disbursed] = call.amount
      /\ \A m \in Meters : Estimate(call)[m] <= Report(call)[m]
  <2>1. CASE call.tool = "payments.refund"
    <3>0. PICK amount \in Nat : amount = call.amount
      BY <1>1
    <3> DEFINE e == Amounts(1, 50, 0)
               r == Amounts(1, 50, amount)
    <3>1. Estimate(call) = e /\ Report(call) = r
      BY <1>3, <1>4, <2>1, <3>0
    <3>2. /\ e \in [Meters -> Nat] /\ e["usd_opcost"] = 1 /\ e["tokens"] = 50
          /\ e[Disbursed] = 0
      BY <1>2
    <3>3. /\ r \in [Meters -> Nat] /\ r["usd_opcost"] = 1 /\ r["tokens"] = 50
          /\ r[Disbursed] = amount
      BY <1>2
    <3> HIDE DEF e, r
    <3> QED BY <1>5, <3>0, <3>1, <3>2, <3>3
  <2>2. CASE call.tool # "payments.refund"
    <3>1. Report(call) = Estimate(call) /\ call.amount = 0
      BY <1>1, <1>4, <2>2
    <3>2. \E usd, tokens \in Nat : Estimate(call) = Amounts(usd, tokens, 0)
      BY <1>1, <1>3, <2>2
    <3>3. Estimate(call) \in [Meters -> Nat] /\ Estimate(call)[Disbursed] = 0
      BY <1>2, <3>2
    <3>4. \A m \in Meters : Estimate(call)[m] \in Nat
      BY <3>3
    <3> QED BY <3>1, <3>3, <3>4
  <2> QED BY <2>1, <2>2
<1>7. Permitted(call) => call.amount <= RefundCap
  BY <1>1 DEF Permitted, RefundCap
<1> QED BY <1>1, <1>6, <1>7

\* What the calls of flights are.
LEMMA CallsOf ==
  ASSUME TypeOK, NEW f \in DOMAIN flights
  PROVE  /\ CallOf(f).op = "open" <=> flights[f].step = 1
         /\ CallOf(f).op = "call" => CallOf(f) \in CallStep
         /\ CallOf(f).op = "amend" => CallOf(f) \in AmendStep
         /\ CallOf(f) = Steps[flights[f].step]
<1>1. flights[f].step \in 1..Len(Steps)
  BY StepsOf DEF TypeOK
<1>2. CASE flights[f].step = 1
  BY <1>2, StepsOf DEF TypeOK, CallOf, CallStep, AmendStep
<1>3. CASE flights[f].step # 1
  <2>1. CallOf(f) \in CallStep \cup AmendStep
    BY <1>1, <1>3, StepsOf DEF TypeOK, CallOf
  <2> QED BY <1>3, <2>1 DEF CallStep, AmendStep, CallOf
<1> QED BY <1>2, <1>3

\* What admitted calls have cost are numbers.
LEMMA Charged ==
  ASSUME TypeOK
  PROVE  /\ IsFiniteSet(Admitted) /\ IsFiniteSet(DOMAIN flights)
         /\ Admitted \subseteq DOMAIN flights
         /\ \A f \in Admitted : /\ CallOf(f) \in CallStep
                                /\ Cost(f) \in [Meters -> Nat]
<1>1. IsFiniteSet(DOMAIN flights)
  <2>1. DOMAIN flights = 1..Len(flights) /\ Len(flights) \in Nat
    BY DEF TypeOK
  <2> QED BY <2>1, FS_Interval
<1>2. Admitted \subseteq DOMAIN flights /\ \A f \in Admitted : CallOf(f) \in CallStep
  BY CallsOf DEF Admitted
<1>3. \A f \in Admitted : Cost(f) \in [Meters -> Nat]
  BY <1>2, CostsOf DEF Cost
<1> QED BY <1>1, <1>2, <1>3, FS_Subset

-----------------------------------------------------------------------------
(* Steps *)

\* What a call costs depends on it and on the phase of its flight.
LEMMA CostFrame ==
  ASSUME NEW f, CallOf(f)' = CallOf(f)
  PROVE  Cost(f)' = IF flights'[f].phase = "answered" THEN Report(CallOf(f))
                    ELSE Estimate(CallOf(f))
<1>1. PICK call : call = CallOf(f)
  OBVIOUS
<1>2. Estimate(CallOf(f))' = Estimate(call)
  BY <1>1 DEF Estimate, Amounts
<1>3. Report(CallOf(f))' = Report(call)
  BY <1>1, <1>2 DEF Report, Amounts
<1> QED BY <1>1, <1>2, <1>3 DEF Cost

\* Nothing is admitted or billed: the meters stay true.
LEMMA SameCharges ==
  ASSUME MetersTrue, Admitted' = Admitted, \A f \in Admitted : Cost(f)' = Cost(f),
         session'.made = session.made, session'.spent = session.spent
  PROVE  MetersTrue'
<1>1. ASSUME NEW m \in Meters
      PROVE  [f \in Admitted |-> Cost(f)[m]]' = [f \in Admitted |-> Cost(f)[m]]
  OBVIOUS
<1>2. ASSUME NEW m \in Meters
      PROVE  session'.spent[m] = SumFunction([f \in Admitted |-> Cost(f)[m]])'
  BY <1>1 DEF MetersTrue
<1> QED BY <1>2 DEF MetersTrue

\* What is sent is not admitted yet, and leaves the rest as it is.
LEMMA NewFlight ==
  ASSUME IInv, NEW s \in agent.step..Len(Steps), flights' = Append(flights, Flight(s)),
         agent' \in AgentType, agent'.step = s, UNCHANGED <<workflow, session>>
  PROVE  IInv'
<1>1. Flight(s) \in FlightType /\ s \in Nat
  BY StepsOf DEF IInv, TypeOK, Flight, FlightType, Verdicts
<1>2. /\ flights' \in Seq(FlightType) /\ DOMAIN flights = 1..Len(flights) /\ Len(flights) \in Nat
      /\ Len(flights') = Len(flights) + 1 /\ DOMAIN flights' = DOMAIN flights \cup {Len(flights')}
      /\ Len(flights') \notin DOMAIN flights
      /\ flights'[Len(flights')] = Flight(s)
      /\ \A f \in DOMAIN flights : flights'[f] = flights[f]
  BY <1>1 DEF IInv, TypeOK
<1>3. /\ Flight(s).step = s /\ Flight(s).phase = "sent" /\ Flight(s).verdict = "none"
      /\ Flight(s).ran = FALSE
  BY DEF Flight
<1>4. Steps' = Steps
  BY DEF Steps
<1>5. TypeOK'
  <2>1. Len(Steps) \in Nat /\ agent.step \in 1..Len(Steps) /\ s \in 1..Len(Steps)
    BY StepsOf DEF IInv, TypeOK
  <2>2. \A f \in DOMAIN flights' : flights'[f].step \in 1..s
    BY <1>2, <1>3, <2>1 DEF IInv, TypeOK
  <2>3. flights' # <<>> /\ Awaited' = Len(flights')
    BY <1>2 DEF Awaited
  <2> QED BY <1>2, <1>3, <1>4, <2>1, <2>2, <2>3 DEF IInv, TypeOK
<1>6. \A f \in DOMAIN flights : CallOf(f)' = CallOf(f)
  BY <1>2, <1>4 DEF CallOf
<1>7. Flown'
  <2>1. ASSUME NEW f \in DOMAIN flights'
        PROVE  /\ flights'[f].phase # "answered" => flights'[f].verdict = "none"
               /\ flights'[f].phase = "sent" => ~flights'[f].ran
               /\ flights'[f].ran \/ flights'[f].phase \in {"forwarded", "dropped"} =>
                    CallOf(f)'.op = "call" /\ InScope(CallOf(f)') /\ Permitted(CallOf(f)')
               /\ flights'[f].phase = "forwarded" =>
                    f \in DOMAIN flights /\ flights[f].phase = "forwarded"
    <3>1. CASE f \in DOMAIN flights
      BY <1>2, <1>6, <3>1 DEF IInv, Flown
    <3>2. CASE f = Len(flights')
      BY <1>2, <1>3, <3>2
    <3> QED BY <1>2, <3>1, <3>2
  <2>2. ASSUME NEW f \in DOMAIN flights'
        PROVE  (InScope(CallOf(f)) /\ Permitted(CallOf(f)))' <=>
                 (InScope(CallOf(f)') /\ Permitted(CallOf(f)'))
    BY DEF InScope, Permitted, ToolsAllow, ToolsDeny, RefundCap
  <2> QED BY <2>1, <2>2 DEF IInv, Flown
<1>8. Admitted' = Admitted
  BY <1>2, <1>3, <1>6 DEF Admitted
<1>9. \A f \in Admitted : Cost(f)' = Cost(f)
  BY <1>2, <1>6, CostFrame DEF Admitted, Cost
<1>10. MetersTrue'
  BY <1>8, <1>9, SameCharges DEF IInv
<1>11. Bounded'
  BY <1>2, <1>3 DEF IInv, Bounded
<1> QED BY <1>5, <1>7, <1>10, <1>11 DEF IInv

\* One flight goes on.
LEMMA FlightMoves ==
  ASSUME IInv, NEW f \in DOMAIN flights, NEW x \in FlightType, x.step = flights[f].step,
         flights' = [flights EXCEPT ![f] = x],
         agent' \in AgentType, agent'.step = agent.step, workflow' = workflow,
         session' \in [made : Nat, spent : [Meters -> Nat], limits : [Meters -> Nat]],
         x.phase # "answered" => x.verdict = "none", x.phase = "sent" => ~x.ran,
         x.ran \/ x.phase \in {"forwarded", "dropped"} =>
           CallOf(f).op = "call" /\ InScope(CallOf(f)) /\ Permitted(CallOf(f)),
         x.phase = "forwarded" => flights[f].phase = "forwarded" \/ Free
  PROVE  /\ TypeOK' /\ Flown' /\ DOMAIN flights' = DOMAIN flights /\ flights'[f] = x
         /\ \A g \in DOMAIN flights : /\ g # f => flights'[g] = flights[g]
                                      /\ CallOf(g)' = CallOf(g)
<1>1. /\ flights' \in Seq(FlightType) /\ DOMAIN flights' = DOMAIN flights /\ flights'[f] = x
      /\ Len(flights') = Len(flights) /\ flights' # <<>>
      /\ \A g \in DOMAIN flights : g # f => flights'[g] = flights[g]
  BY DEF IInv, TypeOK
<1>2. Steps' = Steps
  BY DEF Steps
<1>3. \A g \in DOMAIN flights : flights'[g].step = flights[g].step /\ CallOf(g)' = CallOf(g)
  BY <1>1, <1>2 DEF CallOf
<1>4. TypeOK'
  <2>1. Awaited' = Awaited /\ Awaited \in DOMAIN flights
    BY <1>1 DEF Awaited, IInv, TypeOK
  <2> QED BY <1>1, <1>2, <1>3, <2>1 DEF IInv, TypeOK
<1>5. Flown'
  <2>1. ASSUME NEW g \in DOMAIN flights
        PROVE  /\ flights'[g].phase # "answered" => flights'[g].verdict = "none"
               /\ flights'[g].phase = "sent" => ~flights'[g].ran
               /\ flights'[g].ran \/ flights'[g].phase \in {"forwarded", "dropped"} =>
                    CallOf(g)'.op = "call" /\ InScope(CallOf(g)') /\ Permitted(CallOf(g)')
               /\ flights'[g].phase = "forwarded" =>
                    flights[g].phase = "forwarded" \/ (g = f /\ Free)
    <3>1. CASE g = f
      BY <1>1, <1>3, <3>1
    <3>2. CASE g # f
      BY <1>1, <1>3, <3>2 DEF IInv, Flown
    <3> QED BY <3>1, <3>2
  <2>2. ASSUME NEW g \in DOMAIN flights
        PROVE  (InScope(CallOf(g)) /\ Permitted(CallOf(g)))' <=>
                 (InScope(CallOf(g)') /\ Permitted(CallOf(g)'))
    BY DEF InScope, Permitted, ToolsAllow, ToolsDeny, RefundCap
  <2>3. ASSUME NEW g \in DOMAIN flights, NEW h \in DOMAIN flights,
               flights'[g].phase = "forwarded", flights'[h].phase = "forwarded"
        PROVE  g = h
    BY <2>1, <2>3 DEF IInv, Flown, Free
  <2> QED BY <1>1, <2>1, <2>2, <2>3 DEF Flown
<1> QED BY <1>1, <1>3, <1>4, <1>5

\* The agent hears nothing, or the last verdict.
LEMMA AgentAlone ==
  ASSUME IInv, agent' \in AgentType, agent'.step = agent.step,
         UNCHANGED <<workflow, flights, session>>
  PROVE  IInv'
<1>1. Steps' = Steps
  BY DEF Steps
<1>2. TypeOK'
  BY <1>1 DEF IInv, TypeOK, Awaited
<1>3. \A f : CallOf(f)' = CallOf(f)
  BY <1>1 DEF CallOf
<1>4. Flown'
  <2>1. \A f : (InScope(CallOf(f)) /\ Permitted(CallOf(f)))' <=>
                 (InScope(CallOf(f)') /\ Permitted(CallOf(f)'))
    BY DEF InScope, Permitted, ToolsAllow, ToolsDeny, RefundCap
  <2> QED BY <1>3, <2>1 DEF IInv, Flown
<1>5. Admitted' = Admitted /\ \A f \in Admitted : Cost(f)' = Cost(f)
  BY <1>3, CostFrame DEF Admitted, Cost
<1> QED BY <1>2, <1>4, <1>5, SameCharges DEF IInv, Bounded

\* The agent's steps.
LEMMA AgentSteps ==
  ASSUME IInv, RunWorkflow \/ LosesTouch
  PROVE  IInv'
<1>1. /\ agent \in AgentType /\ agent.step \in 1..Len(Steps) /\ Len(Steps) \in Nat
      /\ flights[Awaited].verdict \in Verdicts
  <2>1. Awaited \in DOMAIN flights /\ flights \in Seq(FlightType)
    BY DEF IInv, TypeOK, Awaited
  <2>2. flights[Awaited] \in FlightType
    BY <2>1
  <2>3. Len(Steps) \in Nat
    BY StepsOf DEF IInv, TypeOK
  <2> QED BY <2>2, <2>3 DEF IInv, TypeOK, FlightType
<1>2. CASE LosesTouch \/ Raise
  <2>1. agent' \in AgentType /\ agent'.step = agent.step
    BY <1>1, <1>2 DEF LosesTouch, Raise, AgentType
  <2> QED BY <1>2, <2>1, AgentAlone DEF LosesTouch, Raise
<1>3. CASE Retry
  <2>1. agent' \in AgentType /\ agent'.step = agent.step
    <3>1. agent' = [step |-> agent.step, attempt |-> agent.attempt + 1, told |-> agent.told,
                    state |-> "waiting"]
      BY <1>1, <1>3 DEF Retry, AgentType
    <3> QED BY <1>1, <3>1 DEF AgentType
  <2>2. agent.step \in agent.step..Len(Steps)
    BY <1>1
  <2> QED BY <1>3, <2>1, <2>2, NewFlight DEF Retry
<1>4. CASE TakeVerdict
  <2> DEFINE told == Append(agent.told, flights[Awaited].verdict)
  <2>1. told \in Seq(Verdicts)
    BY <1>1 DEF AgentType
  <2> HIDE DEF told
  <2>2. CASE agent.step = Len(Steps)
    <3>1. agent' = [step |-> agent.step, attempt |-> 1, told |-> told, state |-> "done"]
      BY <1>4, <2>2 DEF TakeVerdict, told
    <3>2. agent' \in AgentType /\ agent'.step = agent.step
      BY <1>1, <2>1, <3>1 DEF AgentType
    <3> QED BY <1>4, <2>2, <3>2, AgentAlone DEF TakeVerdict
  <2>3. CASE agent.step # Len(Steps)
    <3>1. /\ agent' = [step |-> agent.step + 1, attempt |-> 1, told |-> told, state |-> "waiting"]
          /\ flights' = Append(flights, Flight(agent.step + 1)) /\ UNCHANGED <<workflow, session>>
      BY <1>4, <2>3 DEF TakeVerdict, told
    <3>2. agent' \in AgentType /\ agent'.step = agent.step + 1
      BY <1>1, <2>1, <3>1 DEF AgentType
    <3>3. agent.step + 1 \in agent.step..Len(Steps)
      BY <1>1, <2>3
    <3> QED BY <3>1, <3>2, <3>3, NewFlight
  <2> QED BY <2>2, <2>3
<1> QED BY <1>2, <1>3, <1>4 DEF RunWorkflow

\* A flight that goes on and is neither admitted nor billed by it.
LEMMA Unbilled ==
  ASSUME IInv, NEW f \in DOMAIN flights, NEW x \in FlightType, x.step = flights[f].step,
         flights' = [flights EXCEPT ![f] = x],
         agent' \in AgentType, agent'.step = agent.step, UNCHANGED <<workflow, session>>,
         x.phase # "answered" => x.verdict = "none", x.phase = "sent" => ~x.ran,
         x.ran \/ x.phase \in {"forwarded", "dropped"} =>
           CallOf(f).op = "call" /\ InScope(CallOf(f)) /\ Permitted(CallOf(f)),
         x.phase = "forwarded" => flights[f].phase = "forwarded",
         \/ CallOf(f).op # "call"
         \/ flights[f].phase = "sent" /\ x.verdict = "denied"
         \/ /\ flights[f].phase \in {"forwarded", "dropped"} /\ x.phase \in {"forwarded", "dropped"}
            /\ flights[f].verdict # "denied" /\ x.verdict # "denied"
  PROVE  IInv'
<1>1. /\ TypeOK' /\ Flown' /\ DOMAIN flights' = DOMAIN flights /\ flights'[f] = x
      /\ \A g \in DOMAIN flights : /\ g # f => flights'[g] = flights[g]
                                   /\ CallOf(g)' = CallOf(g)
  <2>1. session' \in [made : Nat, spent : [Meters -> Nat], limits : [Meters -> Nat]]
    BY DEF IInv, TypeOK
  <2> QED BY <2>1, FlightMoves
<1>2. \A g \in DOMAIN flights : g \in Admitted' <=> g \in Admitted
  BY <1>1 DEF Admitted
<1>3. Admitted' = Admitted
  BY <1>1, <1>2 DEF Admitted
<1>4. ASSUME NEW g \in Admitted PROVE Cost(g)' = Cost(g)
  <2>1. g \in DOMAIN flights /\ CallOf(g)' = CallOf(g)
    BY <1>1 DEF Admitted
  <2>2. flights'[g].phase = "answered" <=> flights[g].phase = "answered"
    BY <1>1, <2>1 DEF Admitted
  <2> QED BY <2>1, <2>2, CostFrame DEF Cost
<1>5. MetersTrue'
  BY <1>3, <1>4, SameCharges DEF IInv
<1>6. Bounded'
  BY <1>1 DEF IInv, Bounded
<1> QED BY <1>1, <1>5, <1>6 DEF IInv

LEMMA FlightTyped ==
  ASSUME IInv, NEW f \in DOMAIN flights
  PROVE  flights[f] \in FlightType
BY DEF IInv, TypeOK

\* The session is opened, or made for nobody.
LEMMA OpenStep ==
  ASSUME IInv, NEW f \in DOMAIN flights, Open(f)
  PROVE  IInv'
<1>1. PICK x : x = [flights[f] EXCEPT !.phase = "answered", !.verdict = "served"]
  OBVIOUS
<1>2. /\ x \in FlightType /\ x.step = flights[f].step /\ x.ran = flights[f].ran
      /\ x.phase = "answered" /\ x.verdict = "served"
  <2>1. flights[f] \in FlightType
    BY FlightTyped
  <2> QED BY <1>1, <2>1 DEF FlightType, Verdicts
<1>3. /\ flights[f].phase = "sent" /\ ~x.ran /\ CallOf(f).op = "open"
      /\ UNCHANGED <<workflow, agent>>
  BY <1>2 DEF Open, Arrives, CallOf, IInv, Flown
<1>4. flights' = [flights EXCEPT ![f] = x]
  BY <1>1 DEF Open, Answer, IInv, TypeOK
<1>5. agent' \in AgentType
  BY <1>3 DEF IInv, TypeOK
<1>6. CASE f # Awaited
  BY <1>2, <1>3, <1>4, <1>5, <1>6, Unbilled DEF Open
<1>7. CASE f = Awaited
  <2>1. session' = Opened /\ Opened.made = 0 /\ Opened.spent = Amounts(0, 0, 0)
        /\ Opened.limits = Commitment.limits
    BY <1>7 DEF Open, Opened, NoSession
  <2>2. Amounts(0, 0, 0) \in [Meters -> Nat] /\ \A m \in Meters : Amounts(0, 0, 0)[m] = 0
    BY DEF Amounts, Meters
  <2>3. Commitment.limits \in [Meters -> Nat]
    BY CommitmentOf DEF IInv, TypeOK
  <2>4. session' \in [made : Nat, spent : [Meters -> Nat], limits : [Meters -> Nat]]
    BY <2>1, <2>2, <2>3 DEF Opened, NoSession
  <2>5. /\ TypeOK' /\ Flown' /\ DOMAIN flights' = DOMAIN flights
        /\ \A g \in DOMAIN flights : /\ g # f => flights'[g] = flights[g]
                                     /\ CallOf(g)' = CallOf(g)
    BY <1>2, <1>3, <1>4, <1>5, <2>4, FlightMoves
  <2>6. \A g \in DOMAIN flights : CallOf(g).op = "open"
    <3>1. flights[f].step = 1
      BY <1>3, CallsOf DEF IInv
    <3>2. \A g \in DOMAIN flights : flights[g].step = 1
      BY <1>7, <3>1 DEF IInv, TypeOK
    <3> QED BY <3>2, CallsOf DEF IInv
  <2>7. Admitted' = {}
    BY <2>5, <2>6 DEF Admitted
  <2>8. MetersTrue'
    <3>1. Cardinality({}) = 0
      BY FS_EmptySet
    <3>2. ASSUME NEW m \in Meters PROVE SumFunction([g \in Admitted |-> Cost(g)[m]])' = 0
      <4>1. PICK c : c = [g \in Admitted |-> Cost(g)[m]]'
        OBVIOUS
      <4>2. DOMAIN c = {}
        BY <2>7, <4>1
      <4>3. SumFunction(c) = 0
        BY <4>2, SumEmpty DEF SumFunction
      <4> QED BY <4>1, <4>3
    <3> QED BY <2>1, <2>2, <2>7, <3>1, <3>2 DEF MetersTrue
  <2>9. Bounded'
    <3>1. Disbursed \in Meters
      BY DEF Disbursed, Meters
    <3>2. session'.spent[Disbursed] = 0 /\ session'.limits[Disbursed] \in Nat
      BY <2>1, <2>2, <2>3, <3>1
    <3> QED BY <3>2 DEF Bounded, RefundCap
  <2> QED BY <2>5, <2>8, <2>9 DEF IInv
<1> QED BY <1>6, <1>7

\* A limit grows.
LEMMA AmendFlight ==
  ASSUME IInv, NEW f \in DOMAIN flights, Amend(f)
  PROVE  IInv'
<1>1. PICK x : x = [flights[f] EXCEPT !.phase = "answered", !.verdict = "served"]
  OBVIOUS
<1>2. /\ x \in FlightType /\ x.step = flights[f].step /\ x.ran = flights[f].ran
      /\ x.phase = "answered" /\ x.verdict = "served"
  <2>1. flights[f] \in FlightType
    BY FlightTyped
  <2> QED BY <1>1, <2>1 DEF FlightType, Verdicts
<1>3. /\ flights[f].phase = "sent" /\ ~x.ran /\ CallOf(f).op = "amend"
      /\ UNCHANGED <<workflow, agent>>
      /\ session' = [session EXCEPT !.limits = Plus(@, Amounts(0, 0, CallOf(f).amount))]
  BY <1>2 DEF Amend, Arrives, CallOf, IInv, Flown
<1>4. flights' = [flights EXCEPT ![f] = x]
  BY <1>1 DEF Amend, Answer, IInv, TypeOK
<1>5. PICK amount \in Nat : amount = CallOf(f).amount
  <2>1. CallOf(f) \in AmendStep
    BY <1>3, CallsOf DEF IInv
  <2> QED BY <2>1 DEF AmendStep
<1>6. \A m \in Meters : Amounts(0, 0, amount)[m] \in Nat
  BY DEF Amounts, Meters
<1>7. PICK raised : raised = Plus(session.limits, Amounts(0, 0, amount))
  OBVIOUS
<1>8. raised \in [Meters -> Nat] /\ \A m \in Meters : session.limits[m] <= raised[m]
  BY <1>6, <1>7 DEF Plus, IInv, TypeOK
<1>9. /\ session'.made = session.made /\ session'.spent = session.spent /\ session'.limits = raised
      /\ session' \in [made : Nat, spent : [Meters -> Nat], limits : [Meters -> Nat]]
  BY <1>3, <1>5, <1>7, <1>8 DEF IInv, TypeOK
<1>10. agent' \in AgentType
  BY <1>3 DEF IInv, TypeOK
<1>11. /\ TypeOK' /\ Flown' /\ DOMAIN flights' = DOMAIN flights /\ flights'[f] = x
       /\ \A g \in DOMAIN flights : /\ g # f => flights'[g] = flights[g]
                                    /\ CallOf(g)' = CallOf(g)
  BY <1>2, <1>3, <1>4, <1>9, <1>10, FlightMoves
<1>12. MetersTrue'
  <2>1. Admitted' = Admitted /\ f \notin Admitted
    BY <1>3, <1>11 DEF Admitted
  <2>2. \A g \in Admitted : Cost(g)' = Cost(g)
    BY <1>11, <2>1, CostFrame DEF Admitted, Cost
  <2> QED BY <1>9, <2>1, <2>2, SameCharges DEF IInv
<1>13. Bounded'
  <2>1. Disbursed \in Meters
    BY DEF Disbursed, Meters
  <2>2. /\ session.spent[Disbursed] \in Nat /\ session.limits[Disbursed] \in Nat
        /\ raised[Disbursed] \in Nat /\ session.limits[Disbursed] <= raised[Disbursed]
    BY <1>8, <2>1 DEF IInv, TypeOK
  <2>3. ASSUME NEW g \in DOMAIN flights, flights'[g].phase = "forwarded"
        PROVE  flights[g].phase = "forwarded"
    BY <1>2, <1>11, <2>3
  <2> QED BY <1>9, <1>11, <2>2, <2>3 DEF IInv, Bounded, RefundCap
<1> QED BY <1>11, <1>12, <1>13 DEF IInv

\* A call is refused: nobody pays for it.
LEMMA RefuseFlight ==
  ASSUME IInv, NEW f \in DOMAIN flights, Refuse(f)
  PROVE  IInv'
<1>1. PICK x : x = [flights[f] EXCEPT !.phase = "answered", !.verdict = "denied"]
  OBVIOUS
<1>2. /\ x \in FlightType /\ x.step = flights[f].step /\ x.ran = flights[f].ran
      /\ x.phase = "answered" /\ x.verdict = "denied"
  <2>1. flights[f] \in FlightType
    BY FlightTyped
  <2> QED BY <1>1, <2>1 DEF FlightType, Verdicts
<1>3. flights[f].phase = "sent" /\ ~x.ran /\ UNCHANGED <<workflow, agent, session>>
  BY <1>2 DEF Refuse, Arrives, IInv, Flown
<1>4. flights' = [flights EXCEPT ![f] = x] /\ agent' \in AgentType
  BY <1>1, <1>3 DEF Refuse, Answer, IInv, TypeOK
<1> QED BY <1>2, <1>3, <1>4, Unbilled

\* The proxy gives a call up: the estimate stands.
LEMMA DropFlight ==
  ASSUME IInv, NEW f \in DOMAIN flights, Drop(f)
  PROVE  IInv'
<1>1. PICK x : x = [flights[f] EXCEPT !.phase = "dropped"]
  OBVIOUS
<1>2. /\ flights[f].phase = "forwarded" /\ flights[f] \in FlightType
      /\ flights[f].verdict = "none"
  BY FlightTyped DEF Drop, IInv, Flown
<1>3. /\ x \in FlightType /\ x.step = flights[f].step
      /\ x.phase = "dropped" /\ x.verdict = "none"
  BY <1>1, <1>2 DEF FlightType
<1>4. flights' = [flights EXCEPT ![f] = x] /\ UNCHANGED <<workflow, session>>
  BY <1>1 DEF Drop, IInv, TypeOK
<1>5. agent' \in AgentType /\ agent'.step = agent.step
  BY DEF Drop, IInv, TypeOK, AgentType
<1>6. CallOf(f).op = "call" /\ InScope(CallOf(f)) /\ Permitted(CallOf(f))
  BY <1>2 DEF IInv, Flown
<1> QED BY <1>2, <1>3, <1>4, <1>5, <1>6, Unbilled

\* Upstream runs a call, which changes no meter.
LEMMA ExecuteFlight ==
  ASSUME IInv, NEW f \in DOMAIN flights, Execute(f)
  PROVE  IInv'
<1>1. PICK x : x = [flights[f] EXCEPT !.ran = TRUE]
  OBVIOUS
<1>2. /\ flights[f].phase \in {"forwarded", "dropped"} /\ flights[f] \in FlightType
      /\ flights[f].verdict = "none"
  BY FlightTyped DEF Execute, IInv, Flown
<1>3. /\ x \in FlightType /\ x.step = flights[f].step
      /\ x.phase = flights[f].phase /\ x.verdict = "none"
  BY <1>1, <1>2 DEF FlightType
<1>4. /\ flights' = [flights EXCEPT ![f] = x] /\ UNCHANGED <<workflow, agent, session>>
      /\ agent' \in AgentType
  BY <1>1 DEF Execute, IInv, TypeOK
<1>5. CallOf(f).op = "call" /\ InScope(CallOf(f)) /\ Permitted(CallOf(f))
  BY <1>2 DEF IInv, Flown
<1> QED BY <1>2, <1>3, <1>4, <1>5, Unbilled

\* A call that passed is charged its estimate.
LEMMA ForwardFlight ==
  ASSUME IInv, NEW f \in DOMAIN flights, Forward(f)
  PROVE  IInv'
<1>1. PICK x : x = [flights[f] EXCEPT !.phase = "forwarded"]
  OBVIOUS
<1>2. /\ flights[f].phase = "sent" /\ CallOf(f).op = "call" /\ Free
      /\ InScope(CallOf(f)) /\ WithinBudget(CallOf(f)) /\ Permitted(CallOf(f))
      /\ session' = [session EXCEPT !.made = @ + 1, !.spent = Plus(@, Estimate(CallOf(f)))]
      /\ UNCHANGED <<workflow, agent>>
  BY DEF Forward, Arrives, CallOf
<1>3. /\ x \in FlightType /\ x.step = flights[f].step /\ ~x.ran
      /\ x.phase = "forwarded" /\ x.verdict = "none" /\ flights[f].verdict = "none"
  <2>1. flights[f] \in FlightType /\ flights[f].verdict = "none" /\ ~flights[f].ran
    BY <1>2, FlightTyped DEF IInv, Flown
  <2> QED BY <1>1, <2>1 DEF FlightType
<1>4. flights' = [flights EXCEPT ![f] = x]
  BY <1>1 DEF Forward, IInv, TypeOK
<1>5. PICK e \in [Meters -> Nat] : e = Estimate(CallOf(f)) /\ e[Disbursed] = 0
  BY <1>2, CallsOf, CostsOf DEF IInv
<1>6. PICK charged : charged = Plus(session.spent, e)
  OBVIOUS
<1>7. /\ charged \in [Meters -> Nat]
      /\ \A m \in Meters : /\ charged[m] = session.spent[m] + e[m]
                           /\ charged[m] <= session.limits[m]
  <2>1. \A m \in Meters : charged[m] <= session.limits[m]
    BY <1>2, <1>5, <1>6 DEF WithinBudget
  <2> QED BY <1>6, <2>1 DEF Plus, IInv, TypeOK
<1>8. /\ session'.made = session.made + 1 /\ session'.spent = charged
      /\ session'.limits = session.limits
      /\ session' \in [made : Nat, spent : [Meters -> Nat], limits : [Meters -> Nat]]
  <2>1. Plus(session.spent, Estimate(CallOf(f))) = charged
    BY <1>5, <1>6
  <2>2. session' = [session EXCEPT !.made = session.made + 1, !.spent = charged]
    BY <1>2, <2>1
  <2>3. session' = [made |-> session.made + 1, spent |-> charged, limits |-> session.limits]
    BY <2>2 DEF IInv, TypeOK
  <2> QED BY <1>7, <2>3 DEF IInv, TypeOK
<1>9. /\ TypeOK' /\ Flown' /\ DOMAIN flights' = DOMAIN flights /\ flights'[f] = x
      /\ \A g \in DOMAIN flights : /\ g # f => flights'[g] = flights[g]
                                   /\ CallOf(g)' = CallOf(g)
  <2>1. agent' \in AgentType /\ agent'.step = agent.step
    BY <1>2 DEF IInv, TypeOK
  <2> QED BY <1>2, <1>3, <1>4, <1>8, <2>1, FlightMoves
<1>10. /\ Admitted' = Admitted \cup {f} /\ f \notin Admitted
       /\ IsFiniteSet(Admitted)
  <2>1. f \notin Admitted
    BY <1>2 DEF Admitted
  <2>2. \A g \in DOMAIN flights : g \in Admitted' <=> g \in Admitted \/ g = f
    BY <1>2, <1>3, <1>9 DEF Admitted
  <2>3. Admitted' \subseteq DOMAIN flights /\ Admitted \subseteq DOMAIN flights
    BY <1>9 DEF Admitted
  <2> QED BY <2>1, <2>2, <2>3, Charged DEF IInv
<1>11. Cost(f)' = e /\ \A g \in Admitted : Cost(g)' = Cost(g)
  BY <1>3, <1>5, <1>9, <1>10, CostFrame DEF Admitted, Cost
<1>12. MetersTrue'
  <2>1. Cardinality(Admitted') = Cardinality(Admitted) + 1
    BY <1>10, FS_AddElement
  <2>2. ASSUME NEW m \in Meters
        PROVE  session'.spent[m] = SumFunction([g \in Admitted |-> Cost(g)[m]])'
    <3>1. PICK A : A = Admitted
      OBVIOUS
    <3>2. PICK c : c = [g \in A |-> Cost(g)[m]]
      OBVIOUS
    <3>3. PICK d : d = [g \in Admitted |-> Cost(g)[m]]'
      OBVIOUS
    <3>4. /\ DOMAIN d = A \cup {f} /\ d[f] = e[m] /\ e[m] \in Nat
          /\ \A g \in A : d[g] = c[g] /\ c[g] \in Nat
      BY <1>5, <1>10, <1>11, <3>1, <3>2, <3>3, Charged DEF IInv
    <3>5. SumFunctionOnSet(d, A \cup {f}) = d[f] + SumFunctionOnSet(d, A)
      BY <1>10, <3>1, <3>4, SumAdd
    <3>6. SumFunctionOnSet(d, A) = SumFunctionOnSet(c, A)
      BY <1>10, <3>1, <3>4, SumSame
    <3>7. SumFunctionOnSet(c, A) = session.spent[m]
      BY <3>1, <3>2 DEF IInv, MetersTrue, SumFunction
    <3>8. SumFunctionOnSet(d, A \cup {f}) = SumFunction(d)
      BY <3>4 DEF SumFunction
    <3>9. session'.spent[m] = session.spent[m] + e[m] /\ session.spent[m] \in Nat
      BY <1>7, <1>8 DEF IInv, TypeOK
    <3> QED BY <3>3, <3>4, <3>5, <3>6, <3>7, <3>8, <3>9
  <2>3. session'.made = Cardinality(Admitted')
    BY <1>8, <2>1 DEF IInv, MetersTrue
  <2> QED BY <2>2, <2>3 DEF MetersTrue
<1>13. Bounded'
  <2>1. Disbursed \in Meters
    BY DEF Disbursed, Meters
  <2>2. /\ session'.spent[Disbursed] <= session'.limits[Disbursed]
        /\ session'.spent[Disbursed] \in Nat /\ session'.limits[Disbursed] \in Nat
    BY <1>7, <1>8, <2>1
  <2> QED BY <2>2 DEF Bounded, RefundCap
<1> QED BY <1>9, <1>12, <1>13 DEF IInv

\* The tool reports, and what it reports takes the place of the estimate.
LEMMA ReturnFlight ==
  ASSUME IInv, NEW f \in DOMAIN flights, Return(f)
  PROVE  IInv'
<1>1. PICK x : x = [flights[f] EXCEPT !.phase = "answered", !.verdict = "served"]
  OBVIOUS
<1>2. /\ x \in FlightType /\ x.step = flights[f].step /\ x.ran = flights[f].ran
      /\ x.phase = "answered" /\ x.verdict = "served"
  <2>1. flights[f] \in FlightType
    BY FlightTyped
  <2> QED BY <1>1, <2>1 DEF FlightType, Verdicts
<1>3. /\ flights[f].phase = "forwarded" /\ flights[f].ran /\ flights[f].verdict = "none"
      /\ session' = [session EXCEPT !.spent = Reconciled(@, CallOf(f))]
      /\ UNCHANGED <<workflow, agent>>
  BY DEF Return, CallOf, IInv, Flown
<1>4. CallOf(f).op = "call" /\ InScope(CallOf(f)) /\ Permitted(CallOf(f))
  BY <1>3 DEF IInv, Flown
<1>5. flights' = [flights EXCEPT ![f] = x]
  BY <1>1 DEF Return, Answer, IInv, TypeOK
<1>6. PICK e \in [Meters -> Nat], r \in [Meters -> Nat] :
        /\ e = Estimate(CallOf(f)) /\ r = Report(CallOf(f))
        /\ \A m \in Meters : e[m] <= r[m]
        /\ e[Disbursed] = 0 /\ r[Disbursed] <= RefundCap
  BY <1>4, CallsOf, CostsOf DEF IInv
<1>7. PICK billed : billed = Reconciled(session.spent, CallOf(f))
  OBVIOUS
<1>8. /\ billed \in [Meters -> Nat]
      /\ \A m \in Meters : billed[m] = session.spent[m] + r[m] - e[m]
  <2>1. billed = [m \in Meters |-> session.spent[m] + r[m] - e[m]]
    BY <1>6, <1>7 DEF Reconciled
  <2>2. \A m \in Meters : session.spent[m] + r[m] - e[m] \in Nat
    <3>1. \A m \in Meters : session.spent[m] \in Nat /\ r[m] \in Nat /\ e[m] \in Nat /\ e[m] <= r[m]
      BY <1>6 DEF IInv, TypeOK
    <3> QED BY <3>1
  <2> QED BY <2>1, <2>2
<1>9. /\ session'.made = session.made /\ session'.spent = billed
      /\ session'.limits = session.limits
      /\ session' \in [made : Nat, spent : [Meters -> Nat], limits : [Meters -> Nat]]
  BY <1>3, <1>7, <1>8 DEF IInv, TypeOK
<1>10. /\ TypeOK' /\ Flown' /\ DOMAIN flights' = DOMAIN flights /\ flights'[f] = x
       /\ \A g \in DOMAIN flights : /\ g # f => flights'[g] = flights[g]
                                    /\ CallOf(g)' = CallOf(g)
  <2>1. agent' \in AgentType /\ agent'.step = agent.step
    BY <1>3 DEF IInv, TypeOK
  <2> QED BY <1>2, <1>3, <1>4, <1>5, <1>9, <2>1, FlightMoves
<1>11. Admitted' = Admitted /\ f \in Admitted
  BY <1>2, <1>3, <1>4, <1>10 DEF Admitted
<1>12. /\ Cost(f) = e /\ Cost(f)' = r
       /\ \A g \in Admitted \ {f} : Cost(g)' = Cost(g)
  BY <1>2, <1>3, <1>6, <1>10, CostFrame DEF Admitted, Cost
<1>13. MetersTrue'
  <2>1. ASSUME NEW m \in Meters
        PROVE  session'.spent[m] = SumFunction([g \in Admitted |-> Cost(g)[m]])'
    <3>1. PICK A : A = Admitted
      OBVIOUS
    <3>2. PICK c : c = [g \in A |-> Cost(g)[m]]
      OBVIOUS
    <3>3. PICK d : d = [g \in Admitted |-> Cost(g)[m]]'
      OBVIOUS
    <3>4. /\ DOMAIN d = A /\ DOMAIN c = A /\ f \in A /\ IsFiniteSet(A)
          /\ d[f] = r[m] /\ c[f] = e[m] /\ e[m] \in Nat /\ r[m] \in Nat
          /\ \A g \in A : c[g] \in Nat
          /\ \A g \in A \ {f} : d[g] = c[g]
      BY <1>6, <1>11, <1>12, <3>1, <3>2, <3>3, Charged DEF IInv
    <3>5. \A g \in A : c[g] \in Int /\ d[g] \in Int
      BY <3>4
    <3>6. SumFunctionOnSet(d, A) = SumFunctionOnSet(c, A) + d[f] - c[f]
      BY <3>4, <3>5, SumChange
    <3>7. SumFunctionOnSet(c, A) = session.spent[m]
      BY <3>1, <3>2 DEF IInv, MetersTrue, SumFunction
    <3>8. SumFunctionOnSet(d, A) = SumFunction(d)
      BY <3>4 DEF SumFunction
    <3>9. session'.spent[m] = session.spent[m] + r[m] - e[m]
      BY <1>8, <1>9
    <3> QED BY <3>3, <3>4, <3>6, <3>7, <3>8, <3>9
  <2> QED BY <1>9, <1>11, <2>1 DEF IInv, MetersTrue
<1>14. Bounded'
  <2>1. Disbursed \in Meters
    BY DEF Disbursed, Meters
  <2>2. /\ session.spent[Disbursed] <= session.limits[Disbursed]
        /\ session.spent[Disbursed] \in Nat /\ session.limits[Disbursed] \in Nat
        /\ r[Disbursed] \in Nat
    BY <1>3, <2>1 DEF IInv, TypeOK, Bounded
  <2>3. billed[Disbursed] <= session.limits[Disbursed] + RefundCap
    BY <1>6, <1>8, <2>1, <2>2 DEF RefundCap
  <2>4. \A g \in DOMAIN flights : flights'[g].phase # "forwarded"
    BY <1>2, <1>3, <1>10 DEF IInv, Flown
  <2> QED BY <1>9, <1>10, <2>3, <2>4 DEF Bounded
<1> QED BY <1>10, <1>13, <1>14 DEF IInv

-----------------------------------------------------------------------------
(* The invariant *)

LEMMA InitIInv ==
  ASSUME Init
  PROVE  IInv
<1>1. /\ workflow \in DOMAIN Workflows /\ agent.step = 1
      /\ flights = <<Flight(1)>> /\ session = NoSession
  BY DEF Init
<1>2. Flight(1) = [step |-> 1, phase |-> "sent", ran |-> FALSE, verdict |-> "none"]
  BY DEF Flight
<1>3. /\ DOMAIN flights = {1} /\ Awaited = 1 /\ flights[1] = Flight(1)
  BY <1>1 DEF Awaited
<1>4. Amounts(0, 0, 0) \in [Meters -> Nat] /\ \A m \in Meters : Amounts(0, 0, 0)[m] = 0
  BY DEF Amounts, Meters
<1>5. TypeOK
  <2>1. agent \in AgentType
    BY DEF Init, AgentType
  <2>2. Flight(1) \in FlightType
    BY DEF Flight, FlightType, Verdicts
  <2>3. session \in [made : Nat, spent : [Meters -> Nat], limits : [Meters -> Nat]]
    BY <1>1, <1>4 DEF NoSession
  <2>4. 1 \in 1..Len(Steps)
    BY <1>1, StepsOf
  <2> QED BY <1>1, <1>2, <1>3, <2>1, <2>2, <2>3, <2>4 DEF TypeOK
<1>6. Flown
  BY <1>2, <1>3 DEF Flown
<1>7. MetersTrue
  <2>1. Admitted = {}
    BY <1>2, <1>3 DEF Admitted
  <2>2. Cardinality({}) = 0
    BY FS_EmptySet
  <2>3. ASSUME NEW m \in Meters PROVE SumFunction([g \in Admitted |-> Cost(g)[m]]) = 0
    <3>1. PICK c : c = [g \in Admitted |-> Cost(g)[m]]
      OBVIOUS
    <3>2. DOMAIN c = {}
      BY <2>1, <3>1
    <3> QED BY <3>1, <3>2, SumEmpty DEF SumFunction
  <2> QED BY <1>1, <1>4, <2>1, <2>2, <2>3 DEF MetersTrue, NoSession
<1>8. Bounded
  BY <1>1, <1>4 DEF Bounded, NoSession, Disbursed, Meters, RefundCap
<1> QED BY <1>5, <1>6, <1>7, <1>8 DEF IInv

LEMMA NextIInv ==
  ASSUME IInv, [Next]_vars
  PROVE  IInv'
<1>1. CASE RunWorkflow \/ LosesTouch
  BY <1>1, AgentSteps
<1>2. ASSUME NEW f \in DOMAIN flights, Dispatch(f)
      PROVE  IInv'
  BY <1>2, OpenStep, AmendFlight, RefuseFlight, ForwardFlight, ReturnFlight DEF Dispatch
<1>3. ASSUME NEW f \in DOMAIN flights, Drop(f)
      PROVE  IInv'
  BY <1>3, DropFlight
<1>4. ASSUME NEW f \in DOMAIN flights, Execute(f)
      PROVE  IInv'
  BY <1>4, ExecuteFlight
<1>5. CASE UNCHANGED vars
  <2>1. agent' \in AgentType /\ agent'.step = agent.step
    BY <1>5 DEF vars, IInv, TypeOK
  <2> QED BY <1>5, <2>1, AgentAlone DEF vars
<1> QED BY <1>1, <1>2, <1>3, <1>4, <1>5 DEF Next

\* The refunds that count: those that reported are on the meter, and only one has yet to
\* report.
LEMMA MoneyOfIInv ==
  ASSUME IInv
  PROVE  MoneyBounded
<1> DEFINE Ran == {f \in Admitted : flights[f].ran /\ flights[f].phase # "dropped"}
           Billed == {f \in Ran : flights[f].phase = "answered"}
<1>1. Disbursed \in Meters
  BY DEF Disbursed, Meters
<1>2. PICK A : A = Admitted /\ IsFiniteSet(A)
  BY Charged DEF IInv
<1>3. PICK c : c = [f \in A |-> Cost(f)[Disbursed]]
  OBVIOUS
<1>4. PICK R : R = Ran
  OBVIOUS
<1>5. PICK B : B = Billed
  OBVIOUS
<1>6. R \subseteq A /\ B \subseteq R /\ IsFiniteSet(R) /\ IsFiniteSet(B)
  BY <1>2, <1>4, <1>5, FS_Subset
<1>7. PICK a : a = [f \in R |-> CallOf(f).amount]
  OBVIOUS
<1>8. /\ \A f \in A : c[f] \in Nat
      /\ \A f \in R : a[f] \in Nat /\ a[f] <= RefundCap
      /\ \A f \in B : a[f] = c[f]
  <2>1. \A f \in A : c[f] \in Nat
    BY <1>1, <1>2, <1>3, Charged DEF IInv
  <2>2. ASSUME NEW f \in R PROVE CallOf(f) \in CallStep /\ Permitted(CallOf(f))
    BY <1>2, <1>4, <1>6, Charged DEF IInv, Flown
  <2>3. ASSUME NEW f \in R PROVE a[f] \in Nat /\ a[f] <= RefundCap
    BY <1>7, <2>2, CostsOf
  <2>4. ASSUME NEW f \in B PROVE a[f] = c[f]
    BY <1>3, <1>5, <1>6, <1>7, <2>2, CostsOf DEF Cost
  <2> QED BY <2>1, <2>3, <2>4
<1>9. SumFunctionOnSet(c, A) = session.spent[Disbursed]
  BY <1>1, <1>2, <1>3 DEF IInv, MetersTrue, SumFunction
<1>10. SumFunctionOnSet(a, B) <= session.spent[Disbursed] /\ SumFunctionOnSet(a, B) \in Nat
  <2>1. SumFunctionOnSet(a, B) = SumFunctionOnSet(c, B)
    BY <1>6, <1>8, SumSame
  <2>2. SumFunctionOnSet(c, B) <= SumFunctionOnSet(c, A)
    BY <1>2, <1>6, <1>8, SumPart
  <2>3. SumFunctionOnSet(a, B) \in Nat
    BY <1>6, <1>8, SumNat
  <2> QED BY <1>9, <2>1, <2>2, <2>3
<1>11. session.spent[Disbursed] \in Nat /\ session.limits[Disbursed] \in Nat
  BY <1>1 DEF IInv, TypeOK
<1>12. SumFunctionOnSet(a, R) <= session.limits[Disbursed] + RefundCap
  <2>1. CASE R = B
    BY <1>10, <1>11, <2>1 DEF IInv, Bounded, RefundCap
  <2>2. CASE R # B
    <3>1. PICK g \in R : g \notin B
      BY <1>6, <2>2
    <3>2. /\ g \in DOMAIN flights /\ flights[g].phase = "forwarded"
          /\ \A f \in R : flights[f].phase \in {"answered", "forwarded"} /\ f \in DOMAIN flights
      <4>1. \A f \in R : /\ f \in DOMAIN flights /\ flights[f] \in FlightType
                         /\ flights[f].phase \notin {"sent", "dropped"}
        BY <1>4, FlightTyped DEF Admitted
      <4>2. \A f \in R : flights[f].phase \in {"answered", "forwarded"}
        BY <4>1 DEF FlightType
      <4> QED BY <1>4, <1>5, <3>1, <4>1, <4>2
    <3>3. R = B \cup {g}
      <4>1. \A f \in R : f \in B \/ f = g
        BY <1>4, <1>5, <3>2 DEF IInv, Flown
      <4> QED BY <1>6, <3>1, <4>1
    <3>4. SumFunctionOnSet(a, R) = a[g] + SumFunctionOnSet(a, B)
      <4>1. \A f \in B \cup {g} : a[f] \in Int
        BY <1>8, <3>3
      <4> QED BY <1>6, <3>1, <3>3, <4>1, SumAdd
    <3>5. session.spent[Disbursed] <= session.limits[Disbursed]
      BY <3>2 DEF IInv, Bounded
    <3>6. a[g] \in Nat /\ a[g] <= RefundCap
      BY <1>8, <3>1
    <3> QED BY <1>10, <1>11, <3>4, <3>5, <3>6 DEF RefundCap
  <2> QED BY <2>1, <2>2
<1>13. Moved(Ran) = SumFunctionOnSet(a, R)
  BY <1>4, <1>7 DEF Moved, SumFunction
<1> QED BY <1>12, <1>13 DEF MoneyBounded, Disbursed

-----------------------------------------------------------------------------
(* What the workflows show *)

\* What the disbursed meter has, and is limited to, after each step of a workflow that
\* nothing disturbs.
SpentAfter ==
  [happy_support |-> <<0, 0, 25, 25>>, drift_delete |-> <<0, 0>>,
   policy_deny_then_amend |-> <<0, 0, 0, 150>>,
   cumulative_disbursement |-> <<0, 120, 240, 360, 360>>]
LimitAfter ==
  [happy_support |-> <<400, 400, 400, 400>>, drift_delete |-> <<400, 400>>,
   policy_deny_then_amend |-> <<400, 400, 600, 600>>,
   cumulative_disbursement |-> <<250, 250, 250, 250, 250>>]

\* The steps that have been answered, those that have been begun, the verdicts told.
StepsDone == IF flights[Awaited].phase = "answered" THEN agent.step ELSE agent.step - 1
StepsBegun == IF flights[Awaited].phase = "sent" THEN agent.step - 1 ELSE agent.step
StepsTold == IF agent.state = "done" THEN agent.step ELSE agent.step - 1

\* If nothing fails each step has one attempt, and its own verdict; the other meters stay
\* far from their limits.
OnCourse ==
  faults = 0 =>
    /\ agent.state \in {"waiting", "done"} /\ Len(flights) = agent.step
    /\ agent.state = "done" => agent.step = Len(Steps)
    /\ \A f \in 1..(agent.step - 1) : flights[f].phase = "answered"
    /\ flights[Awaited].phase # "dropped"
    /\ flights[Awaited].phase = "forwarded" => Expected[workflow][agent.step] = "served"
    /\ flights[Awaited].phase = "answered" =>
         flights[Awaited].verdict = Expected[workflow][agent.step]
    /\ Len(agent.told) = StepsTold
    /\ \A i \in 1..StepsTold : agent.told[i] = Expected[workflow][i]
    /\ StepsDone > 0 =>
         /\ session.spent[Disbursed] = SpentAfter[workflow][StepsDone]
         /\ session.limits[Disbursed] = LimitAfter[workflow][StepsDone]
         /\ session.limits["usd_opcost"] = 100 /\ session.limits["tokens"] = 20000
    /\ session.made <= StepsBegun /\ session.spent["usd_opcost"] <= StepsBegun
    /\ session.spent["tokens"] <= 200 * StepsBegun

\* The workflows as their comments tell them: a call is served if scope and policy have it
\* and the disbursed meter is not past its limit.
LEMMA Script ==
  ASSUME workflow \in DOMAIN Workflows
  PROVE  /\ Len(Steps) \in 2..5
         /\ Expected[workflow] \in Seq({"served", "denied"}) /\ Len(Expected[workflow]) = Len(Steps)
         /\ Expected[workflow][1] = "served" /\ SpentAfter[workflow][1] = 0
         /\ LimitAfter[workflow][1] = Commitment.limits[Disbursed]
         /\ Commitment.limits["usd_opcost"] = 100 /\ Commitment.limits["tokens"] = 20000
         /\ Commitment.max_calls = 25
         /\ \A i \in 1..Len(Steps) :
              SpentAfter[workflow][i] \in Nat /\ LimitAfter[workflow][i] \in Nat
         /\ \A i \in 2..Len(Steps) : Steps[i].op = "amend" =>
              /\ Expected[workflow][i] = "served"
              /\ SpentAfter[workflow][i] = SpentAfter[workflow][i - 1]
              /\ LimitAfter[workflow][i] = LimitAfter[workflow][i - 1] + Steps[i].amount
         /\ \A i \in 2..Len(Steps) : Steps[i].op = "call" =>
              /\ Expected[workflow][i] =
                   IF /\ InScope(Steps[i]) /\ Permitted(Steps[i])
                      /\ SpentAfter[workflow][i - 1] <= LimitAfter[workflow][i - 1]
                   THEN "served" ELSE "denied"
              /\ SpentAfter[workflow][i] = SpentAfter[workflow][i - 1]
                   + IF Expected[workflow][i] = "served" THEN Steps[i].amount ELSE 0
              /\ LimitAfter[workflow][i] = LimitAfter[workflow][i - 1]
<1>1. DOMAIN Workflows = {"happy_support", "drift_delete", "policy_deny_then_amend",
                          "cumulative_disbursement"}
  BY DEF Workflows
<1>2. /\ \A tool : Call(tool) = [op |-> "call", tool |-> tool, amount |-> 0]
      /\ \A amount :
           /\ Refund(amount) = [op |-> "call", tool |-> "payments.refund", amount |-> amount]
           /\ AddDisbursed(amount) = [op |-> "amend", amount |-> amount]
  BY DEF Call, Refund, AddDisbursed
<1>3. \A call : /\ call.tool \in {"crm.read", "payments.refund", "tickets.update"} => InScope(call)
                /\ call.tool = "admin.delete_user" => ~InScope(call)
                /\ Permitted(call) <=> (call.tool = "payments.refund" => call.amount <= 200)
  BY DEF InScope, Permitted, ToolsAllow, ToolsDeny, RefundCap
<1>4. \A d \in Nat : /\ SupportCommitment(d).limits[Disbursed] = d
                     /\ SupportCommitment(d).limits["usd_opcost"] = 100
                     /\ SupportCommitment(d).limits["tokens"] = 20000
                     /\ SupportCommitment(d).max_calls = 25
  BY DEF SupportCommitment, Amounts, Meters, Disbursed
<1>5. CASE workflow = "happy_support"
  <2>1. Workflows[workflow].steps = <<Call("crm.read"), Refund(25), Call("tickets.update")>>
    BY <1>5 DEF Workflows
  <2>2. /\ Expected[workflow] = <<"served", "served", "served", "served">>
        /\ SpentAfter[workflow] = <<0, 0, 25, 25>> /\ LimitAfter[workflow] = <<400, 400, 400, 400>>
    BY <1>5 DEF Expected, SpentAfter, LimitAfter
  <2>3. Commitment = SupportCommitment(400)
    BY <1>5 DEF Commitment, Workflows
  <2>4. /\ 1..Len(Steps) = {1, 2, 3, 4} /\ 2..Len(Steps) = {2, 3, 4} /\ Len(Steps) = 4
        /\ Steps[2] = Call("crm.read") /\ Steps[3] = Refund(25) /\ Steps[4] = Call("tickets.update")
    BY <2>1 DEF Steps
  <2> QED BY <1>2, <1>3, <1>4, <2>2, <2>3, <2>4
<1>6. CASE workflow = "drift_delete"
  <2>1. Workflows[workflow].steps = <<Call("admin.delete_user")>>
    BY <1>6 DEF Workflows
  <2>2. /\ Expected[workflow] = <<"served", "denied">>
        /\ SpentAfter[workflow] = <<0, 0>> /\ LimitAfter[workflow] = <<400, 400>>
    BY <1>6 DEF Expected, SpentAfter, LimitAfter
  <2>3. Commitment = SupportCommitment(400)
    BY <1>6 DEF Commitment, Workflows
  <2>4. /\ 1..Len(Steps) = {1, 2} /\ 2..Len(Steps) = {2} /\ Len(Steps) = 2
        /\ Steps[2] = Call("admin.delete_user")
    BY <2>1 DEF Steps
  <2> QED BY <1>2, <1>3, <1>4, <2>2, <2>3, <2>4
<1>7. CASE workflow = "policy_deny_then_amend"
  <2>1. Workflows[workflow].steps = <<Refund(300), AddDisbursed(200), Refund(150)>>
    BY <1>7 DEF Workflows
  <2>2. /\ Expected[workflow] = <<"served", "denied", "served", "served">>
        /\ SpentAfter[workflow] = <<0, 0, 0, 150>> /\ LimitAfter[workflow] = <<400, 400, 600, 600>>
    BY <1>7 DEF Expected, SpentAfter, LimitAfter
  <2>3. Commitment = SupportCommitment(400)
    BY <1>7 DEF Commitment, Workflows
  <2>4. /\ 1..Len(Steps) = {1, 2, 3, 4} /\ 2..Len(Steps) = {2, 3, 4} /\ Len(Steps) = 4
        /\ Steps[2] = Refund(300) /\ Steps[3] = AddDisbursed(200) /\ Steps[4] = Refund(150)
    BY <2>1 DEF Steps
  <2> QED BY <1>2, <1>3, <1>4, <2>2, <2>3, <2>4
<1>8. CASE workflow = "cumulative_disbursement"
  <2>1. Workflows[workflow].steps = <<Refund(120), Refund(120), Refund(120), Refund(120)>>
    <3>1. Workflows[workflow].steps = [i \in 1..4 |-> Refund(120)]
      BY <1>8 DEF Workflows
    <3>2. [i \in 1..4 |-> Refund(120)] = <<Refund(120), Refund(120), Refund(120), Refund(120)>>
      OBVIOUS
    <3> QED BY <3>1, <3>2
  <2>2. /\ Expected[workflow] = <<"served", "served", "served", "served", "denied">>
        /\ SpentAfter[workflow] = <<0, 120, 240, 360, 360>>
        /\ LimitAfter[workflow] = <<250, 250, 250, 250, 250>>
    BY <1>8 DEF Expected, SpentAfter, LimitAfter
  <2>3. Commitment = SupportCommitment(250)
    BY <1>8 DEF Commitment, Workflows
  <2>4. /\ 1..Len(Steps) = {1, 2, 3, 4, 5} /\ 2..Len(Steps) = {2, 3, 4, 5} /\ Len(Steps) = 5
        /\ Steps[2] = Refund(120) /\ Steps[3] = Refund(120) /\ Steps[4] = Refund(120)
           /\ Steps[5] = Refund(120)
    BY <2>1 DEF Steps
  <2> QED BY <1>2, <1>3, <1>4, <2>2, <2>3, <2>4
<1> QED BY <1>1, <1>5, <1>6, <1>7, <1>8

LEMMA ScriptAmends ==
  ASSUME workflow \in DOMAIN Workflows, NEW i \in 2..Len(Steps), Steps[i].op = "amend"
  PROVE  /\ Expected[workflow][i] = "served"
         /\ SpentAfter[workflow][i] = SpentAfter[workflow][i - 1]
         /\ LimitAfter[workflow][i] = LimitAfter[workflow][i - 1] + Steps[i].amount
BY Script

LEMMA ScriptCalls ==
  ASSUME workflow \in DOMAIN Workflows, NEW i \in 2..Len(Steps), Steps[i].op = "call"
  PROVE  /\ Expected[workflow][i] =
              IF /\ InScope(Steps[i]) /\ Permitted(Steps[i])
                 /\ SpentAfter[workflow][i - 1] <= LimitAfter[workflow][i - 1]
              THEN "served" ELSE "denied"
         /\ SpentAfter[workflow][i] = SpentAfter[workflow][i - 1]
              + IF Expected[workflow][i] = "served" THEN Steps[i].amount ELSE 0
         /\ LimitAfter[workflow][i] = LimitAfter[workflow][i - 1]
BY Script

\* What a call of the workflows costs on the other meters, estimated and reported.
LEMMA SmallCosts ==
  ASSUME NEW call \in CallStep
  PROVE  /\ Estimate(call)["usd_opcost"] \in 0..1 /\ Estimate(call)["tokens"] \in 0..200
         /\ Report(call)["usd_opcost"] = Estimate(call)["usd_opcost"]
         /\ Report(call)["tokens"] = Estimate(call)["tokens"]
<1>1. call.tool \in {"crm.read", "payments.refund", "tickets.update", "tickets.escalate",
                     "admin.delete_user"}
  BY DEF CallStep, ToolsAllow, ToolsDeny
<1>2. \A usd, tokens, disbursed : /\ Amounts(usd, tokens, disbursed)["usd_opcost"] = usd
                                  /\ Amounts(usd, tokens, disbursed)["tokens"] = tokens
  BY DEF Amounts, Meters
<1>3. \E usd \in 0..1, tokens \in 0..200 : Estimate(call) = Amounts(usd, tokens, 0)
  BY <1>1 DEF Estimate
<1>4. call.tool = "payments.refund" => Estimate(call) = Amounts(1, 50, 0)
  BY DEF Estimate
<1>5. Report(call) = IF call.tool = "payments.refund" THEN Amounts(1, 50, call.amount)
                     ELSE Estimate(call)
  BY DEF Report
<1> QED BY <1>2, <1>3, <1>4, <1>5

\* Only the last attempt is still to be answered, and its step has not been counted.
LEMMA Pending ==
  ASSUME IInv, OnCourse, faults = 0, NEW f \in DOMAIN flights, flights[f].phase # "answered"
  PROVE  /\ f = Awaited /\ Awaited = agent.step /\ flights[f].step = agent.step
         /\ CallOf(f) = Steps[agent.step] /\ agent.step \in 1..Len(Steps)
         /\ StepsDone = agent.step - 1
<1>1. Len(flights) \in Nat /\ DOMAIN flights = 1..Len(flights) /\ agent.step \in 1..Len(Steps)
  BY DEF IInv, TypeOK
<1>2. Len(flights) = agent.step /\ \A g \in 1..(agent.step - 1) : flights[g].phase = "answered"
  BY DEF OnCourse
<1>3. f = Awaited
  BY <1>1, <1>2 DEF Awaited
<1> QED BY <1>1, <1>2, <1>3 DEF Awaited, CallOf, StepsDone, IInv, TypeOK

\* Its verdict is that of its step.
LEMMA GoesOn ==
  ASSUME IInv, OnCourse, faults = 0, faults' = 0, NEW f \in DOMAIN flights,
         flights[f].phase # "answered", Len(flights') = Len(flights),
         \A g \in DOMAIN flights : g # f => flights'[g] = flights[g],
         workflow' = workflow, agent' = agent, flights'[f].phase \notin {"sent", "dropped"},
         flights'[f].phase = "answered" =>
           /\ flights'[f].verdict = Expected[workflow][agent.step]
           /\ session'.spent[Disbursed] = SpentAfter[workflow][agent.step]
           /\ session'.limits[Disbursed] = LimitAfter[workflow][agent.step],
         flights'[f].phase = "forwarded" => Expected[workflow][agent.step] = "served",
         flights'[f].phase # "answered" =>
           /\ session'.spent[Disbursed] = session.spent[Disbursed]
           /\ session'.limits = session.limits,
         agent.step > 1 \/ flights'[f].phase = "answered" =>
           session'.limits["usd_opcost"] = 100 /\ session'.limits["tokens"] = 20000,
         session'.made <= agent.step, session'.spent["usd_opcost"] <= agent.step,
         session'.spent["tokens"] <= 200 * agent.step
  PROVE  OnCourse'
<1>1. /\ f = Awaited /\ Awaited = agent.step /\ StepsDone = agent.step - 1
      /\ agent.step \in 1..Len(Steps) /\ Len(Steps) \in Nat
  BY Pending, StepsOf DEF IInv, TypeOK
<1>2. /\ Awaited' = Awaited /\ DOMAIN flights = 1..agent.step
  BY <1>1 DEF Awaited, IInv, TypeOK
<1>3. Steps' = Steps /\ StepsTold' = StepsTold
  BY DEF Steps, StepsTold
<1>4. /\ StepsBegun' = agent.step
      /\ StepsDone' = IF flights'[f].phase = "answered" THEN agent.step ELSE agent.step - 1
  BY <1>1, <1>2 DEF StepsBegun, StepsDone
<1>5. /\ agent.state \in {"waiting", "done"} /\ Len(flights) = agent.step
      /\ agent.state = "done" => agent.step = Len(Steps)
      /\ \A g \in 1..(agent.step - 1) : flights[g].phase = "answered"
      /\ Len(agent.told) = StepsTold
      /\ \A i \in 1..StepsTold : agent.told[i] = Expected[workflow][i]
      /\ agent.step > 1 => /\ session.spent[Disbursed] = SpentAfter[workflow][agent.step - 1]
                           /\ session.limits[Disbursed] = LimitAfter[workflow][agent.step - 1]
  BY <1>1 DEF OnCourse
<1>6. Expected' = Expected
  BY DEF Expected
<1>7. \A g \in 1..(agent.step - 1) : flights'[g].phase = "answered"
  <2>1. agent.step \in Nat
    BY <1>1
  <2>2. \A g \in 1..(agent.step - 1) : g \in DOMAIN flights /\ g # f
    BY <1>1, <1>2, <2>1
  <2> QED BY <1>5, <2>2
<1>8. StepsDone' > 0 =>
        /\ session'.spent[Disbursed] = SpentAfter[workflow][StepsDone']
        /\ session'.limits[Disbursed] = LimitAfter[workflow][StepsDone']
        /\ session'.limits["usd_opcost"] = 100 /\ session'.limits["tokens"] = 20000
  <2>1. CASE flights'[f].phase = "answered"
    BY <1>4, <2>1
  <2>2. CASE flights'[f].phase # "answered"
    BY <1>1, <1>4, <1>5, <2>2
  <2> QED BY <2>1, <2>2
<1> QED BY <1>1, <1>2, <1>3, <1>4, <1>5, <1>6, <1>7, <1>8 DEF OnCourse

\* The commitment is opened as the workflow has it.
LEMMA OpenCourse ==
  ASSUME IInv, OnCourse, faults = 0, faults' = 0, NEW f \in DOMAIN flights, Open(f)
  PROVE  OnCourse'
<1>1. PICK x : x = [flights[f] EXCEPT !.phase = "answered", !.verdict = "served"]
  OBVIOUS
<1>2. /\ flights[f].phase = "sent" /\ x.phase = "answered" /\ x.verdict = "served"
      /\ x \in FlightType
  BY <1>1, FlightTyped DEF Open, Arrives, FlightType, Verdicts
<1>3. /\ workflow' = workflow /\ agent' = agent /\ flights'[f] = x /\ Len(flights') = Len(flights)
      /\ \A g \in DOMAIN flights : g # f => flights'[g] = flights[g]
  <2>1. flights' = [flights EXCEPT ![f] = x] /\ UNCHANGED <<workflow, agent>>
    BY <1>1 DEF Open, Answer, IInv, TypeOK
  <2> QED BY <2>1 DEF IInv, TypeOK
<1>4. f = Awaited /\ agent.step = 1
  <2>1. f = Awaited /\ flights[f].step = agent.step
    BY <1>2, Pending
  <2>2. flights[f].step = 1
    BY CallsOf DEF Open, Arrives, CallOf, IInv
  <2> QED BY <2>1, <2>2
<1>5. /\ session'.made = 0 /\ session'.spent = Amounts(0, 0, 0)
      /\ session'.limits = Commitment.limits
  BY <1>4 DEF Open, Opened, NoSession
<1>6. \A m \in Meters : Amounts(0, 0, 0)[m] = 0
  BY DEF Amounts, Meters
<1>7. {"usd_opcost", "tokens", Disbursed} \subseteq Meters
  BY DEF Meters, Disbursed
<1>8. session'.spent[Disbursed] = 0 /\ session'.spent["usd_opcost"] = 0
      /\ session'.spent["tokens"] = 0
  BY <1>5, <1>6, <1>7
<1>9. /\ Expected[workflow][1] = "served" /\ SpentAfter[workflow][1] = 0
      /\ LimitAfter[workflow][1] = Commitment.limits[Disbursed]
      /\ Commitment.limits["usd_opcost"] = 100 /\ Commitment.limits["tokens"] = 20000
  BY Script DEF IInv, TypeOK
<1>10. /\ session'.made <= agent.step /\ session'.spent["usd_opcost"] <= agent.step
       /\ session'.spent["tokens"] <= 200 * agent.step
  BY <1>4, <1>5, <1>8
<1>11. /\ x.verdict = Expected[workflow][agent.step]
       /\ session'.spent[Disbursed] = SpentAfter[workflow][agent.step]
       /\ session'.limits[Disbursed] = LimitAfter[workflow][agent.step]
       /\ session'.limits["usd_opcost"] = 100 /\ session'.limits["tokens"] = 20000
  BY <1>2, <1>4, <1>5, <1>8, <1>9
<1>12. flights[f].phase # "answered" /\ x.phase \notin {"sent", "dropped"}
  BY <1>2
<1> QED BY <1>2, <1>3, <1>10, <1>11, <1>12, GoesOn

\* What the counters of the session are before a step that waits.
LEMMA Before ==
  ASSUME IInv, OnCourse, faults = 0, NEW f \in DOMAIN flights, flights[f].phase # "answered",
         agent.step > 1
  PROVE  /\ session.spent[Disbursed] = SpentAfter[workflow][agent.step - 1]
         /\ session.limits[Disbursed] = LimitAfter[workflow][agent.step - 1]
         /\ session.limits["usd_opcost"] = 100 /\ session.limits["tokens"] = 20000
         /\ session.made \in Nat /\ \A m \in Meters : session.spent[m] \in Nat
         /\ {"usd_opcost", "tokens", Disbursed} = Meters
         /\ agent.step \in 2..Len(Steps) /\ Len(Steps) \in 2..5
         /\ session.made <= agent.step /\ session.spent["usd_opcost"] <= agent.step
         /\ session.spent["tokens"] <= 200 * agent.step
         /\ flights[f].phase = "sent" =>
              /\ session.made <= agent.step - 1 /\ session.spent["usd_opcost"] <= agent.step - 1
              /\ session.spent["tokens"] <= 200 * (agent.step - 1)
<1>1. /\ f = Awaited /\ StepsDone = agent.step - 1 /\ agent.step \in 1..Len(Steps)
  BY Pending
<1>2. StepsBegun = IF flights[f].phase = "sent" THEN agent.step - 1 ELSE agent.step
  BY <1>1 DEF StepsBegun
<1>3. session.made \in Nat /\ \A m \in Meters : session.spent[m] \in Nat
  BY DEF IInv, TypeOK
<1>4. Len(Steps) \in 2..5
  BY Script DEF IInv, TypeOK
<1>5. {"usd_opcost", "tokens", Disbursed} = Meters
  BY DEF Meters, Disbursed
<1>6. /\ StepsDone > 0 =>
           /\ session.spent[Disbursed] = SpentAfter[workflow][StepsDone]
           /\ session.limits[Disbursed] = LimitAfter[workflow][StepsDone]
           /\ session.limits["usd_opcost"] = 100 /\ session.limits["tokens"] = 20000
      /\ session.made <= StepsBegun /\ session.spent["usd_opcost"] <= StepsBegun
      /\ session.spent["tokens"] <= 200 * StepsBegun
  BY DEF OnCourse
<1>7. PICK step \in 2..5 : step = agent.step
  <2>1. PICK n \in 2..5 : n = Len(Steps)
    BY <1>4
  <2>2. agent.step \in 1..n
    BY <1>1, <2>1
  <2> QED BY <2>2
<1>8. /\ session.made <= step /\ session.spent["usd_opcost"] <= step
      /\ session.spent["tokens"] <= 200 * step
      /\ flights[f].phase = "sent" =>
           /\ session.made <= step - 1 /\ session.spent["usd_opcost"] <= step - 1
           /\ session.spent["tokens"] <= 200 * (step - 1)
  <2>1. session.spent["usd_opcost"] \in Nat /\ session.spent["tokens"] \in Nat
    BY <1>3, <1>5
  <2> QED BY <1>2, <1>3, <1>6, <1>7, <2>1
<1> QED BY <1>1, <1>3, <1>4, <1>5, <1>6, <1>7, <1>8

\* The amendment comes as it is expected.
LEMMA AmendCourse ==
  ASSUME IInv, OnCourse, faults = 0, faults' = 0, NEW f \in DOMAIN flights, Amend(f)
  PROVE  OnCourse'
<1>1. PICK x : x = [flights[f] EXCEPT !.phase = "answered", !.verdict = "served"]
  OBVIOUS
<1>2. /\ flights[f].phase = "sent" /\ x.phase = "answered" /\ x.verdict = "served"
      /\ x \in FlightType
  BY <1>1, FlightTyped DEF Amend, Arrives, FlightType, Verdicts
<1>3. /\ workflow' = workflow /\ agent' = agent /\ flights'[f] = x /\ Len(flights') = Len(flights)
      /\ \A g \in DOMAIN flights : g # f => flights'[g] = flights[g]
  <2>1. flights' = [flights EXCEPT ![f] = x] /\ UNCHANGED <<workflow, agent>>
    BY <1>1 DEF Amend, Answer, IInv, TypeOK
  <2> QED BY <2>1 DEF IInv, TypeOK
<1>4. /\ CallOf(f) = Steps[agent.step] /\ agent.step > 1 /\ Steps[agent.step].op = "amend"
  <2>1. CallOf(f) = Steps[agent.step] /\ flights[f].step = agent.step
        /\ agent.step \in 1..Len(Steps)
    BY <1>2, Pending
  <2>2. CallOf(f).op = "amend"
    BY DEF Amend, Arrives, CallOf
  <2>3. flights[f].step # 1
    BY <2>2, CallsOf DEF IInv
  <2> QED BY <2>1, <2>2, <2>3
<1>5. PICK amount \in Nat : amount = CallOf(f).amount
  <2>1. CallOf(f) \in AmendStep
    BY <1>4, CallsOf DEF IInv
  <2> QED BY <2>1 DEF AmendStep
<1>6. \A m \in Meters : Amounts(0, 0, amount)[m] = IF m = Disbursed THEN amount ELSE 0
  BY DEF Amounts, Meters, Disbursed
<1>7. /\ session'.made = session.made /\ session'.spent = session.spent
      /\ session'.limits = Plus(session.limits, Amounts(0, 0, amount))
  <2>1. session' = [session EXCEPT !.limits = Plus(@, Amounts(0, 0, amount))]
    BY <1>5 DEF Amend, CallOf
  <2> QED BY <2>1 DEF IInv, TypeOK
<1>8. \A m \in Meters : /\ session.limits[m] \in Nat
                        /\ session'.limits[m] =
                             session.limits[m] + IF m = Disbursed THEN amount ELSE 0
  BY <1>6, <1>7 DEF Plus, IInv, TypeOK
<1>9. "usd_opcost" # Disbursed /\ "tokens" # Disbursed
  BY DEF Disbursed
<1>10. /\ session'.limits[Disbursed] = session.limits[Disbursed] + amount
       /\ session'.limits["usd_opcost"] = 100 /\ session'.limits["tokens"] = 20000
  <2>1. {"usd_opcost", "tokens", Disbursed} = Meters
    BY DEF Meters, Disbursed
  <2>2. session.limits["usd_opcost"] = 100 /\ session.limits["tokens"] = 20000
    BY <1>2, <1>4, Before
  <2>3. \A m \in Meters : m # Disbursed => session'.limits[m] = session.limits[m]
    BY <1>8
  <2>4. session'.limits[Disbursed] = session.limits[Disbursed] + amount
    BY <1>8, <2>1
  <2> QED BY <1>9, <2>1, <2>2, <2>3, <2>4
<1>11. /\ Expected[workflow][agent.step] = "served"
       /\ SpentAfter[workflow][agent.step] = SpentAfter[workflow][agent.step - 1]
       /\ LimitAfter[workflow][agent.step] = LimitAfter[workflow][agent.step - 1] + amount
  <2>1. agent.step \in 2..Len(Steps)
    BY <1>2, <1>4, Before
  <2>2. Steps[agent.step].amount = amount
    BY <1>4, <1>5
  <2> QED BY <1>4, <2>1, <2>2, ScriptAmends DEF IInv, TypeOK
<1>12. /\ session.spent[Disbursed] = SpentAfter[workflow][agent.step - 1]
       /\ session.limits[Disbursed] = LimitAfter[workflow][agent.step - 1]
       /\ session.made <= agent.step /\ session.spent["usd_opcost"] <= agent.step
       /\ session.spent["tokens"] <= 200 * agent.step
  BY <1>2, <1>4, Before
<1>13. /\ session'.made <= agent.step /\ session'.spent["usd_opcost"] <= agent.step
       /\ session'.spent["tokens"] <= 200 * agent.step
  BY <1>7, <1>12
<1>14. /\ x.verdict = Expected[workflow][agent.step]
       /\ session'.spent[Disbursed] = SpentAfter[workflow][agent.step]
       /\ session'.limits[Disbursed] = LimitAfter[workflow][agent.step]
  BY <1>2, <1>7, <1>10, <1>11, <1>12
<1>15. flights[f].phase # "answered" /\ x.phase \notin {"sent", "dropped"}
  BY <1>2
<1> QED BY <1>2, <1>3, <1>10, <1>13, <1>14, <1>15, GoesOn

\* A call meets the budget if the disbursed meter is within its limit.
LEMMA BudgetOf ==
  ASSUME IInv, OnCourse, faults = 0, NEW f \in DOMAIN flights, flights[f].phase = "sent",
         CallOf(f).op = "call"
  PROVE  /\ agent.step > 1 /\ Steps[agent.step] = CallOf(f) /\ CallOf(f) \in CallStep
         /\ WithinBudget(CallOf(f)) <=>
              SpentAfter[workflow][agent.step - 1] <= LimitAfter[workflow][agent.step - 1]
         /\ Expected[workflow][agent.step] =
              IF InScope(CallOf(f)) /\ Permitted(CallOf(f)) /\ WithinBudget(CallOf(f))
              THEN "served" ELSE "denied"
         /\ SpentAfter[workflow][agent.step] = SpentAfter[workflow][agent.step - 1]
              + IF Expected[workflow][agent.step] = "served" THEN CallOf(f).amount ELSE 0
         /\ LimitAfter[workflow][agent.step] = LimitAfter[workflow][agent.step - 1]
<1>1. /\ agent.step > 1 /\ Steps[agent.step] = CallOf(f) /\ CallOf(f) \in CallStep
  <2>1. CallOf(f) = Steps[agent.step] /\ flights[f].step = agent.step
        /\ agent.step \in 1..Len(Steps)
    BY Pending
  <2>2. flights[f].step # 1 /\ CallOf(f) \in CallStep
    BY CallsOf DEF IInv
  <2> QED BY <2>1, <2>2
<1>2. PICK e \in [Meters -> Nat] : /\ e = Estimate(CallOf(f)) /\ e[Disbursed] = 0
                                   /\ e["usd_opcost"] \in 0..1 /\ e["tokens"] \in 0..200
  BY <1>1, CostsOf, SmallCosts
<1>3. PICK step \in 2..5 : step = agent.step
  <2>1. agent.step \in 2..Len(Steps) /\ Len(Steps) \in 2..5
    BY <1>1, Before
  <2>2. PICK n \in 2..5 : n = Len(Steps)
    BY <2>1
  <2>3. agent.step \in 2..n
    BY <2>1, <2>2
  <2> QED BY <2>3
<1>4. /\ session.made <= step - 1 /\ session.spent["usd_opcost"] <= step - 1
      /\ session.spent["tokens"] <= 200 * (step - 1)
      /\ session.limits["usd_opcost"] = 100 /\ session.limits["tokens"] = 20000
      /\ session.made \in Nat /\ \A m \in Meters : session.spent[m] \in Nat
      /\ {"usd_opcost", "tokens", Disbursed} = Meters
      /\ session.spent[Disbursed] = SpentAfter[workflow][step - 1]
      /\ session.limits[Disbursed] = LimitAfter[workflow][step - 1]
  <2>1. flights[f].phase # "answered"
    OBVIOUS
  <2>2. /\ session.made <= agent.step - 1 /\ session.spent["usd_opcost"] <= agent.step - 1
        /\ session.spent["tokens"] <= 200 * (agent.step - 1)
    BY <1>1, Before
  <2>3. /\ session.limits["usd_opcost"] = 100 /\ session.limits["tokens"] = 20000
        /\ session.made \in Nat /\ \A m \in Meters : session.spent[m] \in Nat
        /\ {"usd_opcost", "tokens", Disbursed} = Meters
        /\ session.spent[Disbursed] = SpentAfter[workflow][agent.step - 1]
        /\ session.limits[Disbursed] = LimitAfter[workflow][agent.step - 1]
    BY <1>1, <2>1, Before
  <2> QED BY <1>3, <2>2, <2>3
<1>5. Commitment.max_calls = 25
  BY Script DEF IInv, TypeOK
<1>6. session.made + 1 <= 25
  BY <1>3, <1>4
<1>7. \A m \in Meters : Plus(session.spent, Estimate(CallOf(f)))[m] = session.spent[m] + e[m]
  BY <1>2 DEF Plus
<1>8. /\ session.spent["usd_opcost"] + e["usd_opcost"] <= session.limits["usd_opcost"]
      /\ session.spent["tokens"] + e["tokens"] <= session.limits["tokens"]
  <2>1. session.spent["usd_opcost"] \in Nat /\ session.spent["tokens"] \in Nat
    BY <1>4
  <2> QED BY <1>2, <1>3, <1>4, <2>1
<1>9. session.spent[Disbursed] + e[Disbursed] = session.spent[Disbursed]
  BY <1>2, <1>4
<1>10. WithinBudget(CallOf(f)) <=>
         SpentAfter[workflow][agent.step - 1] <= LimitAfter[workflow][agent.step - 1]
  BY <1>3, <1>4, <1>5, <1>6, <1>7, <1>8, <1>9 DEF WithinBudget
<1>11. agent.step \in 2..Len(Steps)
  BY <1>1, Before
<1>12. /\ Expected[workflow][agent.step] =
            IF /\ InScope(Steps[agent.step]) /\ Permitted(Steps[agent.step])
               /\ SpentAfter[workflow][agent.step - 1] <= LimitAfter[workflow][agent.step - 1]
            THEN "served" ELSE "denied"
       /\ SpentAfter[workflow][agent.step] = SpentAfter[workflow][agent.step - 1]
            + IF Expected[workflow][agent.step] = "served" THEN Steps[agent.step].amount ELSE 0
       /\ LimitAfter[workflow][agent.step] = LimitAfter[workflow][agent.step - 1]
  <2>1. Steps[agent.step].op = "call"
    BY <1>1
  <2> QED BY <1>11, <2>1, ScriptCalls DEF IInv, TypeOK
<1> QED BY <1>1, <1>10, <1>12

\* What is refused is what is expected to be.
LEMMA RefuseCourse ==
  ASSUME IInv, OnCourse, faults = 0, faults' = 0, NEW f \in DOMAIN flights, Refuse(f)
  PROVE  OnCourse'
<1>1. PICK x : x = [flights[f] EXCEPT !.phase = "answered", !.verdict = "denied"]
  OBVIOUS
<1>2. flights[f].phase = "sent" /\ x.phase = "answered" /\ x.verdict = "denied"
  BY <1>1, FlightTyped DEF Refuse, Arrives, FlightType, Verdicts
<1>3. /\ workflow' = workflow /\ agent' = agent /\ flights'[f] = x /\ Len(flights') = Len(flights)
      /\ \A g \in DOMAIN flights : g # f => flights'[g] = flights[g]
      /\ session' = session
  <2>1. flights' = [flights EXCEPT ![f] = x] /\ UNCHANGED <<workflow, agent, session>>
    BY <1>1 DEF Refuse, Answer, IInv, TypeOK
  <2> QED BY <2>1 DEF IInv, TypeOK
<1>4. /\ CallOf(f).op = "call"
      /\ ~(InScope(CallOf(f)) /\ Permitted(CallOf(f)) /\ WithinBudget(CallOf(f)))
  BY DEF Refuse, Arrives, CallOf
<1>5. /\ agent.step > 1
      /\ Expected[workflow][agent.step] = "denied"
      /\ SpentAfter[workflow][agent.step] = SpentAfter[workflow][agent.step - 1] + 0
      /\ LimitAfter[workflow][agent.step] = LimitAfter[workflow][agent.step - 1]
  BY <1>2, <1>4, BudgetOf
<1>6. flights[f].phase # "answered" /\ x.phase \notin {"sent", "dropped"}
  BY <1>2
<1>7. /\ session.spent[Disbursed] = SpentAfter[workflow][agent.step - 1]
      /\ session.limits[Disbursed] = LimitAfter[workflow][agent.step - 1]
      /\ session.limits["usd_opcost"] = 100 /\ session.limits["tokens"] = 20000
      /\ session.spent[Disbursed] \in Nat
  BY <1>5, <1>6, Before
<1>8. /\ session.made <= agent.step /\ session.spent["usd_opcost"] <= agent.step
      /\ session.spent["tokens"] <= 200 * agent.step
  BY <1>5, <1>6, Before
<1>9. SpentAfter[workflow][agent.step] = session.spent[Disbursed]
  BY <1>5, <1>7
<1> QED BY <1>2, <1>3, <1>5, <1>6, <1>7, <1>8, <1>9, GoesOn

\* A call is charged what the other meters can take.
LEMMA ForwardCourse ==
  ASSUME IInv, OnCourse, faults = 0, faults' = 0, NEW f \in DOMAIN flights, Forward(f)
  PROVE  OnCourse'
<1>1. PICK x : x = [flights[f] EXCEPT !.phase = "forwarded"]
  OBVIOUS
<1>2. flights[f].phase = "sent" /\ x.phase = "forwarded"
  BY <1>1, FlightTyped DEF Forward, Arrives, FlightType
<1>3. /\ workflow' = workflow /\ agent' = agent /\ flights'[f] = x /\ Len(flights') = Len(flights)
      /\ \A g \in DOMAIN flights : g # f => flights'[g] = flights[g]
  <2>1. flights' = [flights EXCEPT ![f] = x] /\ UNCHANGED <<workflow, agent>>
    BY <1>1 DEF Forward, IInv, TypeOK
  <2> QED BY <2>1 DEF IInv, TypeOK
<1>4. CallOf(f).op = "call" /\ CallOf(f) \in CallStep /\ agent.step > 1
  <2>1. CallOf(f).op = "call"
    BY DEF Forward, Arrives, CallOf
  <2> QED BY <1>2, <2>1, BudgetOf
<1>5. PICK e \in [Meters -> Nat] : /\ e = Estimate(CallOf(f)) /\ e[Disbursed] = 0
                                   /\ e["usd_opcost"] \in 0..1 /\ e["tokens"] \in 0..200
  BY <1>4, CostsOf, SmallCosts
<1>6. /\ session'.made = session.made + 1 /\ session'.limits = session.limits
      /\ session'.spent = Plus(session.spent, e)
  <2>1. session' = [session EXCEPT !.made = @ + 1, !.spent = Plus(@, e)]
    BY <1>5 DEF Forward, CallOf
  <2>2. session' = [made |-> session.made + 1, spent |-> Plus(session.spent, e),
                    limits |-> session.limits]
    BY <2>1 DEF IInv, TypeOK
  <2> QED BY <2>2
<1>7. \A m \in Meters : session'.spent[m] = session.spent[m] + e[m]
  BY <1>6 DEF Plus
<1>8. flights[f].phase # "answered" /\ x.phase \notin {"sent", "dropped", "answered"}
  BY <1>2
<1>9. /\ session.made <= agent.step - 1 /\ session.spent["usd_opcost"] <= agent.step - 1
      /\ session.spent["tokens"] <= 200 * (agent.step - 1)
  BY <1>2, <1>4, <1>8, Before
<1>10. /\ session.limits["usd_opcost"] = 100 /\ session.limits["tokens"] = 20000
       /\ session.made \in Nat /\ \A m \in Meters : session.spent[m] \in Nat
       /\ {"usd_opcost", "tokens", Disbursed} = Meters /\ agent.step \in Nat
  <2>1. agent.step \in Nat
    BY DEF IInv, TypeOK, AgentType
  <2> QED BY <1>4, <1>8, <2>1, Before
<1>11. session'.spent[Disbursed] = session.spent[Disbursed]
  BY <1>5, <1>7, <1>10
<1>12. session'.made <= agent.step
  BY <1>6, <1>9, <1>10
<1>13. /\ session'.spent["usd_opcost"] <= agent.step
       /\ session'.spent["tokens"] <= 200 * agent.step
  <2>1. /\ session'.spent["usd_opcost"] = session.spent["usd_opcost"] + e["usd_opcost"]
        /\ session'.spent["tokens"] = session.spent["tokens"] + e["tokens"]
        /\ session.spent["usd_opcost"] \in Nat /\ session.spent["tokens"] \in Nat
    BY <1>7, <1>10
  <2> QED BY <1>5, <1>9, <1>10, <2>1
<1>14. Expected[workflow][agent.step] = "served"
  <2>1. InScope(CallOf(f)) /\ Permitted(CallOf(f)) /\ WithinBudget(CallOf(f))
    BY DEF Forward, CallOf
  <2> QED BY <1>2, <1>4, <2>1, BudgetOf
<1> QED BY <1>3, <1>6, <1>8, <1>10, <1>11, <1>12, <1>13, <1>14, GoesOn

\* A call that was forwarded was expected to be served, and its report is on the disbursed
\* meter when it is told so.
LEMMA ReturnCourse ==
  ASSUME IInv, OnCourse, faults = 0, faults' = 0, NEW f \in DOMAIN flights, Return(f)
  PROVE  OnCourse'
<1>1. PICK x : x = [flights[f] EXCEPT !.phase = "answered", !.verdict = "served"]
  OBVIOUS
<1>2. flights[f].phase = "forwarded" /\ x.phase = "answered" /\ x.verdict = "served"
  BY <1>1, FlightTyped DEF Return, FlightType, Verdicts
<1>3. /\ workflow' = workflow /\ agent' = agent /\ flights'[f] = x /\ Len(flights') = Len(flights)
      /\ \A g \in DOMAIN flights : g # f => flights'[g] = flights[g]
  <2>1. flights' = [flights EXCEPT ![f] = x] /\ UNCHANGED <<workflow, agent>>
    BY <1>1 DEF Return, Answer, IInv, TypeOK
  <2> QED BY <2>1 DEF IInv, TypeOK
<1>4. /\ CallOf(f).op = "call" /\ CallOf(f) \in CallStep /\ agent.step > 1
      /\ CallOf(f) = Steps[agent.step]
  <2>1. CallOf(f).op = "call"
    BY <1>2 DEF IInv, Flown
  <2>2. CallOf(f) = Steps[agent.step] /\ flights[f].step = agent.step
        /\ agent.step \in 1..Len(Steps)
    BY <1>2, Pending
  <2>3. flights[f].step # 1 /\ CallOf(f) \in CallStep
    BY <2>1, CallsOf DEF IInv
  <2> QED BY <2>1, <2>2, <2>3
<1>5. PICK e \in [Meters -> Nat], r \in [Meters -> Nat] :
         /\ e = Estimate(CallOf(f)) /\ r = Report(CallOf(f)) /\ e[Disbursed] = 0
         /\ r[Disbursed] = CallOf(f).amount
         /\ e["usd_opcost"] = r["usd_opcost"] /\ e["tokens"] = r["tokens"]
  BY <1>4, CostsOf, SmallCosts
<1>6. /\ session'.made = session.made /\ session'.limits = session.limits
      /\ session'.spent = [m \in Meters |-> session.spent[m] + r[m] - e[m]]
  <2>1. session' = [session EXCEPT !.spent = Reconciled(@, CallOf(f))]
    BY DEF Return, CallOf
  <2>2. session' = [made |-> session.made, spent |-> Reconciled(session.spent, CallOf(f)),
                    limits |-> session.limits]
    BY <2>1 DEF IInv, TypeOK
  <2> QED BY <1>5, <2>2 DEF Reconciled
<1>7. flights[f].phase # "answered" /\ x.phase \notin {"sent", "dropped"}
  BY <1>2
<1>8. /\ session.made <= agent.step /\ session.spent["usd_opcost"] <= agent.step
      /\ session.spent["tokens"] <= 200 * agent.step
  BY <1>4, <1>7, Before
<1>9. /\ session.limits["usd_opcost"] = 100 /\ session.limits["tokens"] = 20000
      /\ \A m \in Meters : session.spent[m] \in Nat
      /\ {"usd_opcost", "tokens", Disbursed} = Meters
      /\ session.spent[Disbursed] = SpentAfter[workflow][agent.step - 1]
      /\ session.limits[Disbursed] = LimitAfter[workflow][agent.step - 1]
  BY <1>4, <1>7, Before
<1>10. agent.step \in 2..Len(Steps)
  BY <1>4, <1>7, Before
<1>14. Expected[workflow][agent.step] = "served"
  BY <1>2, <1>7, Pending DEF OnCourse
<1>11. /\ SpentAfter[workflow][agent.step] = SpentAfter[workflow][agent.step - 1] + CallOf(f).amount
       /\ LimitAfter[workflow][agent.step] = LimitAfter[workflow][agent.step - 1]
  <2>1. Steps[agent.step].op = "call"
    BY <1>4
  <2> QED BY <1>4, <1>10, <1>14, <2>1, ScriptCalls DEF IInv, TypeOK
<1>12. /\ session'.spent[Disbursed] = SpentAfter[workflow][agent.step]
       /\ session'.spent["usd_opcost"] = session.spent["usd_opcost"]
       /\ session'.spent["tokens"] = session.spent["tokens"]
  <2>1. \A m \in Meters : session'.spent[m] = session.spent[m] + r[m] - e[m]
    BY <1>6
  <2>2. \A m \in Meters : r[m] \in Nat /\ e[m] \in Nat
    BY <1>5
  <2> QED BY <1>5, <1>9, <1>11, <2>1, <2>2
<1>13. /\ session'.made <= agent.step /\ session'.spent["usd_opcost"] <= agent.step
       /\ session'.spent["tokens"] <= 200 * agent.step
       /\ session'.limits["usd_opcost"] = 100 /\ session'.limits["tokens"] = 20000
       /\ session'.limits[Disbursed] = LimitAfter[workflow][agent.step]
  BY <1>6, <1>8, <1>9, <1>11, <1>12
<1>15. x.verdict = Expected[workflow][agent.step]
  BY <1>2, <1>14
<1>16. session'.limits["usd_opcost"] = 100 /\ session'.limits["tokens"] = 20000
  BY <1>13
<1>17. /\ flights'[f].phase = "answered" /\ flights'[f].verdict = Expected[workflow][agent.step]
       /\ flights[f].phase # "answered"
  BY <1>2, <1>3, <1>15
<1> QED BY <1>3, <1>12, <1>13, <1>16, <1>17, GoesOn

\* Upstream runs what was forwarded.
LEMMA ExecuteCourse ==
  ASSUME IInv, OnCourse, faults = 0, faults' = 0, NEW f \in DOMAIN flights, Execute(f)
  PROVE  OnCourse'
<1>1. PICK x : x = [flights[f] EXCEPT !.ran = TRUE]
  OBVIOUS
<1>2. flights[f] \in FlightType /\ flights[f].phase # "dropped"
  BY Pending, FlightTyped DEF Execute, OnCourse
<1>3. flights[f].phase = "forwarded" /\ x.phase = "forwarded"
  BY <1>1, <1>2 DEF Execute, FlightType
<1>4. /\ workflow' = workflow /\ agent' = agent /\ flights'[f] = x /\ Len(flights') = Len(flights)
      /\ \A g \in DOMAIN flights : g # f => flights'[g] = flights[g]
      /\ session' = session
  <2>1. flights' = [flights EXCEPT ![f] = x] /\ UNCHANGED <<workflow, agent, session>>
    BY <1>1 DEF Execute, IInv, TypeOK
  <2> QED BY <2>1 DEF IInv, TypeOK
<1>5. flights[f].phase # "answered" /\ x.phase \notin {"sent", "dropped", "answered"}
  BY <1>3
<1>6. agent.step > 1 /\ Expected[workflow][agent.step] = "served"
  <2>1. /\ f = Awaited /\ flights[f].step = agent.step /\ agent.step \in 1..Len(Steps)
    BY <1>5, Pending
  <2>2. CallOf(f).op = "call"
    BY <1>3 DEF IInv, Flown
  <2>3. flights[f].step # 1
    BY <2>2, CallsOf DEF IInv
  <2> QED BY <1>3, <2>1, <2>3 DEF OnCourse
<1>7. /\ session.limits["usd_opcost"] = 100 /\ session.limits["tokens"] = 20000
      /\ session.made <= agent.step /\ session.spent["usd_opcost"] <= agent.step
      /\ session.spent["tokens"] <= 200 * agent.step
  BY <1>5, <1>6, Before
<1> QED BY <1>4, <1>5, <1>6, <1>7, GoesOn

\* The agent is told what is expected, and goes on.
LEMMA VerdictCourse ==
  ASSUME IInv, OnCourse, faults = 0, faults' = 0, TakeVerdict
  PROVE  OnCourse'
<1>1. /\ workflow \in DOMAIN Workflows /\ agent \in AgentType /\ flights \in Seq(FlightType)
      /\ agent.step \in 1..Len(Steps) /\ Len(Steps) \in Nat /\ agent.step \in Nat
      /\ session' = session /\ workflow' = workflow /\ Steps' = Steps
  <2>1. Len(Steps) \in Nat
    BY StepsOf DEF IInv, TypeOK
  <2> QED BY <2>1 DEF IInv, TypeOK, AgentType, TakeVerdict, Steps
<1>2. /\ agent.state = "waiting" /\ Len(flights) = agent.step
      /\ \A f \in 1..(agent.step - 1) : flights[f].phase = "answered"
      /\ flights[agent.step].phase = "answered"
      /\ flights[agent.step].verdict = Expected[workflow][agent.step]
      /\ Len(agent.told) = agent.step - 1
      /\ \A i \in 1..(agent.step - 1) : agent.told[i] = Expected[workflow][i]
      /\ session.spent[Disbursed] = SpentAfter[workflow][agent.step]
      /\ session.limits[Disbursed] = LimitAfter[workflow][agent.step]
      /\ session.limits["usd_opcost"] = 100 /\ session.limits["tokens"] = 20000
      /\ session.made <= agent.step /\ session.spent["usd_opcost"] <= agent.step
      /\ session.spent["tokens"] <= 200 * agent.step
  <2>1. agent.state = "waiting" /\ flights[Awaited].phase = "answered" /\ Awaited = agent.step
    BY DEF TakeVerdict, OnCourse, Awaited
  <2>2. StepsDone = agent.step /\ StepsBegun = agent.step /\ StepsTold = agent.step - 1
    BY <2>1 DEF StepsDone, StepsBegun, StepsTold
  <2>3. StepsDone > 0
    BY <1>1, <2>2
  <2> QED BY <2>1, <2>2, <2>3 DEF OnCourse, Awaited
<1>3. PICK verdict \in Verdicts : verdict = flights[agent.step].verdict
  <2>1. agent.step \in DOMAIN flights
    BY <1>1, <1>2
  <2> QED BY <2>1, FlightTyped DEF FlightType
<1>4. PICK told : told = Append(agent.told, verdict)
  OBVIOUS
<1>5. /\ Len(told) = agent.step
      /\ \A i \in 1..agent.step : told[i] = Expected[workflow][i]
  <2>1. agent.told \in Seq(Verdicts)
    BY <1>1 DEF AgentType
  <2>2. /\ Len(told) = Len(agent.told) + 1 /\ told[agent.step] = verdict
        /\ \A i \in 1..(agent.step - 1) : told[i] = agent.told[i]
    BY <1>1, <1>2, <1>4, <2>1
  <2>3. \A i \in 1..agent.step : i \in 1..(agent.step - 1) \/ i = agent.step
    BY <1>1
  <2>4. Len(told) = agent.step
    BY <1>1, <1>2, <2>2
  <2>5. \A i \in 1..(agent.step - 1) : told[i] = Expected[workflow][i]
    BY <1>2, <2>2
  <2>6. told[agent.step] = Expected[workflow][agent.step]
    BY <1>2, <1>3, <2>2
  <2> QED BY <2>3, <2>4, <2>5, <2>6
<1>6. CASE agent.step = Len(Steps)
  <2>1. /\ agent' = [step |-> agent.step, attempt |-> 1, told |-> told, state |-> "done"]
        /\ flights' = flights
    BY <1>2, <1>3, <1>4, <1>6 DEF TakeVerdict, Awaited
  <2>2. /\ agent'.step = agent.step /\ agent'.state = "done" /\ agent'.told = told
        /\ Awaited' = agent.step
    BY <1>2, <2>1 DEF Awaited
  <2>3. StepsDone' = agent.step /\ StepsBegun' = agent.step /\ StepsTold' = agent.step
    BY <1>2, <2>1, <2>2 DEF StepsDone, StepsBegun, StepsTold
  <2> QED BY <1>1, <1>2, <1>5, <1>6, <2>1, <2>2, <2>3 DEF OnCourse
<1>7. CASE agent.step # Len(Steps)
  <2>1. /\ agent' = [step |-> agent.step + 1, attempt |-> 1, told |-> told, state |-> "waiting"]
        /\ flights' = Append(flights, Flight(agent.step + 1))
    BY <1>2, <1>3, <1>4, <1>7 DEF TakeVerdict, Awaited
  <2>2. /\ agent'.step = agent.step + 1 /\ agent'.state = "waiting" /\ agent'.told = told
        /\ Len(flights') = agent.step + 1 /\ Awaited' = agent.step + 1
        /\ flights'[agent.step + 1] = Flight(agent.step + 1)
        /\ \A f \in 1..agent.step : flights'[f] = flights[f]
    BY <1>1, <1>2, <2>1 DEF Awaited
  <2>3. Flight(agent.step + 1).phase = "sent"
    BY DEF Flight
  <2>4. \A f \in 1..agent.step : flights'[f].phase = "answered"
    <3>1. \A f \in 1..agent.step : f \in 1..(agent.step - 1) \/ f = agent.step
      BY <1>1
    <3> QED BY <1>2, <2>2, <3>1
  <2>5. StepsDone' = agent.step /\ StepsBegun' = agent.step /\ StepsTold' = agent.step
    BY <1>1, <2>2, <2>3 DEF StepsDone, StepsBegun, StepsTold
  <2>6. agent.step + 1 - 1 = agent.step
    BY <1>1
  <2> QED BY <1>1, <1>2, <1>5, <2>2, <2>3, <2>4, <2>5, <2>6 DEF OnCourse
<1> QED BY <1>6, <1>7

\* While nothing fails, or nothing happens.
LEMMA CourseFrame ==
  ASSUME OnCourse, UNCHANGED vars
  PROVE  OnCourse'
<1>1. /\ UNCHANGED <<workflow, agent, flights, session, faults>>
      /\ Awaited' = Awaited /\ Steps' = Steps
  BY DEF vars, Awaited, Steps
<1>2. StepsDone' = StepsDone /\ StepsBegun' = StepsBegun /\ StepsTold' = StepsTold
  BY <1>1 DEF StepsDone, StepsBegun, StepsTold
<1> QED BY <1>1, <1>2 DEF OnCourse

LEMMA NextCourse ==
  ASSUME IInv, OnCourse, faults \in Nat, [Next]_vars
  PROVE  OnCourse'
<1>1. CASE UNCHANGED vars
  BY <1>1, CourseFrame
<1>2. CASE faults' # 0
  BY <1>2 DEF OnCourse
<1>3. CASE Next /\ faults' = 0
  <2>1. ~LosesTouch /\ \A f \in DOMAIN flights : ~Drop(f)
    BY <1>3 DEF LosesTouch, Drop
  <2>2. ASSUME NEW f \in DOMAIN flights, Dispatch(f) \/ Execute(f)
        PROVE  faults = 0
    BY <1>3, <2>2 DEF Dispatch, Open, Amend, Refuse, Forward, Return, Execute
  <2>3. ASSUME RunWorkflow
        PROVE  faults = 0
    BY <1>3, <2>3 DEF RunWorkflow, TakeVerdict, Retry, Raise
  <2>4. faults = 0
    BY <1>3, <2>1, <2>2, <2>3 DEF Next
  <2>5. ~Retry /\ ~Raise
    BY <2>4 DEF Retry, Raise, OnCourse
  <2>6. \/ TakeVerdict
        \/ \E f \in DOMAIN flights : Dispatch(f) \/ Execute(f)
    BY <1>3, <2>1, <2>5 DEF Next, RunWorkflow
  <2> QED BY <1>3, <2>4, <2>6, VerdictCourse, OpenCourse, AmendCourse, RefuseCourse, ForwardCourse,
             ReturnCourse, ExecuteCourse DEF Dispatch
<1> QED BY <1>1, <1>2, <1>3

LEMMA InitCourse ==
  ASSUME Init
  PROVE  OnCourse
<1>1. /\ agent.step = 1 /\ agent.state = "waiting" /\ agent.told = <<>>
      /\ Awaited = 1 /\ flights[1] = Flight(1) /\ session = NoSession /\ Len(flights) = 1
  BY DEF Init, Awaited
<1>2. Flight(1).phase = "sent"
  BY DEF Flight
<1>3. StepsDone = 0 /\ StepsBegun = 0 /\ StepsTold = 0
  BY <1>1, <1>2 DEF StepsDone, StepsBegun, StepsTold
<1>4. /\ session.made = 0 /\ session.spent["usd_opcost"] = 0 /\ session.spent["tokens"] = 0
  BY <1>1 DEF NoSession, Amounts, Meters
<1> QED BY <1>1, <1>2, <1>3, <1>4 DEF OnCourse

\* The demo shows what it is there to show.
LEMMA OnCourseShows ==
  ASSUME IInv, OnCourse
  PROVE  ShowsWhatItShould
<1> SUFFICES ASSUME agent.state = "done", faults = 0
             PROVE  agent.told = Expected[workflow]
  BY DEF ShowsWhatItShould
<1>1. /\ agent.told \in Seq(Verdicts) /\ agent.step = Len(Steps) /\ StepsTold = agent.step
      /\ Len(agent.told) = StepsTold
      /\ \A i \in 1..StepsTold : agent.told[i] = Expected[workflow][i]
  BY DEF IInv, TypeOK, AgentType, OnCourse, StepsTold
<1>2. Expected[workflow] \in Seq({"served", "denied"}) /\ Len(Expected[workflow]) = Len(Steps)
  BY Script DEF IInv, TypeOK
<1>3. DOMAIN agent.told = 1..Len(Steps) /\ DOMAIN Expected[workflow] = 1..Len(Steps)
  BY <1>1, <1>2
<1>4. agent.told = [i \in 1..Len(Steps) |-> agent.told[i]]
  BY <1>1, <1>3
<1>5. Expected[workflow] = [i \in 1..Len(Steps) |-> Expected[workflow][i]]
  BY <1>2, <1>3
<1> QED BY <1>1, <1>4, <1>5


-----------------------------------------------------------------------------
(* Sessions as accounts *)

\* Attempts at opening are counted by the faults, and the last of them has the session.
Tracked ==
  /\ faults \in 0..MaxFaults
  /\ \A f \in DOMAIN flights : flights[f].step = 1 =>
       f <= faults + 1 /\ (agent.step = 1 /\ agent.state = "broken" => f <= faults)
  /\ agent.step = 1 => session \in {NoSession, Opened}
  /\ agent.step = 1 /\ flights[Awaited].phase = "answered" => session = Opened
  /\ agent.step > 1 => \E f \in DOMAIN flights : Made(f) /\ ~Unused(f)

\* A flight goes on in its step.
Moves(f) ==
  /\ Len(flights') = Len(flights) /\ DOMAIN flights' = DOMAIN flights
  /\ flights'[f].step = flights[f].step
  /\ \A g \in DOMAIN flights : g # f => flights'[g] = flights[g]
  /\ workflow' = workflow

LEMMA MovesFrame ==
  ASSUME IInv, NEW f \in DOMAIN flights, Moves(f)
  PROVE  /\ Steps' = Steps /\ Awaited' = Awaited /\ Opened' = Opened /\ Commitment' = Commitment
         /\ \A g \in DOMAIN flights : flights'[g].step = flights[g].step
         /\ \A g \in DOMAIN flights : CallOf(g)' = CallOf(g)
         /\ \A g : Unused(g)' <=> Unused(g)
         /\ \A g : g # f => (Made(g)' <=> Made(g))
         /\ Made(f)' <=> flights[f].step = 1 /\ flights'[f].phase = "answered"
<1>1. /\ Steps' = Steps /\ Awaited' = Awaited /\ Opened' = Opened /\ Commitment' = Commitment
  BY DEF Moves, Steps, Awaited, Opened, Commitment, NoSession, Amounts
<1>2. \A g \in DOMAIN flights : flights'[g].step = flights[g].step
  BY DEF Moves
<1>3. \A g \in DOMAIN flights : CallOf(g)' = CallOf(g)
  BY <1>1, <1>2 DEF CallOf
<1>4. \A g : Unused(g)' <=> Unused(g)
  BY <1>2 DEF Unused, Moves
<1>5. \A g : g # f => (Made(g)' <=> Made(g))
  BY <1>2 DEF Made, Moves
<1>6. Made(f)' <=> flights[f].step = 1 /\ flights'[f].phase = "answered"
  BY <1>2 DEF Made, Moves
<1> QED BY <1>1, <1>2, <1>3, <1>4, <1>5, <1>6

LEMMA AnswerMoves ==
  ASSUME IInv, NEW f \in DOMAIN flights, NEW v, Answer(f, v), workflow' = workflow
  PROVE  Moves(f) /\ flights'[f].phase = "answered"
<1>1. flights[f] \in FlightType /\ flights \in Seq(FlightType)
  BY FlightTyped DEF IInv, TypeOK
<1>2. PICK x : x = [flights[f] EXCEPT !.phase = "answered", !.verdict = v]
  OBVIOUS
<1>3. x.step = flights[f].step /\ x.phase = "answered"
  BY <1>1, <1>2 DEF FlightType
<1>4. flights' = [flights EXCEPT ![f] = x]
  BY <1>2 DEF Answer
<1> QED BY <1>1, <1>3, <1>4 DEF Moves

LEMMA PhaseMoves ==
  ASSUME IInv, NEW f \in DOMAIN flights, NEW p, flights' = [flights EXCEPT ![f].phase = p],
         workflow' = workflow
  PROVE  Moves(f) /\ flights'[f].phase = p
<1>1. flights[f] \in FlightType /\ flights \in Seq(FlightType)
  BY FlightTyped DEF IInv, TypeOK
<1> QED BY <1>1 DEF Moves, FlightType

LEMMA ExecuteMoves ==
  ASSUME IInv, NEW f \in DOMAIN flights, Execute(f)
  PROVE  Moves(f) /\ flights'[f].phase = flights[f].phase
<1>1. flights[f] \in FlightType /\ flights \in Seq(FlightType)
  BY FlightTyped DEF IInv, TypeOK
<1> QED BY <1>1 DEF Moves, FlightType, Execute

\* Calls and amendments come after the first step.
LEMMA LaterMoves ==
  ASSUME IInv, NEW f \in DOMAIN flights,
         Amend(f) \/ Refuse(f) \/ Forward(f) \/ Return(f) \/ Drop(f) \/ Execute(f)
  PROVE  Moves(f) /\ flights[f].step # 1 /\ flights[f].phase # "answered"
<1>1. CASE Amend(f) \/ Refuse(f) \/ Forward(f)
  <2>1. CallOf(f).op \in {"amend", "call"} /\ flights[f].phase = "sent"
    BY <1>1 DEF Amend, Refuse, Forward, Arrives, CallOf
  <2>2. flights[f].step # 1
    BY <2>1, CallsOf DEF IInv
  <2>3. Moves(f)
    BY <1>1, AnswerMoves, PhaseMoves DEF Amend, Refuse, Forward
  <2> QED BY <2>1, <2>2, <2>3
<1>2. CASE Return(f) \/ Drop(f) \/ Execute(f)
  <2>1. flights[f].phase \in {"forwarded", "dropped"}
    BY <1>2 DEF Return, Drop, Execute
  <2>2. CallOf(f).op = "call"
    BY <2>1 DEF IInv, Flown
  <2>3. flights[f].step # 1
    BY <2>2, CallsOf DEF IInv
  <2>4. Moves(f)
    BY <1>2, AnswerMoves, PhaseMoves, ExecuteMoves DEF Return, Drop
  <2> QED BY <2>1, <2>3, <2>4
<1> QED BY <1>1, <1>2

\* A call or an amendment goes on: the openings stay as they are.
LEMMA TrackedLater ==
  ASSUME IInv, Tracked, NEW f \in DOMAIN flights, Moves(f), flights[f].step # 1,
         agent'.step = agent.step, faults' \in faults..MaxFaults
  PROVE  Tracked' /\ agent.step > 1
<1>1. agent.step > 1 /\ agent.step \in Nat
  BY DEF IInv, TypeOK, AgentType
<1>2. /\ \A g \in DOMAIN flights : flights'[g].step = flights[g].step
      /\ \A g : Unused(g)' <=> Unused(g)
      /\ \A g : Made(g)' <=> Made(g)
  <2>1. ~Made(f) /\ ~Made(f)'
    BY MovesFrame DEF Made
  <2> QED BY <2>1, MovesFrame
<1>3. faults \in Int /\ faults' \in 0..MaxFaults /\ faults <= faults'
      /\ DOMAIN flights \subseteq Int
  BY DisbursementAssumption DEF Tracked, IInv, TypeOK
<1>4. DOMAIN flights' = DOMAIN flights
  BY DEF Moves
<1>5. \A g \in DOMAIN flights' : flights'[g].step = 1 => g <= faults' + 1
  BY <1>2, <1>3, <1>4 DEF Tracked
<1>6. \E g \in DOMAIN flights' : Made(g)' /\ ~Unused(g)'
  BY <1>1, <1>2, <1>4 DEF Tracked
<1> QED BY <1>1, <1>3, <1>5, <1>6 DEF Tracked

\* An attempt at opening is answered: only the one the agent waits for changes the session.
LEMMA TrackedOpen ==
  ASSUME IInv, Tracked, NEW f \in DOMAIN flights, Open(f)
  PROVE  /\ Tracked' /\ Moves(f) /\ flights[f].step = 1 /\ ~Made(f) /\ Made(f)'
         /\ f = Awaited => agent.step = 1
         /\ f # Awaited => Unused(f)
<1>1. flights[f].phase = "sent" /\ flights[f].step = 1 /\ UNCHANGED <<workflow, agent, faults>>
  BY CallsOf DEF Open, Arrives, CallOf, IInv
<1>2. Moves(f) /\ flights'[f].phase = "answered"
  BY AnswerMoves DEF Open
<1>3. /\ Steps' = Steps /\ Awaited' = Awaited /\ Opened' = Opened /\ NoSession' = NoSession
      /\ DOMAIN flights' = DOMAIN flights
      /\ \A g \in DOMAIN flights : flights'[g].step = flights[g].step
      /\ \A g : Unused(g)' <=> Unused(g)
      /\ \A g : g # f => (Made(g)' <=> Made(g))
      /\ Made(f)' /\ ~Made(f)
  BY <1>1, <1>2, MovesFrame DEF Moves, Made, NoSession, Amounts
<1>4. f = Awaited => agent.step = 1
  BY <1>1 DEF IInv, TypeOK
<1>5. f # Awaited => Unused(f)
  <2>1. CASE agent.step = 1
    <3>1. Awaited \in DOMAIN flights /\ f \in 1..Awaited /\ Awaited \in Nat
      BY DEF IInv, TypeOK, Awaited
    <3>2. flights[Awaited].step = 1
      BY <2>1 DEF IInv, TypeOK
    <3> QED BY <3>1, <3>2 DEF Unused
  <2>2. CASE agent.step > 1
    <3>1. PICK o \in DOMAIN flights : Made(o) /\ ~Unused(o)
      BY <2>2 DEF Tracked
    <3>2. o # f /\ flights[o].step = 1 /\ o \in Int /\ f \in Int
      BY <1>3, <3>1 DEF Made, IInv, TypeOK
    <3>3. ~(f > o)
      BY <1>1, <3>1 DEF Unused
    <3> QED BY <3>1, <3>2, <3>3 DEF Unused
  <2> QED BY <2>1, <2>2 DEF IInv, TypeOK, AgentType
<1>6. agent.step = 1 => /\ session' \in {NoSession, Opened}
                        /\ flights'[Awaited].phase = "answered" => session' = Opened
  <2>1. CASE f = Awaited
    BY <2>1 DEF Open
  <2>2. CASE f # Awaited
    <3>1. session' = session /\ flights'[Awaited] = flights[Awaited]
      BY <1>2, <2>2 DEF Open, Moves, IInv, TypeOK, Awaited
    <3> QED BY <3>1 DEF Tracked
  <2> QED BY <2>1, <2>2
<1>7. agent.step > 1 => \E g \in DOMAIN flights : Made(g)' /\ ~Unused(g)'
  BY <1>3 DEF Tracked
<1>8. \A g \in DOMAIN flights' : flights'[g].step = 1 =>
        g <= faults' + 1 /\ (agent'.step = 1 /\ agent'.state = "broken" => g <= faults')
  BY <1>1, <1>3 DEF Tracked
<1>9. faults' \in 0..MaxFaults
  BY <1>1 DEF Tracked
<1>10. Tracked'
  BY <1>1, <1>3, <1>6, <1>7, <1>8, <1>9 DEF Tracked
<1> QED BY <1>1, <1>2, <1>3, <1>4, <1>5, <1>10

\* A request is sent: the first one after the session was opened leaves it with the last
\* attempt at that.
LEMMA TrackedSends ==
  ASSUME IInv, Tracked, NEW s \in agent.step..Len(Steps), flights' = Append(flights, Flight(s)),
         agent'.step = s, UNCHANGED <<workflow, session, faults>>, agent'.state = "waiting",
         s = agent.step => agent.state = "broken",
         s # agent.step => flights[Awaited].phase = "answered"
  PROVE  /\ Tracked' /\ DOMAIN flights' = DOMAIN flights \cup {Len(flights) + 1}
         /\ Flight(s).phase = "sent" /\ Flight(s).step = s
         /\ flights'[Len(flights) + 1] = Flight(s) /\ Len(flights) + 1 \notin DOMAIN flights
         /\ \A g \in DOMAIN flights : flights'[g] = flights[g]
         /\ \A g : Made(g)' <=> Made(g)
         /\ \A g \in DOMAIN flights : Unused(g)' <=> Unused(g) \/ s = 1
<1>1. /\ DOMAIN flights = 1..Len(flights) /\ Len(flights) \in Nat /\ s \in Nat \ {0}
      /\ agent.step \in Nat \ {0} /\ agent.step <= s
      /\ Awaited = Len(flights) /\ Awaited \in DOMAIN flights /\ flights[Awaited].step = agent.step
  BY StepsOf DEF IInv, TypeOK, AgentType, Awaited
<1>2. /\ Len(flights') = Len(flights) + 1
         /\ DOMAIN flights' = DOMAIN flights \cup {Len(flights) + 1}
      /\ flights'[Len(flights) + 1] = Flight(s) /\ Len(flights) + 1 \notin DOMAIN flights
      /\ \A g \in DOMAIN flights : flights'[g] = flights[g]
      /\ Awaited' = Len(flights) + 1
  BY <1>1 DEF IInv, TypeOK, Awaited
<1>3. Flight(s).phase = "sent" /\ Flight(s).step = s
  BY DEF Flight
<1>4. \A g : Made(g)' <=> Made(g)
  BY <1>2, <1>3 DEF Made
<1>5. ASSUME NEW g \in DOMAIN flights
      PROVE  Unused(g)' <=> Unused(g) \/ s = 1
  <2>1. Len(flights) + 1 > g
    BY <1>1
  <2>2. Unused(g)' <=> \E h \in DOMAIN flights' : h > g /\ flights'[h].step = 1
    BY DEF Unused
  <2> QED BY <1>2, <1>3, <2>1, <2>2 DEF Unused
<1>6. Opened' = Opened /\ NoSession' = NoSession
  BY DEF Opened, NoSession, Amounts, Commitment
<1>7. Tracked'
  <2>1. ASSUME NEW g \in DOMAIN flights', flights'[g].step = 1
        PROVE  g <= faults + 1
    <3>1. CASE g \in DOMAIN flights
      BY <1>2, <2>1, <3>1 DEF Tracked
    <3>2. CASE g = Len(flights) + 1
      <4>1. s = 1 /\ agent.step = 1 /\ agent.state = "broken"
        BY <1>1, <1>2, <1>3, <2>1, <3>2
      <4>2. Len(flights) <= faults /\ faults \in Int
        BY <1>1, <4>1 DEF Tracked
      <4> QED BY <1>1, <3>2, <4>2
    <3> QED BY <1>2, <3>1, <3>2
  <2>2. CASE s = 1
    <3>1. agent.step = 1
      BY <1>1, <2>2
    <3> QED BY <1>2, <1>3, <1>6, <2>1, <2>2, <3>1 DEF Tracked
  <2>3. CASE s > 1
    <3>1. PICK o \in DOMAIN flights : Made(o) /\ ~Unused(o)
      <4>1. CASE agent.step > 1
        BY <4>1 DEF Tracked
      <4>2. CASE agent.step = 1
        <5>1. Made(Awaited)
          BY <1>1, <2>3, <4>2 DEF Made
        <5>2. ~Unused(Awaited)
          BY <1>1 DEF Unused
        <5> QED BY <1>1, <5>1, <5>2
      <4> QED BY <1>1, <4>1, <4>2
    <3>2. \E g \in DOMAIN flights' : Made(g)' /\ ~Unused(g)'
      BY <1>2, <1>4, <1>5, <2>3, <3>1
    <3> QED BY <2>1, <2>3, <3>2 DEF Tracked
  <2> QED BY <1>1, <2>2, <2>3
<1> QED BY <1>2, <1>3, <1>4, <1>5, <1>7

\* The agent hears nothing, gives up or is done.
LEMMA TrackedAlone ==
  ASSUME IInv, Tracked, UNCHANGED <<workflow, flights, session>>, agent'.step = agent.step,
         \/ faults' = faults /\ agent'.state \in {agent.state, "done", "raised"}
         \/ faults' = faults + 1 /\ faults < MaxFaults
  PROVE  Tracked'
<1>1. /\ Opened' = Opened /\ NoSession' = NoSession /\ Awaited' = Awaited
      /\ \A g : (Made(g)' <=> Made(g)) /\ (Unused(g)' <=> Unused(g))
  BY DEF Opened, NoSession, Amounts, Commitment, Awaited, Made, Unused
<1>2. /\ faults \in 0..MaxFaults /\ faults' \in 0..MaxFaults /\ MaxFaults \in Nat
      /\ DOMAIN flights \subseteq Int
  BY DisbursementAssumption DEF Tracked, IInv, TypeOK
<1>3. ASSUME NEW f \in DOMAIN flights, flights[f].step = 1
      PROVE  f <= faults' + 1 /\ (agent'.step = 1 /\ agent'.state = "broken" => f <= faults')
  <2>1. f <= faults + 1 /\ (agent.step = 1 /\ agent.state = "broken" => f <= faults) /\ f \in Int
    BY <1>2, <1>3 DEF Tracked
  <2> QED BY <1>2, <2>1
<1> QED BY <1>1, <1>2, <1>3 DEF Tracked

LEMMA InitTracked ==
  ASSUME Init
  PROVE  Tracked
<1>1. /\ agent.step = 1 /\ agent.state = "waiting" /\ DOMAIN flights = {1} /\ Awaited = 1
      /\ flights[1] = Flight(1) /\ session = NoSession /\ faults = 0
  BY DEF Init, Awaited
<1>2. Flight(1).phase = "sent"
  BY DEF Flight
<1> QED BY <1>1, <1>2, DisbursementAssumption DEF Tracked

LEMMA NextTracked ==
  ASSUME IInv, Tracked, [Next]_vars
  PROVE  Tracked'
<1>1. /\ agent \in AgentType /\ faults \in 0..MaxFaults /\ MaxFaults \in Nat
      /\ agent.step \in 1..Len(Steps) /\ Len(Steps) \in Nat
  BY DisbursementAssumption, StepsOf DEF IInv, TypeOK, Tracked
<1>2. CASE UNCHANGED vars
  BY <1>2, TrackedAlone DEF vars
<1>3. CASE LosesTouch \/ Raise
  BY <1>1, <1>3, TrackedAlone DEF LosesTouch, Raise, AgentType
<1>4. CASE Retry
  <2>1. agent'.step = agent.step /\ agent'.state = "waiting"
        /\ agent.step \in agent.step..Len(Steps)
    BY <1>1, <1>4 DEF Retry, AgentType
  <2> QED BY <1>4, <2>1, TrackedSends DEF Retry
<1>5. CASE TakeVerdict
  <2>1. CASE agent.step = Len(Steps)
    <3>1. /\ agent'.step = agent.step /\ agent'.state = "done"
          /\ UNCHANGED <<workflow, flights, session, faults>>
      BY <1>5, <2>1 DEF TakeVerdict
    <3> QED BY <3>1, TrackedAlone
  <2>2. CASE agent.step # Len(Steps)
    <3>1. /\ agent'.step = agent.step + 1 /\ agent'.state = "waiting"
          /\ flights' = Append(flights, Flight(agent.step + 1))
          /\ UNCHANGED <<workflow, session, faults>> /\ flights[Awaited].phase = "answered"
      BY <1>5, <2>2 DEF TakeVerdict
    <3>2. agent.step + 1 \in agent.step..Len(Steps) /\ agent.step + 1 # agent.step
      BY <1>1, <2>2
    <3> QED BY <3>1, <3>2, TrackedSends
  <2> QED BY <2>1, <2>2
<1>6. ASSUME NEW f \in DOMAIN flights, Open(f)
      PROVE  Tracked'
  BY <1>6, TrackedOpen
<1>7. ASSUME NEW f \in DOMAIN flights,
             Amend(f) \/ Refuse(f) \/ Forward(f) \/ Return(f) \/ Drop(f) \/ Execute(f)
      PROVE  Tracked'
  <2>1. Moves(f) /\ flights[f].step # 1
    BY <1>7, LaterMoves
  <2>2. agent'.step = agent.step
    BY <1>1, <1>7 DEF Amend, Refuse, Forward, Return, Drop, Execute, AgentType
  <2>3. faults' \in faults..MaxFaults
    BY <1>1, <1>7 DEF Amend, Refuse, Forward, Return, Drop, Execute
  <2> QED BY <2>1, <2>2, <2>3, TrackedLater
<1> QED BY <1>2, <1>3, <1>4, <1>5, <1>6, <1>7 DEF Next, RunWorkflow, Dispatch

\* The sessions that were made, and the accounts that stand for them.
LEMMA AccountIs ==
  ASSUME NEW g
  PROVE  /\ ~Made(g) => Account(g) = [open |-> FALSE]
         /\ Made(g) /\ Unused(g) => Account(g) = AccountOf(Commitment, Opened, {})
         /\ Made(g) /\ ~Unused(g) => Account(g) = AccountOf(Commitment, session, InFlight)
BY DEF Account

LEMMA AccountWillBe ==
  ASSUME NEW g
  PROVE  /\ ~Made(g)' => Account(g)' = [open |-> FALSE]
         /\ Made(g)' /\ Unused(g)' => Account(g)' = AccountOf(Commitment', Opened', {})
         /\ Made(g)' /\ ~Unused(g)' => Account(g)' = AccountOf(Commitment', session', InFlight')
BY DEF Account

LEMMA SessionsKept ==
  ASSUME \A g \in Openings : (Made(g)' <=> Made(g)) /\ Account(g)' = Account(g)
  PROVE  UNCHANGED Adm!vars
<1>1. [g \in Openings |-> Account(g)]' = [g \in Openings |-> Account(g)]
  BY DEF Openings
<1>2. [g \in Openings |-> IF Made(g) THEN g ELSE 0]' = [g \in Openings |-> IF Made(g) THEN g ELSE 0]
  BY DEF Openings
<1> QED BY <1>1, <1>2 DEF Adm!vars

\* Only a session in use changes.
LEMMA InUse ==
  ASSUME IInv, Tracked, NEW f \in DOMAIN flights, Moves(f), flights[f].step # 1
  PROVE  /\ \A g \in Openings : Made(g)' <=> Made(g)
         /\ \E o \in Openings :
              /\ Made(o) /\ \A g \in Openings : g # o => Account(g)' = Account(g)
              /\ Account(o) = AccountOf(Commitment, session, InFlight)
              /\ Account(o)' = AccountOf(Commitment, session', InFlight')
<1>1. /\ Opened' = Opened /\ Commitment' = Commitment
      /\ \A g : Unused(g)' <=> Unused(g)
      /\ \A g : Made(g)' <=> Made(g)
  <2>1. ~Made(f) /\ ~Made(f)'
    BY MovesFrame DEF Made
  <2> QED BY <2>1, MovesFrame
<1>2. agent.step > 1
  BY DEF IInv, TypeOK, AgentType
<1>3. PICK o \in DOMAIN flights : Made(o) /\ ~Unused(o)
  BY <1>2 DEF Tracked
<1>4. o \in Openings
  <2>1. o \in Nat \ {0} /\ flights[o].step = 1 /\ faults \in 0..MaxFaults /\ MaxFaults \in Nat
    BY <1>3, DisbursementAssumption DEF Made, IInv, TypeOK, Tracked
  <2>2. o <= faults + 1
    BY <2>1 DEF Tracked
  <2> QED BY <2>1, <2>2 DEF Openings
<1>5. ASSUME NEW g \in Openings, g # o
      PROVE  Account(g)' = Account(g)
  <2>1. CASE ~Made(g)
    BY <1>1, <2>1, AccountIs, AccountWillBe
  <2>2. CASE Made(g)
    <3>1. g \in DOMAIN flights /\ flights[g].step = 1 /\ flights[o].step = 1 /\ g \in Int
          /\ o \in Int
      BY <1>3, <2>2 DEF Made, IInv, TypeOK
    <3>2. ~(g > o)
      BY <1>3, <3>1 DEF Unused
    <3>3. Unused(g)
      BY <1>5, <3>1, <3>2 DEF Unused
    <3> QED BY <1>1, <2>2, <3>3, AccountIs, AccountWillBe
  <2> QED BY <2>1, <2>2
<1>6. /\ Account(o) = AccountOf(Commitment, session, InFlight)
      /\ Account(o)' = AccountOf(Commitment, session', InFlight')
  BY <1>1, <1>3, AccountIs, AccountWillBe
<1> QED BY <1>1, <1>3, <1>4, <1>5, <1>6

\* What the proxy waits for.
LEMMA InFlightMoves ==
  ASSUME IInv, NEW f \in DOMAIN flights, Moves(f)
  PROVE  /\ (flights'[f].phase = "forwarded" <=> flights[f].phase = "forwarded")
              => InFlight' = InFlight
         /\ Free => InFlight = {}
         /\ Free /\ flights'[f].phase = "forwarded" => InFlight' = {CallOf(f).tool}
         /\ flights[f].phase = "forwarded" => InFlight = {CallOf(f).tool}
         /\ flights[f].phase = "forwarded" /\ flights'[f].phase # "forwarded" => InFlight' = {}
<1> DEFINE Forwarded == {g \in DOMAIN flights : flights[g].phase = "forwarded"}
           Next_ == {g \in DOMAIN flights : flights'[g].phase = "forwarded"}
<1>1. InFlight = {CallOf(g).tool : g \in Forwarded}
  BY DEF InFlight
<1>2. InFlight' = {CallOf(g).tool : g \in Next_}
  <2>1. InFlight' = {CallOf(g)'.tool : g \in Next_}
    BY DEF InFlight, Moves
  <2>2. \A g \in Next_ : CallOf(g)' = CallOf(g)
    BY MovesFrame
  <2> QED BY <2>1, <2>2
<1>3. \A g \in DOMAIN flights : g # f => flights'[g] = flights[g]
  BY DEF Moves
<1>4. flights[f].phase = "forwarded" => Forwarded = {f}
  BY DEF IInv, Flown
<1>5. Free => Forwarded = {}
  BY DEF Free
<1>6. (flights'[f].phase = "forwarded" <=> flights[f].phase = "forwarded") => Next_ = Forwarded
  BY <1>3
<1>7. Free /\ flights'[f].phase = "forwarded" => Next_ = {f}
  BY <1>3 DEF Free
<1>8. flights[f].phase = "forwarded" /\ flights'[f].phase # "forwarded" => Next_ = {}
  BY <1>3, <1>4
<1> HIDE DEF Forwarded, Next_
<1> QED BY <1>1, <1>2, <1>4, <1>5, <1>6, <1>7, <1>8

\* A refusal, and what upstream does, change no account.
LEMMA NoChange ==
  ASSUME IInv, Tracked, NEW f \in DOMAIN flights, Refuse(f) \/ Execute(f)
  PROVE  UNCHANGED Adm!vars
<1>1. Moves(f) /\ flights[f].step # 1 /\ session' = session
  BY LaterMoves DEF Refuse, Execute
<1>2. flights'[f].phase = "forwarded" <=> flights[f].phase = "forwarded"
  <2>1. CASE Refuse(f)
    BY <2>1, AnswerMoves DEF Refuse, Arrives
  <2>2. CASE Execute(f)
    BY <2>2, ExecuteMoves
  <2> QED BY <2>1, <2>2
<1>3. InFlight' = InFlight
  BY <1>1, <1>2, InFlightMoves
<1>4. \A g \in Openings : (Made(g)' <=> Made(g)) /\ Account(g)' = Account(g)
  BY <1>1, <1>3, InUse
<1> QED BY <1>4, SessionsKept

\* A function of which one value changes.
LEMMA OneChange ==
  ASSUME NEW S, NEW o \in S, NEW F, NEW G, F = [g \in S |-> F[g]], G = [g \in S |-> G[g]],
         \A g \in S : g # o => G[g] = F[g]
  PROVE  G = [F EXCEPT ![o] = G[o]]
OBVIOUS

\* The accounts when one of them changes.
LEMMA AccountsMove ==
  ASSUME NEW o \in Openings, \A g \in Openings : Made(g)' <=> Made(g), Made(o),
         \A g \in Openings : g # o => Account(g)' = Account(g)
  PROVE  /\ [g \in Openings |-> Account(g)]' =
              [[g \in Openings |-> Account(g)] EXCEPT ![o] = Account(o)']
         /\ [g \in Openings |-> IF Made(g) THEN g ELSE 0]' =
              [g \in Openings |-> IF Made(g) THEN g ELSE 0]
         /\ [g \in Openings |-> IF Made(g) THEN g ELSE 0][o] = o /\ o # 0
         /\ [g \in Openings |-> Account(g)][o] = Account(o)
<1>1. [g \in Openings |-> IF Made(g) THEN g ELSE 0]' =
        [g \in Openings |-> IF Made(g) THEN g ELSE 0]
  BY DEF Openings
<1>2. PICK F : F = [g \in Openings |-> Account(g)]
  OBVIOUS
<1>3. PICK G : G = [g \in Openings |-> Account(g)]'
  OBVIOUS
<1>4. /\ G = [g \in Openings |-> G[g]] /\ G[o] = Account(o)'
      /\ \A g \in Openings : g # o => G[g] = F[g]
  BY <1>2, <1>3 DEF Openings
<1>5. F = [g \in Openings |-> F[g]]
  BY <1>2
<1>6. G = [F EXCEPT ![o] = G[o]]
  BY <1>4, <1>5, OneChange
<1>7. o # 0 /\ [g \in Openings |-> IF Made(g) THEN g ELSE 0][o] = o
  BY DisbursementAssumption DEF Openings
<1>8. [g \in Openings |-> Account(g)][o] = Account(o)
  OBVIOUS
<1> QED BY <1>1, <1>2, <1>3, <1>4, <1>6, <1>7, <1>8

\* Accounts that differ in what is made, spent and due only.
LEMMA ChargedAccount ==
  ASSUME NEW A, NEW B,
         A = [open |-> A.open, made |-> A.made, spent |-> A.spent, limits |-> A.limits,
              max_calls |-> A.max_calls, tools |-> A.tools, due |-> A.due],
         B = [open |-> B.open, made |-> B.made, spent |-> B.spent, limits |-> B.limits,
              max_calls |-> B.max_calls, tools |-> B.tools, due |-> B.due],
         B.open = A.open, B.limits = A.limits, B.max_calls = A.max_calls, B.tools = A.tools
  PROVE  B = [A EXCEPT !.made = B.made, !.spent = B.spent, !.due = B.due]
<1>1. ASSUME NEW open, NEW made, NEW spent, NEW limits, NEW max_calls, NEW tools, NEW due,
             NEW a, a = [open |-> open, made |-> made, spent |-> spent, limits |-> limits,
                         max_calls |-> max_calls, tools |-> tools, due |-> due],
             NEW b, b = [open |-> b.open, made |-> b.made, spent |-> b.spent, limits |-> b.limits,
                         max_calls |-> b.max_calls, tools |-> b.tools, due |-> b.due],
             b.open = a.open, b.limits = a.limits, b.max_calls = a.max_calls, b.tools = a.tools
      PROVE  b = [a EXCEPT !.made = b.made, !.spent = b.spent, !.due = b.due]
  BY <1>1
<1> QED BY <1>1

\* Accounts that differ in what is spent and due only.
LEMMA SettledAccount ==
  ASSUME NEW A, NEW B,
         A = [open |-> A.open, made |-> A.made, spent |-> A.spent, limits |-> A.limits,
              max_calls |-> A.max_calls, tools |-> A.tools, due |-> A.due],
         B = [open |-> B.open, made |-> B.made, spent |-> B.spent, limits |-> B.limits,
              max_calls |-> B.max_calls, tools |-> B.tools, due |-> B.due],
         B.open = A.open, B.made = A.made, B.limits = A.limits, B.max_calls = A.max_calls,
         B.tools = A.tools
  PROVE  B = [A EXCEPT !.spent = B.spent, !.due = B.due]
<1>1. ASSUME NEW open, NEW made, NEW spent, NEW limits, NEW max_calls, NEW tools, NEW due,
             NEW a, a = [open |-> open, made |-> made, spent |-> spent, limits |-> limits,
                         max_calls |-> max_calls, tools |-> tools, due |-> due],
             NEW b, b = [open |-> b.open, made |-> b.made, spent |-> b.spent, limits |-> b.limits,
                         max_calls |-> b.max_calls, tools |-> b.tools, due |-> b.due],
             b.open = a.open, b.made = a.made, b.limits = a.limits, b.max_calls = a.max_calls,
         b.tools = a.tools
      PROVE  b = [a EXCEPT !.spent = b.spent, !.due = b.due]
  BY <1>1
<1> QED BY <1>1

\* Accounts that differ in their scope and ceilings only.
LEMMA AmendedAccount ==
  ASSUME NEW A, NEW B,
         A = [open |-> A.open, made |-> A.made, spent |-> A.spent, limits |-> A.limits,
              max_calls |-> A.max_calls, tools |-> A.tools, due |-> A.due],
         B = [open |-> B.open, made |-> B.made, spent |-> B.spent, limits |-> B.limits,
              max_calls |-> B.max_calls, tools |-> B.tools, due |-> B.due],
         B.open = A.open, B.made = A.made, B.spent = A.spent, B.due = A.due
  PROVE  B = [A EXCEPT !.tools = B.tools, !.max_calls = B.max_calls, !.limits = B.limits]
<1>1. ASSUME NEW open, NEW made, NEW spent, NEW limits, NEW max_calls, NEW tools, NEW due,
             NEW a, a = [open |-> open, made |-> made, spent |-> spent, limits |-> limits,
                         max_calls |-> max_calls, tools |-> tools, due |-> due],
             NEW b, b = [open |-> b.open, made |-> b.made, spent |-> b.spent, limits |-> b.limits,
                         max_calls |-> b.max_calls, tools |-> b.tools, due |-> b.due],
             b.open = a.open, b.made = a.made, b.spent = a.spent, b.due = a.due
      PROVE  b = [a EXCEPT !.tools = b.tools, !.max_calls = b.max_calls, !.limits = b.limits]
  BY <1>1
<1> QED BY <1>1

\* The accounts of two sessions.
LEMMA AccountsOf ==
  ASSUME NEW c, NEW s, NEW t, NEW due, NEW d
  PROVE  \A a, b : a = AccountOf(c, s, due) /\ b = AccountOf(c, t, d) =>
           /\ a = [open |-> a.open, made |-> a.made, spent |-> a.spent, limits |-> a.limits,
                   max_calls |-> a.max_calls, tools |-> a.tools, due |-> a.due]
           /\ b = [open |-> b.open, made |-> b.made, spent |-> b.spent, limits |-> b.limits,
                   max_calls |-> b.max_calls, tools |-> b.tools, due |-> b.due]
           /\ b.open = a.open /\ b.max_calls = a.max_calls /\ b.tools = a.tools
           /\ a.made = s.made /\ a.spent = s.spent /\ a.limits = s.limits /\ a.due = due
           /\ b.made = t.made /\ b.spent = t.spent /\ b.limits = t.limits /\ b.due = d
<1>1. PICK tools : tools = {tool \in Tools : InScope(Call(tool))}
  OBVIOUS
<1>2. TAKE a, b
<1>3. HAVE a = AccountOf(c, s, due) /\ b = AccountOf(c, t, d)
<1>4. /\ a = [open |-> TRUE, made |-> s.made, spent |-> s.spent, limits |-> s.limits,
              max_calls |-> c.max_calls, tools |-> tools, due |-> due]
      /\ b = [open |-> TRUE, made |-> t.made, spent |-> t.spent, limits |-> t.limits,
              max_calls |-> c.max_calls, tools |-> tools, due |-> d]
  BY <1>1, <1>3 DEF AccountOf
<1> QED BY <1>4

\* What a call costs depends on its tool.
LEMMA ByTool ==
  ASSUME NEW call \in CallStep
  PROVE  /\ call.tool \in Tools /\ Estimate(Call(call.tool)) = Estimate(call)
         /\ InScope(Call(call.tool)) <=> InScope(call)
<1>1. Call(call.tool).tool = call.tool
  BY DEF Call
<1>2. call.tool \in Tools
  BY DEF CallStep, Tools
<1> QED BY <1>1, <1>2 DEF Estimate, InScope

\* Forwarding a call is admitting it.
LEMMA ForwardAdmits ==
  ASSUME IInv, Tracked, NEW f \in DOMAIN flights, Forward(f)
  PROVE  Adm!Next
<1>1. /\ Moves(f) /\ flights[f].step # 1 /\ flights'[f].phase = "forwarded" /\ Free
  BY LaterMoves, PhaseMoves DEF Forward, Arrives
<1>2. PICK call \in CallStep : call = CallOf(f)
  <2>1. CallOf(f).op = "call"
    BY DEF Forward, Arrives, CallOf
  <2> QED BY <2>1, CallsOf DEF IInv
<1>3. /\ InScope(call) /\ WithinBudget(call)
      /\ session' = [session EXCEPT !.made = @ + 1, !.spent = Plus(@, Estimate(call))]
  BY <1>2 DEF Forward, CallOf
<1>4. PICK e \in [Meters -> Nat], tool \in Tools :
         /\ e = Estimate(call) /\ tool = call.tool /\ e = Estimate(Call(tool))
            /\ InScope(Call(tool))
  BY <1>2, <1>3, CostsOf, ByTool
<1>5. PICK o \in Openings :
         /\ Made(o) /\ \A g \in Openings : g # o => Account(g)' = Account(g)
         /\ Account(o) = AccountOf(Commitment, session, InFlight)
         /\ Account(o)' = AccountOf(Commitment, session', InFlight')
  BY <1>1, InUse
<1>6. InFlight = {} /\ InFlight' = {tool}
  BY <1>1, <1>2, <1>4, InFlightMoves
<1>7. PICK a, b : a = Account(o) /\ b = Account(o)'
  OBVIOUS
<1>8. /\ a.made = session.made /\ a.spent = session.spent /\ a.limits = session.limits
      /\ a.max_calls = Commitment.max_calls /\ a.due = {} /\ tool \in a.tools
  BY <1>4, <1>5, <1>6, <1>7 DEF AccountOf
<1>9. session' = [made |-> session.made + 1, spent |-> Plus(session.spent, e),
                  limits |-> session.limits]
  BY <1>3, <1>4 DEF IInv, TypeOK
<1>10. Plus(session.spent, e) = Adm!Plus(session.spent, e)
  BY DEF Plus, Adm!Plus
<1>11. b = [a EXCEPT !.made = a.made + 1, !.spent = Adm!Plus(a.spent, e), !.due = {tool}]
  <2>1. a = AccountOf(Commitment, session, InFlight)
        /\ b = AccountOf(Commitment, session', InFlight')
    BY <1>5, <1>7
  <2>2. /\ a = [open |-> a.open, made |-> a.made, spent |-> a.spent, limits |-> a.limits,
                max_calls |-> a.max_calls, tools |-> a.tools, due |-> a.due]
        /\ b = [open |-> b.open, made |-> b.made, spent |-> b.spent, limits |-> b.limits,
                max_calls |-> b.max_calls, tools |-> b.tools, due |-> b.due]
        /\ b.open = a.open /\ b.max_calls = a.max_calls /\ b.tools = a.tools
        /\ b.made = session'.made /\ b.spent = session'.spent /\ b.limits = session'.limits
        /\ a.limits = session.limits /\ b.due = InFlight'
    BY <2>1, AccountsOf
  <2>3. b.limits = a.limits
    BY <1>9, <2>2
  <2>4. b = [a EXCEPT !.made = b.made, !.spent = b.spent, !.due = b.due]
    BY <2>2, <2>3, ChargedAccount
  <2>5. b.made = a.made + 1 /\ b.spent = Adm!Plus(a.spent, e) /\ b.due = {tool}
    BY <1>6, <1>8, <1>9, <1>10, <2>2
  <2> QED BY <2>4, <2>5
<1>12. Adm!CallsLeft(a)
  BY <1>3, <1>8 DEF Adm!CallsLeft, WithinBudget
<1>13. Adm!Fits(a, e)
  BY <1>3, <1>4, <1>8 DEF Adm!Fits, WithinBudget, Plus
<1>14. e \in [t \in Tools |-> {Estimate(Call(t))}][tool]
  BY <1>4
<1>15. \A g \in Openings : Made(g)' <=> Made(g)
  BY <1>1, InUse
<1> DEFINE accounts == [g \in Openings |-> Account(g)]
           ids == [g \in Openings |-> IF Made(g) THEN g ELSE 0]
<1>16. /\ accounts' = [accounts EXCEPT ![o] = b] /\ accounts[o] = a /\ ids' = ids /\ ids[o] = o
          /\ o # 0
  BY <1>5, <1>7, <1>15, AccountsMove
<1> HIDE DEF accounts, ids
<1>17. /\ accounts[ids[o]] = a /\ accounts' = [accounts EXCEPT ![ids[o]] = b] /\ ids[o] # 0
  BY <1>16
<1>18. accounts' = [accounts EXCEPT ![ids[o]] =
          [a EXCEPT !.made = a.made + 1, !.spent = Adm!Plus(a.spent, e), !.due = {tool}]]
  BY <1>11, <1>17
<1>19. Adm!Admit(o, tool)
  BY <1>8, <1>12, <1>13, <1>14, <1>16, <1>17, <1>18, Zenon DEF Adm!Admit, accounts, ids
<1> QED BY <1>19 DEF Adm!Next

\* The end of a call is the settlement of what it was admitted for.
LEMMA Settles ==
  ASSUME IInv, Tracked, NEW f \in DOMAIN flights, Moves(f), flights[f].step # 1,
         flights[f].phase = "forwarded", flights'[f].phase # "forwarded",
         NEW call \in CallStep, call = CallOf(f),
         NEW amounts \in CorrectionsOn(call.tool) \cup {[m \in Meters |-> 0]},
         session'.made = session.made, session'.limits = session.limits,
         session'.spent = Adm!Plus(session.spent, amounts)
  PROVE  Adm!Next
<1>1. PICK o \in Openings :
         /\ Made(o) /\ \A g \in Openings : g # o => Account(g)' = Account(g)
         /\ Account(o) = AccountOf(Commitment, session, InFlight)
         /\ Account(o)' = AccountOf(Commitment, session', InFlight')
  BY InUse
<1>2. PICK tool \in Tools : tool = call.tool
  BY ByTool
<1>3. InFlight = {tool} /\ InFlight' = {}
  BY <1>2, InFlightMoves
<1>4. PICK a, b : a = Account(o) /\ b = Account(o)'
  OBVIOUS
<1>5. a.spent = session.spent /\ a.due = {tool}
  BY <1>1, <1>3, <1>4 DEF AccountOf
<1>6. b = [a EXCEPT !.spent = Adm!Plus(a.spent, amounts), !.due = {}]
  <2>1. a = AccountOf(Commitment, session, InFlight)
        /\ b = AccountOf(Commitment, session', InFlight')
    BY <1>1, <1>4
  <2>2. /\ a = [open |-> a.open, made |-> a.made, spent |-> a.spent, limits |-> a.limits,
                max_calls |-> a.max_calls, tools |-> a.tools, due |-> a.due]
        /\ b = [open |-> b.open, made |-> b.made, spent |-> b.spent, limits |-> b.limits,
                max_calls |-> b.max_calls, tools |-> b.tools, due |-> b.due]
        /\ b.open = a.open /\ b.max_calls = a.max_calls /\ b.tools = a.tools
        /\ b.made = session'.made /\ b.spent = session'.spent /\ b.limits = session'.limits
        /\ a.made = session.made /\ a.limits = session.limits /\ b.due = InFlight'
    BY <2>1, AccountsOf
  <2>3. b.limits = a.limits /\ b.made = a.made
    BY <2>2
  <2>4. b = [a EXCEPT !.spent = b.spent, !.due = b.due]
    BY <2>2, <2>3, SettledAccount
  <2>5. b.spent = Adm!Plus(a.spent, amounts) /\ b.due = {}
    BY <1>3, <1>5, <2>2
  <2> QED BY <2>4, <2>5
<1>7. amounts \in [t \in Tools |-> CorrectionsOn(t)][tool] \cup {[m \in Meters |-> 0]}
  BY <1>2
<1>8. \A g \in Openings : Made(g)' <=> Made(g)
  BY InUse
<1> DEFINE accounts == [g \in Openings |-> Account(g)]
           ids == [g \in Openings |-> IF Made(g) THEN g ELSE 0]
<1>9. /\ accounts' = [accounts EXCEPT ![o] = b] /\ accounts[o] = a /\ ids' = ids /\ ids[o] = o
         /\ o # 0
  BY <1>1, <1>4, <1>8, AccountsMove
<1> HIDE DEF accounts, ids
<1>10. accounts[ids[o]] = a /\ ids[o] # 0 /\ tool \in a.due
  BY <1>5, <1>9
<1>11. accounts' = [accounts EXCEPT ![ids[o]] =
          [a EXCEPT !.spent = Adm!Plus(a.spent, amounts), !.due = {}]]
  BY <1>6, <1>9
<1>12. Adm!Settle(o, tool)
  BY <1>7, <1>9, <1>10, <1>11, Zenon DEF Adm!Settle, accounts, ids
<1> QED BY <1>12 DEF Adm!Next

\* Given up, the charge stands.
LEMMA DropSettles ==
  ASSUME IInv, Tracked, NEW f \in DOMAIN flights, Drop(f)
  PROVE  Adm!Next
<1>1. /\ Moves(f) /\ flights[f].step # 1 /\ flights[f].phase = "forwarded"
      /\ flights'[f].phase = "dropped" /\ session' = session
  BY LaterMoves, PhaseMoves DEF Drop
<1>2. PICK call \in CallStep : call = CallOf(f)
  BY <1>1, CallsOf DEF IInv, Flown
<1>3. PICK amounts : amounts = [m \in Meters |-> 0]
  OBVIOUS
<1>4. session'.spent = Adm!Plus(session.spent, amounts)
  <2>1. session.spent \in [Meters -> Nat]
    BY DEF IInv, TypeOK
  <2>2. \A m \in Meters : session.spent[m] + amounts[m] = session.spent[m]
    BY <1>3, <2>1
  <2>3. session.spent = [m \in Meters |-> session.spent[m] + amounts[m]]
    BY <2>1, <2>2
  <2> QED BY <1>1, <2>3 DEF Adm!Plus
<1>5. amounts \in CorrectionsOn(call.tool) \cup {[m \in Meters |-> 0]}
  BY <1>3
<1> QED BY <1>1, <1>2, <1>4, <1>5, Settles

\* Answered, it is corrected to what the tool reports.
LEMMA ReturnSettles ==
  ASSUME IInv, Tracked, NEW f \in DOMAIN flights, Return(f)
  PROVE  Adm!Next
<1>1. /\ Moves(f) /\ flights[f].step # 1 /\ flights[f].phase = "forwarded"
      /\ flights'[f].phase = "answered"
  BY LaterMoves, AnswerMoves DEF Return
<1>2. PICK call \in CallStep : call = CallOf(f)
  BY <1>1, CallsOf DEF IInv, Flown
<1>3. PICK e \in [Meters -> Nat], r \in [Meters -> Nat] : e = Estimate(call) /\ r = Report(call)
  BY CostsOf
<1>4. PICK amounts : amounts = [m \in Meters |-> r[m] - e[m]]
  OBVIOUS
<1>5. amounts = Correction(call)
  BY <1>3, <1>4 DEF Correction
<1>6. amounts \in CorrectionsOn(call.tool)
  <2>1. flights[f].step \in 2..Len(Steps) /\ Len(Steps) = Len(Workflows[workflow].steps) + 1
    <3>1. flights[f].step \in 1..Len(Steps) /\ Len(Steps) \in Nat
      BY StepsOf DEF IInv, TypeOK
    <3>2. Workflows[workflow].steps \in Seq(CallStep \cup AmendStep)
      BY ScriptSteps DEF IInv, TypeOK
    <3> QED BY <1>1, <3>1, <3>2 DEF Steps
  <2>2. call = Workflows[workflow].steps[flights[f].step - 1]
    BY <1>2, <2>1, ScriptSteps DEF CallOf, Steps, IInv, TypeOK
  <2>3. call \in Range(Workflows[workflow].steps)
    <3>1. Workflows[workflow].steps \in Seq(CallStep \cup AmendStep)
      BY ScriptSteps DEF IInv, TypeOK
    <3> QED BY <2>1, <2>2, <3>1 DEF Range
  <2>4. call \in Asked
    BY <2>3 DEF Asked, IInv, TypeOK
  <2>5. call.op = "call"
    BY DEF CallStep
  <2> QED BY <1>5, <2>4, <2>5 DEF CorrectionsOn
<1>7. /\ session'.made = session.made /\ session'.limits = session.limits
      /\ session'.spent = Adm!Plus(session.spent, amounts)
  <2>1. session' = [session EXCEPT !.spent = Reconciled(@, call)]
    BY <1>2 DEF Return, CallOf
  <2>2. session' = [made |-> session.made, limits |-> session.limits,
                    spent |-> Reconciled(session.spent, call)]
    BY <2>1 DEF IInv, TypeOK
  <2>3. Reconciled(session.spent, call) = [m \in Meters |-> session.spent[m] + r[m] - e[m]]
    BY <1>3 DEF Reconciled
  <2>4. \A m \in Meters : session.spent[m] + r[m] - e[m] = session.spent[m] + amounts[m]
    <3>1. \A m \in Meters : session.spent[m] \in Nat /\ r[m] \in Nat /\ e[m] \in Nat
      BY DEF IInv, TypeOK
    <3> QED BY <1>4, <3>1
  <2>5. Reconciled(session.spent, call) = [m \in Meters |-> session.spent[m] + amounts[m]]
    BY <2>3, <2>4
  <2> QED BY <2>2, <2>5 DEF Adm!Plus
<1> QED BY <1>1, <1>2, <1>6, <1>7, Settles

\* An amendment is one.
LEMMA AmendAmends ==
  ASSUME IInv, Tracked, NEW f \in DOMAIN flights, Amend(f)
  PROVE  Adm!Next
<1>1. /\ Moves(f) /\ flights[f].step # 1 /\ flights'[f].phase = "answered"
         /\ flights[f].phase = "sent"
  BY LaterMoves, AnswerMoves DEF Amend, Arrives
<1>2. PICK amount \in Nat : amount = CallOf(f).amount
  <2>1. CallOf(f) \in AmendStep
    BY CallsOf DEF IInv, Amend, Arrives, CallOf
  <2> QED BY <2>1 DEF AmendStep
<1>3. PICK raised : raised = Plus(session.limits, Amounts(0, 0, amount))
  OBVIOUS
<1>4. session' = [made |-> session.made, spent |-> session.spent, limits |-> raised]
  <2>1. session' = [session EXCEPT !.limits = Plus(@, Amounts(0, 0, amount))]
    BY <1>2 DEF Amend, CallOf
  <2> QED BY <1>3, <2>1 DEF IInv, TypeOK
<1>5. \A m \in Meters : raised[m] >= session.limits[m]
  <2>1. \A m \in Meters : Amounts(0, 0, amount)[m] \in Nat /\ session.limits[m] \in Nat
    BY DEF Amounts, Meters, IInv, TypeOK
  <2> QED BY <1>3, <2>1 DEF Plus
<1>6. PICK o \in Openings :
         /\ Made(o) /\ \A g \in Openings : g # o => Account(g)' = Account(g)
         /\ Account(o) = AccountOf(Commitment, session, InFlight)
         /\ Account(o)' = AccountOf(Commitment, session', InFlight')
  BY <1>1, InUse
<1>7. InFlight' = InFlight
  BY <1>1, InFlightMoves
<1>8. PICK a, b : a = Account(o) /\ b = Account(o)'
  OBVIOUS
<1>9. a.limits = session.limits /\ b.limits = raised /\ b.tools = a.tools
      /\ b.max_calls = a.max_calls
      /\ a.max_calls = 25
  <2>1. Commitment.max_calls = 25
    BY Script DEF IInv, TypeOK
  <2> QED BY <1>4, <1>6, <1>8, <2>1 DEF AccountOf
<1>10. b = [a EXCEPT !.tools = b.tools, !.max_calls = b.max_calls, !.limits = b.limits]
  <2>1. a = AccountOf(Commitment, session, InFlight)
        /\ b = AccountOf(Commitment, session', InFlight)
    BY <1>6, <1>7, <1>8
  <2>2. /\ a = [open |-> a.open, made |-> a.made, spent |-> a.spent, limits |-> a.limits,
                max_calls |-> a.max_calls, tools |-> a.tools, due |-> a.due]
        /\ b = [open |-> b.open, made |-> b.made, spent |-> b.spent, limits |-> b.limits,
                max_calls |-> b.max_calls, tools |-> b.tools, due |-> b.due]
        /\ b.open = a.open /\ b.max_calls = a.max_calls /\ b.tools = a.tools
        /\ b.made = session'.made /\ b.spent = session'.spent /\ b.due = a.due
        /\ a.made = session.made /\ a.spent = session.spent
    BY <2>1, AccountsOf
  <2>3. b.spent = a.spent /\ b.made = a.made
    BY <1>4, <2>2
  <2> QED BY <2>2, <2>3, AmendedAccount
<1>11. /\ IF a.max_calls = -1 THEN b.max_calls = -1 ELSE b.max_calls >= a.max_calls
       /\ \A m \in Meters : a.limits[m] # -1 => b.limits[m] >= a.limits[m]
  BY <1>5, <1>9
<1>12. \A g \in Openings : Made(g)' <=> Made(g)
  BY <1>1, InUse
<1> DEFINE accounts == [g \in Openings |-> Account(g)]
           ids == [g \in Openings |-> IF Made(g) THEN g ELSE 0]
<1>13. /\ accounts' = [accounts EXCEPT ![o] = b] /\ accounts[o] = a /\ ids' = ids /\ ids[o] = o
          /\ o # 0
  BY <1>6, <1>8, <1>12, AccountsMove
<1>14. accounts'[o] = b
  BY <1>8 DEF Openings
<1> HIDE DEF accounts, ids
<1>15. /\ accounts[ids[o]] = a /\ ids[o] # 0 /\ accounts'[ids[o]] = b
       /\ accounts' = [accounts EXCEPT ![ids[o]] = b]
  BY <1>13, <1>14
<1>16. Adm!Amend(o)
  BY <1>10, <1>11, <1>13, <1>15, Zenon DEF Adm!Amend, accounts, ids
<1> QED BY <1>16 DEF Adm!Next

\* An attempt at opening that is answered opens an account.
LEMMA OpenOpens ==
  ASSUME IInv, Tracked, NEW f \in DOMAIN flights, Open(f)
  PROVE  Adm!Next
<1>1. /\ Moves(f) /\ flights[f].step = 1 /\ ~Made(f) /\ Made(f)'
      /\ f # Awaited => Unused(f)
      /\ flights[f].phase = "sent" /\ flights'[f].phase = "answered" /\ Free
      /\ session' = IF f = Awaited THEN Opened ELSE session
  BY TrackedOpen, AnswerMoves DEF Open, Arrives
<1>2. /\ Opened' = Opened /\ Commitment' = Commitment
      /\ \A g : Unused(g)' <=> Unused(g)
      /\ \A g : g # f => (Made(g)' <=> Made(g))
  BY <1>1, MovesFrame
<1>3. f \in Openings
  <2>1. f \in Nat \ {0} /\ faults \in 0..MaxFaults /\ MaxFaults \in Nat
    BY DisbursementAssumption DEF IInv, TypeOK, Tracked
  <2>2. f <= faults + 1
    BY <1>1 DEF Tracked
  <2> QED BY <2>1, <2>2 DEF Openings
<1>4. InFlight = {} /\ InFlight' = {}
  BY <1>1, InFlightMoves
<1>5. \A g \in DOMAIN flights : g # Awaited => Awaited > g
  BY DEF Awaited, IInv, TypeOK
<1>6. Account(f)' = AccountOf(Commitment, Opened, {})
  <2>1. CASE f = Awaited
    <3>1. ~Unused(f)'
      BY <1>2, <1>5, <2>1 DEF Unused, Awaited, IInv, TypeOK
    <3> QED BY <1>1, <1>2, <1>4, <2>1, <3>1, AccountWillBe
  <2>2. CASE f # Awaited
    BY <1>1, <1>2, <2>2, AccountWillBe
  <2> QED BY <2>1, <2>2
<1>7. ASSUME NEW g \in Openings, g # f
      PROVE  Account(g)' = Account(g)
  <2>1. CASE ~Made(g)
    BY <1>2, <1>7, <2>1, AccountIs, AccountWillBe
  <2>2. CASE Made(g) /\ Unused(g)
    BY <1>2, <1>7, <2>2, AccountIs, AccountWillBe
  <2>3. CASE Made(g) /\ ~Unused(g)
    <3>1. f # Awaited
      BY <1>1, <1>5, <1>7, <2>3 DEF Made, Unused
    <3> QED BY <1>1, <1>2, <1>4, <1>7, <2>3, <3>1, AccountIs, AccountWillBe
  <2> QED BY <2>1, <2>2, <2>3
<1>8. PICK b : b = Account(f)'
  OBVIOUS
<1>9. b.open /\ b.made = 0 /\ b.due = {} /\ b.spent = [m \in Meters |-> 0]
  <2>1. b = AccountOf(Commitment, Opened, {})
    BY <1>6, <1>8
  <2>2. b.open /\ b.made = Opened.made /\ b.due = {} /\ b.spent = Opened.spent
    BY <2>1 DEF AccountOf
  <2>3. Opened.made = 0 /\ Opened.spent = Amounts(0, 0, 0)
    BY DEF Opened, NoSession
  <2>4. Amounts(0, 0, 0) = [m \in Meters |-> 0]
    BY DEF Amounts, Meters
  <2> QED BY <2>2, <2>3, <2>4
<1>10. Account(f).open = FALSE
  BY <1>1, AccountIs
<1> DEFINE accounts == [g \in Openings |-> Account(g)]
           ids == [g \in Openings |-> IF Made(g) THEN g ELSE 0]
<1>11. accounts' = [accounts EXCEPT ![f] = b] /\ accounts[f] = Account(f)
  <2>1. PICK F, G : F = accounts /\ G = accounts'
    OBVIOUS
  <2>2. F = [g \in Openings |-> F[g]] /\ G = [g \in Openings |-> G[g]] /\ G[f] = b
    BY <1>3, <1>8, <2>1 DEF Openings
  <2>3. \A g \in Openings : g # f => G[g] = F[g]
    BY <1>7, <2>1 DEF Openings
  <2>4. G = [F EXCEPT ![f] = G[f]]
    BY <1>3, <2>2, <2>3, OneChange
  <2> QED BY <1>3, <2>1, <2>2, <2>4
<1>12. ids' = [ids EXCEPT ![f] = f]
  <2>1. PICK F, G : F = ids /\ G = ids'
    OBVIOUS
  <2>2. F = [g \in Openings |-> F[g]] /\ G = [g \in Openings |-> G[g]] /\ G[f] = f
    BY <1>1, <1>3, <2>1 DEF Openings
  <2>3. \A g \in Openings : g # f => G[g] = F[g]
    BY <1>2, <2>1 DEF Openings
  <2>4. G = [F EXCEPT ![f] = G[f]]
    BY <1>3, <2>2, <2>3, OneChange
  <2> QED BY <2>1, <2>2, <2>4
<1>13. accounts'[f] = b
  BY <1>3, <1>8 DEF Openings
<1> HIDE DEF accounts, ids
<1>14. /\ ~accounts[f].open /\ accounts' = [accounts EXCEPT ![f] = accounts'[f]]
       /\ accounts'[f].open /\ accounts'[f].made = 0 /\ accounts'[f].due = {}
       /\ accounts'[f].spent = [m \in Meters |-> 0]
  BY <1>9, <1>10, <1>11, <1>13
<1>15. Adm!Open(f, f)
  BY <1>12, <1>14, Zenon DEF Adm!Open, accounts, ids
<1> QED BY <1>3, <1>15 DEF Adm!Next

\* A request that is sent changes no account: when it is one more attempt at opening, the
\* session that it leaves unused is as it was opened.
LEMMA SendKeeps ==
  ASSUME IInv, Tracked, NEW s \in agent.step..Len(Steps), flights' = Append(flights, Flight(s)),
         agent'.step = s, UNCHANGED <<workflow, session, faults>>, agent'.state = "waiting",
         s = agent.step => agent.state = "broken",
         s # agent.step => flights[Awaited].phase = "answered"
  PROVE  UNCHANGED Adm!vars
<1>1. /\ DOMAIN flights' = DOMAIN flights \cup {Len(flights) + 1}
      /\ Flight(s).phase = "sent" /\ flights'[Len(flights) + 1] = Flight(s)
      /\ \A g \in DOMAIN flights : flights'[g] = flights[g]
      /\ \A g : Made(g)' <=> Made(g)
      /\ \A g \in DOMAIN flights : Unused(g)' <=> Unused(g) \/ s = 1
  BY TrackedSends
<1>2. /\ Steps' = Steps /\ Opened' = Opened /\ Commitment' = Commitment
  BY DEF Steps, Opened, Commitment, NoSession, Amounts
<1>3. InFlight' = InFlight
  <2>1. \A g \in DOMAIN flights : CallOf(g)' = CallOf(g)
    BY <1>1, <1>2 DEF CallOf
  <2>2. PICK F : F = {g \in DOMAIN flights : flights[g].phase = "forwarded"}
    OBVIOUS
  <2>3. PICK G : G = {g \in DOMAIN flights' : flights'[g].phase = "forwarded"}
    OBVIOUS
  <2>4. G = F
    BY <1>1, <2>2, <2>3
  <2>5. InFlight' = {CallOf(g)'.tool : g \in G}
    BY <2>3 DEF InFlight
  <2>6. InFlight' = {CallOf(g).tool : g \in F}
    BY <2>1, <2>2, <2>4, <2>5
  <2> QED BY <2>2, <2>6 DEF InFlight
<1>4. ASSUME NEW g \in Openings
      PROVE  (Made(g)' <=> Made(g)) /\ Account(g)' = Account(g)
  <2>1. CASE ~Made(g)
    BY <1>1, <2>1, AccountIs, AccountWillBe
  <2>2. CASE Made(g) /\ (Unused(g) \/ s # 1)
    <3>1. g \in DOMAIN flights
      BY <2>2 DEF Made
    <3>2. Unused(g)' <=> Unused(g)
      BY <1>1, <2>2, <3>1
    <3> QED BY <1>1, <1>2, <1>3, <2>2, <3>2, AccountIs, AccountWillBe
  <2>3. CASE Made(g) /\ ~Unused(g) /\ s = 1
    <3>1. g \in DOMAIN flights /\ flights[g].phase = "answered" /\ agent.step = 1
      BY <2>3 DEF Made, IInv, TypeOK, AgentType
    <3>2. \A h \in DOMAIN flights : flights[h].step = 1
      BY <3>1 DEF IInv, TypeOK
    <3>3. g = Awaited
      <4>1. Awaited \in DOMAIN flights /\ g \in 1..Awaited /\ Awaited \in Nat
        BY <3>1 DEF Awaited, IInv, TypeOK
      <4> QED BY <2>3, <3>2, <4>1 DEF Unused
    <3>4. session = Opened
      BY <3>1, <3>3 DEF Tracked
    <3>5. InFlight = {}
      <4>1. \A h \in DOMAIN flights : CallOf(h).op = "open"
        BY <3>2, CallsOf DEF IInv
      <4>2. \A h \in DOMAIN flights : flights[h].phase # "forwarded"
        BY <4>1 DEF IInv, Flown
      <4> QED BY <4>2 DEF InFlight
    <3>6. Unused(g)' /\ Made(g)'
      BY <1>1, <2>3, <3>1
    <3> QED BY <1>2, <2>3, <3>4, <3>5, <3>6, AccountIs, AccountWillBe
  <2> QED BY <2>1, <2>2, <2>3
<1> QED BY <1>4, SessionsKept

\* Nor does what the agent does alone.
LEMMA AloneKeeps ==
  ASSUME UNCHANGED <<workflow, flights, session>>
  PROVE  UNCHANGED Adm!vars
<1>1. /\ Opened' = Opened /\ Commitment' = Commitment /\ InFlight' = InFlight
      /\ \A g : (Made(g)' <=> Made(g)) /\ (Unused(g)' <=> Unused(g))
  <2>1. /\ Opened' = Opened /\ Commitment' = Commitment /\ Steps' = Steps
    BY DEF Opened, NoSession, Amounts, Commitment, Steps
  <2>2. \A g : CallOf(g)' = CallOf(g)
    BY <2>1 DEF CallOf
  <2>3. PICK F : F = {g \in DOMAIN flights : flights[g].phase = "forwarded"}
    OBVIOUS
  <2>4. InFlight' = {CallOf(g)'.tool : g \in F}
    BY <2>3 DEF InFlight
  <2>5. InFlight' = {CallOf(g).tool : g \in F}
    BY <2>2, <2>4
  <2>6. InFlight' = InFlight
    BY <2>3, <2>5 DEF InFlight
  <2> QED BY <2>1, <2>6 DEF Made, Unused
<1>2. \A g \in Openings : (Made(g)' <=> Made(g)) /\ Account(g)' = Account(g)
  BY <1>1, AccountIs, AccountWillBe
<1> QED BY <1>2, SessionsKept

\* No session was made.
LEMMA InitAdmission ==
  ASSUME Init
  PROVE  Adm!Init
<1>1. \A g : ~Made(g)
  <2>1. flights = <<Flight(1)>> /\ Flight(1).phase = "sent"
    BY DEF Init, Flight
  <2> QED BY <2>1 DEF Made
<1>2. \A g \in Openings : Account(g) = [open |-> FALSE]
  BY <1>1, AccountIs
<1>3. [g \in Openings |-> IF Made(g) THEN g ELSE 0] = [g \in Openings |-> 0]
  BY <1>1
<1>4. \A a \in Openings : ~[g \in Openings |-> Account(g)][a].open
  BY <1>2
<1> QED BY <1>3, <1>4 DEF Adm!Init

\* Each step is one of Admission, or none.
LEMMA NextAdmission ==
  ASSUME IInv, Tracked, [Next]_vars
  PROVE  [Adm!Next]_Adm!vars
<1>1. agent \in AgentType /\ agent.step \in 1..Len(Steps) /\ Len(Steps) \in Nat
  BY StepsOf DEF IInv, TypeOK
<1>2. CASE UNCHANGED vars
  BY <1>2, AloneKeeps DEF vars
<1>3. CASE LosesTouch \/ Raise
  BY <1>3, AloneKeeps DEF LosesTouch, Raise
<1>4. CASE Retry
  <2>1. agent'.step = agent.step /\ agent'.state = "waiting"
        /\ agent.step \in agent.step..Len(Steps)
    BY <1>1, <1>4 DEF Retry, AgentType
  <2> QED BY <1>4, <2>1, SendKeeps DEF Retry
<1>5. CASE TakeVerdict
  <2>1. CASE agent.step = Len(Steps)
    <3>1. UNCHANGED <<workflow, flights, session>>
      BY <1>5, <2>1 DEF TakeVerdict
    <3> QED BY <3>1, AloneKeeps
  <2>2. CASE agent.step # Len(Steps)
    <3>1. /\ agent'.step = agent.step + 1 /\ agent'.state = "waiting"
          /\ flights' = Append(flights, Flight(agent.step + 1))
          /\ UNCHANGED <<workflow, session, faults>> /\ flights[Awaited].phase = "answered"
      BY <1>5, <2>2 DEF TakeVerdict
    <3>2. agent.step + 1 \in agent.step..Len(Steps) /\ agent.step + 1 # agent.step
      BY <1>1, <2>2
    <3> QED BY <3>1, <3>2, SendKeeps
  <2> QED BY <2>1, <2>2
<1>6. ASSUME NEW f \in DOMAIN flights, Dispatch(f) \/ Drop(f) \/ Execute(f)
      PROVE  Adm!Next \/ UNCHANGED Adm!vars
  <2>1. CASE Open(f)
    BY <2>1, OpenOpens
  <2>2. CASE Amend(f)
    BY <2>2, AmendAmends
  <2>3. CASE Refuse(f) \/ Execute(f)
    BY <2>3, NoChange
  <2>4. CASE Forward(f)
    BY <2>4, ForwardAdmits
  <2>5. CASE Return(f)
    BY <2>5, ReturnSettles
  <2>6. CASE Drop(f)
    BY <2>6, DropSettles
  <2> QED BY <1>6, <2>1, <2>2, <2>3, <2>4, <2>5, <2>6 DEF Dispatch
<1> QED BY <1>2, <1>3, <1>4, <1>5, <1>6 DEF Next, RunWorkflow

-----------------------------------------------------------------------------
(* Theorems *)

\* The inductive invariant.
THEOREM IInvHolds == Spec => []IInv
<1>1. Init => IInv
  BY InitIInv
<1>2. IInv /\ [Next]_vars => IInv'
  BY NextIInv
<1> QED BY <1>1, <1>2, PTL DEF Spec

\* Whatever is lost, late or repeated, each meter of the session has for every admitted
\* call what its tool reported, or the estimate if the report never came, and nothing else
\* (verify_call, reconcile_cost).
THEOREM MetersAreTrue == Spec => []MetersTrue
<1>1. IInv => MetersTrue
  BY DEF IInv
<1> QED BY <1>1, IInvHolds, PTL

\* Refunds that upstream has made and the proxy has not given up are over the limit by one
\* refund within the cap at most (_check_budget, PolicyRule.check, reconcile_cost).
THEOREM MoneyIsBounded == Spec => []MoneyBounded
<1>1. IInv => MoneyBounded
  BY MoneyOfIInv
<1> QED BY <1>1, IInvHolds, PTL

\* Drift and refunds above the cap never reach upstream, however often they are repeated
\* (_check_scope, PolicyRule.check).
THEOREM RefusedNeverRun == Spec => []RefusedNeverRuns
<1>1. IInv => RefusedNeverRuns
  <2>1. ASSUME IInv, NEW f \in DOMAIN flights, flights[f].ran
        PROVE  CallOf(f).tool \notin ToolsDeny /\ CallOf(f).amount <= RefundCap
    <3>1. CallOf(f).op = "call" /\ InScope(CallOf(f)) /\ Permitted(CallOf(f))
      BY <2>1 DEF IInv, Flown
    <3>2. CallOf(f) \in CallStep
      BY <2>1, <3>1, CallsOf DEF IInv
    <3> QED BY <3>1, <3>2, CostsOf DEF InScope
  <2> QED BY <2>1 DEF RefusedNeverRuns
<1> QED BY <1>1, IInvHolds, PTL

\* An attempt at opening is made for every fault at the most, and one more; the session the
\* agent has is that of the last.
THEOREM TrackedHolds == Spec => []Tracked
<1>1. Init => Tracked
  BY InitTracked
<1>2. IInv /\ Tracked /\ [Next]_vars => Tracked'
  BY NextTracked
<1> QED BY <1>1, <1>2, IInvHolds, PTL DEF Spec

\* If nothing fails the agent is told the verdicts that the workflows' comments say they
\* are there to show (WORKFLOWS, run_workflow).
THEOREM WorkflowsShow == Spec => []ShowsWhatItShould
<1>1. Init => OnCourse
  BY InitCourse
<1>2. IInv /\ Tracked /\ OnCourse /\ [Next]_vars => OnCourse'
  BY NextCourse DEF Tracked
<1>3. IInv /\ OnCourse => ShowsWhatItShould
  BY OnCourseShows
<1> QED BY <1>1, <1>2, <1>3, IInvHolds, TrackedHolds, PTL DEF Spec

\* Requests may be repeated and answers lost, yet each session is an account that admits
\* calls one at a time within its scope and ceilings and settles each at most once, for
\* what the tool reports (verify_call, reconcile_cost, amend).
THEOREM SessionsAdmit == Spec => SessionAdmits
<1>1. Init => Adm!Init
  BY InitAdmission
<1>2. IInv /\ Tracked /\ [Next]_vars => [Adm!Next]_Adm!vars
  BY NextAdmission
<1> QED BY <1>1, <1>2, IInvHolds, TrackedHolds, PTL DEF Spec, SessionAdmits, Adm!Spec

=============================================================================
