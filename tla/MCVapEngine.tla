----------------------------- MODULE MCVapEngine -----------------------------
(***************************************************************************)
(* The instance of VapEngine that TLC checks: one refund tool that reports *)
(* more than its estimate, the delete tool S2 looks for, two meters, and   *)
(* the commitments and amendments each kind of handling needs.             *)
(***************************************************************************)
EXTENDS VapEngineProperties, TLC

MCTools == {"refund", "delete"}
MCPatterns == {"refund", "*"}
MCCovers == [p \in MCPatterns |-> IF p = "*" THEN MCTools ELSE {"refund"}]
MCGoals == {"empty", "deletion", "refunds"}
MCPlans == {"plan"}
MCMeters == {"tokens", "usd"}
Amounts(usd, tokens) == [m \in MCMeters |-> IF m = "usd" THEN usd ELSE tokens]
MCEstimate == [tool \in MCTools |-> Amounts(1, IF tool = "refund" THEN 0 ELSE None)]
MCReports == [tool \in MCTools |-> IF tool = "refund" THEN {Amounts(2, None)} ELSE {}]
MCJudgeTokens == {0, 1}
NoLimits == Amounts(None, None)

\* A commitment to refunds, capped on calls and meters.
Capped == [goal |-> "refunds", plan |-> Null,
           terms |-> [tools_allow |-> {"refund"}, tools_deny |-> {},
                      max_calls |-> 2, deadline |-> "none", limits |-> Amounts(3, 1)]]
\* One with a plan digest and a deadline, its ceilings left to the operator.
Planned == [Capped EXCEPT !.plan = "plan", !.terms.max_calls = None,
                          !.terms.deadline = "ahead", !.terms.limits = NoLimits]
\* Everything but deletion, for a goal that justifies it.
Broad == [Capped EXCEPT !.goal = "deletion", !.terms.tools_allow = {"*"}]
\* Scope out of proportion to the goal.
Excessive == [Capped EXCEPT !.terms.tools_allow = {"*"}]

MoreBudget == [signed |-> TRUE, tools_allow |-> {}, tools_deny |-> {}, add_calls |-> 1,
               extend_deadline |-> "ahead", add_limits |-> Amounts(1, None)]
\* A signed amendment that S2 sends back.
MoreScope == [MoreBudget EXCEPT !.tools_allow = {"*"}, !.extend_deadline = "keep"]
Narrowing == [MoreBudget EXCEPT !.tools_deny = {"refund"}, !.add_limits = NoLimits]
Unsigned == [MoreBudget EXCEPT !.signed = FALSE]

SerialCommitments == {Capped, Planned, Excessive}
ThreadedCommitments == {Capped}
TightCommitment == {[Capped EXCEPT !.terms.max_calls = 1]}
AllAmendments == {MoreBudget, MoreScope, Narrowing, Unsigned}
OneAmendment == {MoreBudget}
NoAmendment == {}

Uncapped == NoLimits
Handlers == Permutations(Threads)
=============================================================================
