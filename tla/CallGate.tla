------------------------------- MODULE CallGate -------------------------------
(***************************************************************************)
(* The gate a call passes after scope, for one accepted session served one *)
(* request at a time: budget (C3), the operator's argument rules (C4), the *)
(* risk score and the judge with its cache (C5), and what a served call    *)
(* leaves for the next score.                                              *)
(*                                                                         *)
(* Scores are in units of 1/10000, confidences in percent, money in cents. *)
(***************************************************************************)
EXTENDS Naturals, Sequences, FiniteSets, FiniteSetsExt

CONSTANTS
  Calls,          \* the calls an agent may make, see Call
  Effect,         \* tool -> effect class (tool_meta); "read" when absent there
  Estimate,       \* tool -> configured usd_opcost
  Charges,        \* tool -> the amounts the result may bring the charge to
  MaxCost, MaxCalls,   \* the session's ceilings
  Rules,          \* the operator's rules (policy_rules), see Rule
  InvokeAt,       \* threshold of the score
  Sampling,       \* outcomes of the random sample: {FALSE}, or BOOLEAN at a positive rate
  Judge,          \* "mock" or "llm"
  FailOpen,       \* VAP_LLM_FAILOPEN
  GoalDeletes,    \* the goal speaks of deletion, for the mock judge
  MaxDecisions,   \* bound on the decisions of a behaviour
  Null

Sensitivities ==
  {"reads", "writes_data", "writes_money", "deletes", "sends_external", "grants_access", "none"}

\* The amount is a number, a text, or absent; whether rationale and expected_effect cite
\* a ticket and the order is all that the rules and the judges read in them.
Call == [tool : DOMAIN Effect, amount : Nat, form : {"number", "text", "absent"},
         sensitivity : Sensitivities, ticket : BOOLEAN, grounded : BOOLEAN]

\* The tools a rule is for, and its conditions, Null where it has none.  Which of several
\* rules a denial names depends on their order, and nothing else does.
Rule == [tools : SUBSET DOMAIN Effect, arg_max : Nat \cup {Null}, arg_min : Nat \cup {Null},
         rationale_matches : BOOLEAN]

\* What a judge answers, and how sure it is, in percent; failed as history.
Answer == [consistent : BOOLEAN, confidence : 0..100, failed : BOOLEAN]

ASSUME GateAssumption ==
  /\ Calls \subseteq Call
  /\ Effect \in [DOMAIN Effect -> {"read", "writes_data", "writes_money", "deletes", "other"}]
  /\ Estimate \in [DOMAIN Effect -> Nat] /\ Charges \in [DOMAIN Effect -> SUBSET Nat]
  /\ MaxCost \in Nat \ {0} /\ MaxCalls \in Nat \ {0} /\ InvokeAt \in Nat /\ MaxDecisions \in Nat
  /\ Rules \subseteq Rule
  /\ Sampling \subseteq BOOLEAN /\ FailOpen \in BOOLEAN /\ GoalDeletes \in BOOLEAN
  /\ Null \notin Answer /\ Null # "looping"

VARIABLES
  made, spent,    \* calls_made, consumed["usd_opcost"]
  used, seen,     \* used_tools, seen_calls
  cache,          \* judge_cache of the session's commitment
  log             \* the call records of the audit log

vars == <<made, spent, used, seen, cache, log>>

\* call_key: the shape of the arguments is hashed from their texts, so a number and its
\* text are one shape.
Key(call) == <<call.tool, IF call.form = "absent" THEN Null ELSE call.amount>>
Keys == {Key(call) : call \in Calls}

Init ==
  /\ made = 0 /\ spent = 0 /\ used = {}
  /\ seen = [k \in Keys |-> 0] /\ cache = [k \in Keys |-> Null]
  /\ log = <<>>

-----------------------------------------------------------------------------
(* C3, C4 *)

WithinBudget(call) == made < MaxCalls /\ spent + Estimate[call.tool] <= MaxCost

\* PolicyRule.check: bounds are compared with numbers only.
Satisfied(rule, call) ==
  /\ call.form = "number" =>
       /\ rule.arg_max # Null => call.amount <= rule.arg_max
       /\ rule.arg_min # Null => call.amount >= rule.arg_min
  /\ rule.rationale_matches => call.ticket

Permitted(call) == \A rule \in Rules : call.tool \in rule.tools => Satisfied(rule, call)

-----------------------------------------------------------------------------
(* The risk score *)

TierWeight(tool) ==
  CASE Effect[tool] = "read" -> 0
    [] Effect[tool] = "writes_data" -> 1225
    [] Effect[tool] = "writes_money" -> 2450
    [] Effect[tool] = "deletes" -> 3500
    [] OTHER -> 700

SensitivityWeight(s) ==
  CASE s = "reads" -> 0
    [] s = "writes_data" -> 750
    [] s = "writes_money" -> 1750
    [] s = "deletes" -> 2250
    [] s = "sends_external" -> 1500
    [] s = "grants_access" -> 2000
    [] OTHER -> 250

\* How far the share of the cost spent is ahead of the share of the calls made, rounded
\* down to the unit.
BurnWeight ==
  LET ahead == IF spent * MaxCalls > made * MaxCost THEN spent * MaxCalls - made * MaxCost ELSE 0
  IN  Min({(1500 * ahead) \div (MaxCost * MaxCalls), 1500})

LoopWeight(repeats) == 1500 * Min({repeats, 2})

\* Mutant: every call of a tool counts as a repetition.
RepeatsOfTool(call) == SumFunctionOnSet(seen, {k \in Keys : k[1] = call.tool})

Repeats(call) == seen[Key(call)]

Weight(call, sampled) ==
  [burn_rate       |-> BurnWeight,
   irreversibility |-> TierWeight(call.tool),
   looping         |-> LoopWeight(Repeats(call)),
   novelty         |-> IF call.tool \in used THEN 0 ELSE 1000,
   random_sample   |-> IF sampled THEN 10000 ELSE 0,
   sensitivity     |-> SensitivityWeight(call.sensitivity)]

Score(w) ==
  Min({w.burn_rate + w.irreversibility + w.looping + w.novelty + w.random_sample + w.sensitivity,
       10000})

\* The signals by name: of equal contributions the last name is the top one.
Signals == <<"burn_rate", "irreversibility", "looping", "novelty", "random_sample", "sensitivity">>

TopSignal(w) ==
  Signals[CHOOSE i \in DOMAIN Signals : \A j \in DOMAIN Signals :
            w[Signals[i]] > w[Signals[j]] \/ (w[Signals[i]] = w[Signals[j]] /\ i >= j)]

HighSensitivity == {"writes_money", "deletes", "grants_access"}

Fires(call, w) == Score(w) >= InvokeAt \/ call.sensitivity \in HighSensitivity

\* TRIGGER_MAP is the identity here; a score with no signal falls back to sensitivity.
Trigger(call, w) ==
  IF Score(w) < InvokeAt \/ \A s \in DOMAIN w : w[s] = 0 THEN "sensitivity" ELSE TopSignal(w)

-----------------------------------------------------------------------------
(* The judge *)

Says(consistent, confidence) ==
  [consistent |-> consistent, confidence |-> confidence, failed |-> FALSE]

\* MockSemanticJudge, for the default tools: refund is the one that moves money and
\* delete_user the one that deletes.  The goal cites no order or ticket.  Whether goal and
\* rationale share a word changes a confidence that decides nothing.
MockSays(call) ==
  CASE Effect[call.tool] = "writes_money" ->
         IF ~call.grounded THEN Says(FALSE, 92)
         ELSE IF ~call.ticket THEN Says(FALSE, 60) ELSE Says(TRUE, 90)
    [] Effect[call.tool] = "deletes" ->
         IF GoalDeletes THEN Says(TRUE, 80) ELSE Says(FALSE, 95)
    [] OTHER -> Says(TRUE, 70)

\* Mutant: a judge that cannot be reached is taken to agree.
FailureAgrees == [consistent |-> TRUE, confidence |-> 0, failed |-> TRUE]

\* The endpoint cannot be reached, times out or answers nonsense.
Failure == [consistent |-> FailOpen, confidence |-> 0, failed |-> TRUE]

\* A reply of the model: JSON, alone or in some prose, or no JSON; its two fields, a
\* boolean and a number if the model keeps to the prompt.
Replies == [json : BOOLEAN, consistent : {"true", "false", "a_text", "absent"},
            confidence : {"high", "low", "absent", "no_number"}]

\* bool() takes every text for true, "false" too.  90 and 50 stand for confidences above and
\* below 0.85, of which 50 is the default; that of a consistent answer decides nothing.
Parsed(reply) ==
  IF ~reply.json \/ reply.consistent = "absent" \/ reply.confidence = "no_number" THEN Failure
  ELSE IF reply.consistent # "false" THEN Says(TRUE, 90)
  ELSE Says(FALSE, IF reply.confidence = "high" THEN 90 ELSE 50)

LlmSays == {Failure} \cup {Parsed(reply) : reply \in Replies}

Answers(call) == IF Judge = "mock" THEN {MockSays(call)} ELSE LlmSays

VerdictOn(answer) ==
  IF answer.consistent THEN "served" ELSE IF answer.confidence >= 85 THEN "denied" ELSE "clarify"

-----------------------------------------------------------------------------
(* verify_call, and what reconcile_cost makes of the charge *)

\* Mutant: the count of a call is set, not raised.
SeenOnce(call) == 1

SeenOnceMore(call) == seen[Key(call)] + 1

Serve(call, charge) ==
  /\ made' = made + 1
  /\ spent' = spent + charge
  /\ used' = used \cup {call.tool}
  /\ seen' = [seen EXCEPT ![Key(call)] = SeenOnceMore(call)]

\* A record: semantic_invoked, semantic_trigger, and as history whether the judge was
\* asked and what answer the verdict rests on.
Decision(call, verdict, invoked, trigger, asked, answer) ==
  [call |-> call, verdict |-> verdict, semantic_invoked |-> invoked,
   semantic_trigger |-> trigger, asked |-> asked, answer |-> answer]

Logs(decision) == log' = Append(log, decision)

RefuseOverBudget(call) ==
  /\ Logs(Decision(call, "denied", FALSE, Null, FALSE, Null))
  /\ ~WithinBudget(call)
  /\ UNCHANGED <<made, spent, used, seen, cache>>

RefuseByPolicy(call) ==
  /\ Logs(Decision(call, "denied", FALSE, Null, FALSE, Null))
  /\ WithinBudget(call) /\ ~Permitted(call)
  /\ UNCHANGED <<made, spent, used, seen, cache>>

PassUnjudged(call, sampled, charge) ==
  /\ Logs(Decision(call, "served", FALSE, Null, FALSE, Null))
  /\ WithinBudget(call) /\ Permitted(call)
  /\ ~Fires(call, Weight(call, sampled))
  /\ Serve(call, charge)
  /\ UNCHANGED cache

\* Mutant: only answers that let the call through are kept.
KeepConsistent(call, answer) ==
  cache' = [cache EXCEPT ![Key(call)] = IF answer.consistent THEN answer ELSE Null]

Keep(call, answer) == cache' = [cache EXCEPT ![Key(call)] = answer]

\* Mutant: the call is counted before the verdict is known.
CountsAlways(answer) == TRUE

Counts(answer) == VerdictOn(answer) = "served"

\* The judge is asked unless the key is in the cache; a verdict that rests on the cache
\* is recorded as invoked too.
PassJudged(call, sampled, charge, answer) ==
  LET w == Weight(call, sampled)
      k == Key(call)
  IN  /\ IF cache[k] # Null THEN answer = cache[k] ELSE answer \in Answers(call)
      /\ Logs(Decision(call, VerdictOn(answer), TRUE, Trigger(call, w), cache[k] = Null, answer))
      /\ WithinBudget(call) /\ Permitted(call)
      /\ Fires(call, w)
      /\ Keep(call, answer)
      /\ IF Counts(answer) THEN Serve(call, charge)
         ELSE UNCHANGED <<made, spent, used, seen>>

\* The judge was asked, and with its tokens the call is over budget: its answer is kept
\* and the record does not name it.  Whether the tokens fit is a free choice, as their
\* meter is left out; a judge that failed has none to bill, and the mock never has.
RefuseByTokens(call, sampled, answer) ==
  /\ Judge = "llm" /\ answer \in Answers(call) /\ ~answer.failed
  /\ Logs(Decision(call, "denied", FALSE, Null, TRUE, answer))
  /\ WithinBudget(call) /\ Permitted(call)
  /\ Fires(call, Weight(call, sampled)) /\ cache[Key(call)] = Null
  /\ Keep(call, answer)
  /\ UNCHANGED <<made, spent, used, seen>>

Next ==
  /\ Len(log) < MaxDecisions
  /\ \E call \in Calls :
       \/ RefuseOverBudget(call)
       \/ RefuseByPolicy(call)
       \/ \E sampled \in Sampling, answer \in Answers(call) : RefuseByTokens(call, sampled, answer)
       \/ \E sampled \in Sampling, charge \in Charges[call.tool] :
            \/ PassUnjudged(call, sampled, charge)
            \/ \E answer \in Answers(call) \cup {cache[Key(call)]} :
                 PassJudged(call, sampled, charge, answer)

Spec == Init /\ [][Next]_vars

-----------------------------------------------------------------------------
(* Properties *)

UnjudgedServes(k) ==
  {i \in DOMAIN log :
     log[i].verdict = "served" /\ ~log[i].semantic_invoked /\ Key(log[i].call) = k}

\* A tool whose tier reaches the threshold together with n repeats is served at most n
\* times without a judgement for the same arguments, whatever sensitivity the agent
\* declares and whatever came between (score, verify_call).
LoopsJudged ==
  \A k \in Keys : \A n \in 1..2 :
    TierWeight(k[1]) + LoopWeight(n) >= InvokeAt => Cardinality(UnjudgedServes(k)) <= n

\* One commitment asks the judge once for a call and its arguments, even if the call was
\* refused for the tokens of the answer, and all verdicts of the judge on them are one
\* (judge_cache).
JudgedOnce ==
  \A i, j \in DOMAIN log : i < j /\ Key(log[i].call) = Key(log[j].call) =>
    /\ log[i].answer # Null => ~log[j].asked
    /\ log[i].semantic_invoked /\ log[j].semantic_invoked => log[j].verdict = log[i].verdict

\* A judge that fails neither serves nor denies a call, now or from the cache, unless the
\* operator chose to fail open (LLMSemanticJudge, verify_call).
FailsSafe ==
  \A i \in DOMAIN log :
    log[i].semantic_invoked /\ log[i].answer.failed /\ ~FailOpen => log[i].verdict = "clarify"

\* A call blamed for looping was served before with the same arguments (score).
TriggerTrue ==
  \A i \in DOMAIN log :
    log[i].semantic_trigger = "looping" =>
      \E j \in 1..(i - 1) : log[j].verdict = "served" /\ Key(log[j].call) = Key(log[i].call)

\* What the next score is computed from is what the log says was served: a call that was
\* denied, or sent back to be clarified, leaves no trace in it (verify_call).
CountsServed ==
  LET served == {i \in DOMAIN log : log[i].verdict = "served"} IN
  /\ made = Cardinality(served)
  /\ used = {log[i].call.tool : i \in served}
  /\ \A k \in Keys : seen[k] = Cardinality({i \in served : Key(log[i].call) = k})

=============================================================================
