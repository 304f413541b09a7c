---------------------------- MODULE CallGateProofs ----------------------------
(***************************************************************************)
(* For any calls, costs, threshold and judge: looping is judged, a call    *)
(* has one answer, failures are safe, and the counts are those of serves.  *)
(*                                                                         *)
(* The count that feeds the score is never behind the unjudged serves in   *)
(* the log (Counted), and a call that passes unjudged has been counted     *)
(* less often than would reach the threshold, so one more serve keeps the  *)
(* bound.  The verdicts in the log rest on what the cache holds (Kept).    *)
(* The counts equal those of the log (Exact), so a call whose top signal   *)
(* is looping, which is then positive, has a serve in the log.             *)
(***************************************************************************)
EXTENDS CallGate, FiniteSetTheorems, TLAPS

TypeOK ==
  /\ made \in Nat /\ spent \in Nat /\ seen \in [Keys -> Nat]
  /\ \E S : log \in Seq(S)

Counted ==
  \A k \in Keys :
    IsFiniteSet(UnjudgedServes(k)) /\ Cardinality(UnjudgedServes(k)) <= seen[k]

IInv == TypeOK /\ Counted /\ LoopsJudged

-----------------------------------------------------------------------------
(* Operators *)

\* The smaller of two numbers.
LEMMA MinOfTwo ==
  ASSUME NEW a \in Nat, NEW b \in Nat
  PROVE  Min({a, b}) = IF a <= b THEN a ELSE b
<1>1. CASE a <= b
  BY <1>1 DEF Min
<1>2. CASE ~(a <= b)
  BY <1>2 DEF Min
<1> QED BY <1>1, <1>2

\* The tier of a tool is one of the numbers of TOOL_TIER.
LEMMA TierBounds ==
  ASSUME NEW t
  PROVE  TierWeight(t) \in Nat /\ TierWeight(t) <= 3500
BY DEF TierWeight

\* The weight of a declared sensitivity is one of those of SENSITIVITY_WEIGHT.
LEMMA SensitivityBounds ==
  ASSUME NEW s
  PROVE  SensitivityWeight(s) \in Nat
BY DEF SensitivityWeight

\* The loop signal grows with the repeats up to two.
LEMMA LoopBounds ==
  /\ \A r \in Nat : LoopWeight(r) = 1500 * (IF r <= 2 THEN r ELSE 2)
  /\ \A r \in Nat : LoopWeight(r) \in Nat /\ LoopWeight(r) <= 3000
<1>1. ASSUME NEW r \in Nat PROVE LoopWeight(r) = 1500 * (IF r <= 2 THEN r ELSE 2)
  BY MinOfTwo DEF LoopWeight
<1> QED BY <1>1

\* The burn signal is a number.
LEMMA BurnIsNat == TypeOK => BurnWeight \in Nat
<1> SUFFICES ASSUME TypeOK PROVE BurnWeight \in Nat
  OBVIOUS
<1> DEFINE ahead == IF spent * MaxCalls > made * MaxCost THEN spent * MaxCalls - made * MaxCost ELSE 0
           whole == MaxCost * MaxCalls
<1>1. /\ spent * MaxCalls \in Nat /\ made * MaxCost \in Nat /\ MaxCost \in Nat /\ MaxCalls \in Nat
  BY GateAssumption DEF TypeOK
<1>2. ahead \in Nat
  BY <1>1
<1>3. whole \in Nat /\ whole > 0
  BY GateAssumption
<1>4. 1500 * ahead \in Nat
  BY <1>2
<1>5. (1500 * ahead) \div whole \in Nat
  <2> HIDE DEF ahead, whole
  <2> QED BY <1>3, <1>4
<1>6. BurnWeight = Min({(1500 * ahead) \div whole, 1500})
  BY DEF BurnWeight
<1> HIDE DEF ahead, whole
<1> QED BY <1>5, <1>6, MinOfTwo

\* A call fires once its tier and its repeats alone reach the threshold.
LEMMA LoopFires ==
  ASSUME TypeOK, NEW call \in Calls, NEW sampled \in BOOLEAN, NEW n \in 1..2,
         TierWeight(call.tool) + LoopWeight(n) >= InvokeAt, seen[Key(call)] >= n
  PROVE  Fires(call, Weight(call, sampled))
<1> DEFINE w == Weight(call, sampled)
           sum == w.burn_rate + w.irreversibility + w.looping + w.novelty + w.random_sample
                    + w.sensitivity
<1>1. Key(call) \in Keys /\ seen[Key(call)] \in Nat
  BY DEF Keys, TypeOK
<1>2. /\ w.burn_rate = BurnWeight /\ w.irreversibility = TierWeight(call.tool)
      /\ w.looping = LoopWeight(seen[Key(call)]) /\ w.novelty \in Nat /\ w.random_sample \in Nat
      /\ w.sensitivity = SensitivityWeight(call.sensitivity)
  BY DEF Weight, Repeats
<1>3. LoopWeight(seen[Key(call)]) >= LoopWeight(n)
  BY <1>1, LoopBounds
<1>4. /\ w.burn_rate \in Nat /\ w.irreversibility \in Nat /\ w.irreversibility <= 3500
      /\ w.looping \in Nat /\ w.sensitivity \in Nat
  BY <1>1, <1>2, BurnIsNat, TierBounds, SensitivityBounds, LoopBounds
<1>5. sum \in Nat /\ sum >= TierWeight(call.tool) + LoopWeight(n)
  <2>1. LoopWeight(n) \in Nat /\ TierWeight(call.tool) \in Nat
    BY LoopBounds, TierBounds
  <2> HIDE DEF w
  <2> QED BY <1>2, <1>3, <1>4, <2>1
<1>6. InvokeAt <= 10000 /\ InvokeAt \in Nat
  <2>1. LoopWeight(n) \in Nat /\ LoopWeight(n) <= 3000
    BY LoopBounds
  <2>2. TierWeight(call.tool) \in Nat /\ TierWeight(call.tool) <= 3500
    BY TierBounds
  <2> QED BY <2>1, <2>2, GateAssumption
<1>7. Score(w) = Min({sum, 10000})
  BY DEF Score
<1>8. Score(w) >= InvokeAt
  <2>1. sum >= InvokeAt
    <3>1. LoopWeight(n) \in Nat /\ TierWeight(call.tool) \in Nat
      BY LoopBounds, TierBounds
    <3> HIDE DEF sum
    <3> QED BY <1>5, <1>6, <3>1
  <2> HIDE DEF w, sum
  <2> QED BY <1>5, <1>6, <1>7, <2>1, MinOfTwo
<1> QED BY <1>8 DEF Fires

\* A record added to the log leaves the earlier ones where they were.
LEMMA LogGrows ==
  ASSUME TypeOK, NEW d, log' = Append(log, d)
  PROVE  /\ \E S : log' \in Seq(S)
         /\ Len(log) \in Nat /\ DOMAIN log = 1..Len(log) /\ DOMAIN log' = 1..(Len(log) + 1)
         /\ \A i \in 1..Len(log) : log'[i] = log[i]
         /\ log'[Len(log) + 1] = d
<1>1. PICK S : log \in Seq(S)
  BY DEF TypeOK
<1>2. log \in Seq(S \cup {d}) /\ d \in S \cup {d}
  <2>1. /\ Len(log) \in Nat /\ DOMAIN log = 1..Len(log) /\ \A i \in 1..Len(log) : log[i] \in S
        /\ log = [i \in 1..Len(log) |-> log[i]]
    BY <1>1
  <2>2. log \in [1..Len(log) -> S \cup {d}]
    BY <2>1
  <2> QED BY <2>1, <2>2
<1>3. log' \in Seq(S \cup {d})
  BY <1>2
<1>4. /\ Len(log) \in Nat /\ DOMAIN log = 1..Len(log) /\ DOMAIN log' = 1..(Len(log) + 1)
      /\ \A i \in 1..Len(log) : log'[i] = log[i]
      /\ log'[Len(log) + 1] = d
  BY <1>2
<1> QED BY <1>3, <1>4

-----------------------------------------------------------------------------
\* A new session has served nothing.
LEMMA InitIInv == Init => IInv
<1> SUFFICES ASSUME Init PROVE IInv
  OBVIOUS
<1> USE DEF Init
<1>1. TypeOK
  <2>1. log \in Seq({})
    OBVIOUS
  <2> QED BY <2>1 DEF TypeOK
<1>2. \A k : UnjudgedServes(k) = {}
  BY DEF UnjudgedServes
<1>3. Counted
  BY <1>2, FS_EmptySet DEF Counted
<1>4. LoopsJudged
  <2>1. ASSUME NEW k \in Keys, NEW n \in 1..2 PROVE Cardinality(UnjudgedServes(k)) <= n
    <3>1. UnjudgedServes(k) = {}
      BY <1>2
    <3>2. Cardinality({}) = 0
      BY FS_EmptySet
    <3> QED BY <3>1, <3>2
  <2> QED BY <2>1 DEF LoopsJudged
<1> QED BY <1>1, <1>3, <1>4 DEF IInv

\* A record that is not an unjudged serve changes none of the sets counted.
LEMMA NoUnjudgedServe ==
  ASSUME IInv, NEW d, log' = Append(log, d), d.verdict # "served" \/ d.semantic_invoked
  PROVE  \A k : UnjudgedServes(k)' = UnjudgedServes(k)
<1>1. /\ Len(log) \in Nat /\ DOMAIN log = 1..Len(log) /\ DOMAIN log' = 1..(Len(log) + 1)
      /\ \A i \in 1..Len(log) : log'[i] = log[i]
      /\ log'[Len(log) + 1] = d
  BY LogGrows DEF IInv
<1>2. ASSUME NEW k PROVE UnjudgedServes(k)' = UnjudgedServes(k)
  <2>1. ASSUME NEW i PROVE i \in UnjudgedServes(k)' <=> i \in UnjudgedServes(k)
    <3>1. i \in DOMAIN log' <=> i \in DOMAIN log \/ i = Len(log) + 1
      BY <1>1
    <3>2. CASE i \in DOMAIN log
      BY <1>1, <3>1, <3>2 DEF UnjudgedServes
    <3>3. CASE i = Len(log) + 1
      <4>1. i \notin DOMAIN log
        BY <1>1, <3>3
      <4> QED BY <1>1, <3>3, <4>1 DEF UnjudgedServes
    <3>4. CASE i \notin DOMAIN log'
      BY <3>1, <3>4 DEF UnjudgedServes
    <3> QED BY <3>1, <3>2, <3>3, <3>4
  <2> QED BY <2>1
<1> QED BY <1>2

\* Steps that add no unjudged serve and count no call down keep the invariant.
LEMMA CountsGrow ==
  ASSUME IInv, NEW d, log' = Append(log, d), d.verdict # "served" \/ d.semantic_invoked,
         made' \in Nat, spent' \in Nat, seen' \in [Keys -> Nat],
         \A k \in Keys : seen'[k] >= seen[k]
  PROVE  IInv'
<1>1. \A k : UnjudgedServes(k)' = UnjudgedServes(k)
  BY NoUnjudgedServe
<1>2. TypeOK'
  BY LogGrows DEF IInv, TypeOK
<1>3. Counted'
  <2>1. ASSUME NEW k \in Keys
        PROVE  IsFiniteSet(UnjudgedServes(k))' /\ Cardinality(UnjudgedServes(k))' <= seen'[k]
    <3>1. Cardinality(UnjudgedServes(k)) \in Nat /\ Cardinality(UnjudgedServes(k)) <= seen[k]
      BY FS_CardinalityType DEF IInv, Counted
    <3>2. seen[k] \in Nat /\ seen'[k] \in Nat /\ seen'[k] >= seen[k]
      BY DEF IInv, TypeOK
    <3> QED BY <1>1, <3>1, <3>2 DEF IInv, Counted
  <2> QED BY <2>1 DEF Counted
<1>4. LoopsJudged'
  BY <1>1 DEF IInv, LoopsJudged
<1> QED BY <1>2, <1>3, <1>4 DEF IInv

\* A served call adds its charge and counts itself.
LEMMA ServeTypes ==
  ASSUME TypeOK, NEW call \in Calls, NEW charge \in Charges[call.tool], Serve(call, charge)
  PROVE  /\ made' \in Nat /\ spent' \in Nat /\ seen' \in [Keys -> Nat]
         /\ seen'[Key(call)] = seen[Key(call)] + 1
         /\ \A k \in Keys : seen'[k] >= seen[k] /\ (k # Key(call) => seen'[k] = seen[k])
<1>1. charge \in Nat
  BY GateAssumption DEF Call
<1>2. Key(call) \in Keys /\ seen[Key(call)] \in Nat
  BY DEF Keys, TypeOK
<1>3. /\ made' = made + 1 /\ spent' = spent + charge
      /\ seen' = [seen EXCEPT ![Key(call)] = seen[Key(call)] + 1]
  BY DEF Serve, SeenOnceMore
<1> QED BY <1>1, <1>2, <1>3 DEF TypeOK

\* A call that passes unjudged was counted less often than would reach the threshold.
LEMMA UnjudgedStep ==
  ASSUME IInv, NEW call \in Calls, NEW sampled \in BOOLEAN, NEW charge \in Charges[call.tool],
         PassUnjudged(call, sampled, charge)
  PROVE  IInv'
<1> DEFINE k0 == Key(call)
           d == Decision(call, "served", FALSE, Null, FALSE, Null)
<1>0. TypeOK /\ Serve(call, charge) /\ log' = Append(log, d)
  BY DEF IInv, PassUnjudged, Logs
<1>1. /\ made' \in Nat /\ spent' \in Nat /\ seen' \in [Keys -> Nat]
      /\ seen'[k0] = seen[k0] + 1
      /\ \A k \in Keys : seen'[k] >= seen[k] /\ (k # k0 => seen'[k] = seen[k])
  BY <1>0, ServeTypes
<1>2. /\ Len(log) \in Nat /\ DOMAIN log = 1..Len(log) /\ DOMAIN log' = 1..(Len(log) + 1)
      /\ \A i \in 1..Len(log) : log'[i] = log[i]
      /\ log'[Len(log) + 1] = d
  BY <1>0, LogGrows
<1>3. d.verdict = "served" /\ ~d.semantic_invoked /\ Key(d.call) = k0
  BY DEF Decision
<1>4. TypeOK'
  BY <1>0, <1>1, LogGrows DEF TypeOK
<1>5. ASSUME NEW k \in Keys, k # k0 PROVE UnjudgedServes(k)' = UnjudgedServes(k)
  <2> HIDE DEF k0, d
  <2>1. ASSUME NEW i PROVE i \in UnjudgedServes(k)' <=> i \in UnjudgedServes(k)
    <3>1. i \in DOMAIN log' <=> i \in DOMAIN log \/ i = Len(log) + 1
      BY <1>2
    <3>2. CASE i \in DOMAIN log
      BY <1>2, <3>1, <3>2 DEF UnjudgedServes
    <3>3. CASE i = Len(log) + 1
      <4>1. i \notin DOMAIN log
        BY <1>2, <3>3
      <4> QED BY <1>2, <1>3, <1>5, <3>3, <4>1 DEF UnjudgedServes
    <3>4. CASE i \notin DOMAIN log'
      BY <3>1, <3>4 DEF UnjudgedServes
    <3> QED BY <3>1, <3>2, <3>3, <3>4
  <2> QED BY <2>1
<1>6. UnjudgedServes(k0)' = UnjudgedServes(k0) \cup {Len(log) + 1} /\ Len(log) + 1 \notin UnjudgedServes(k0)
  <2>1. Len(log) + 1 \notin DOMAIN log
    BY <1>2
  <2>2. Len(log) + 1 \notin UnjudgedServes(k0)
    BY <2>1 DEF UnjudgedServes
  <2>3. k0' = k0
    BY DEF Key
  <2> HIDE DEF k0, d
  <2>4. ASSUME NEW i PROVE i \in UnjudgedServes(k0)' <=> i \in UnjudgedServes(k0) \/ i = Len(log) + 1
    <3>1. i \in DOMAIN log' <=> i \in DOMAIN log \/ i = Len(log) + 1
      BY <1>2
    <3>2. CASE i \in DOMAIN log
      BY <1>2, <2>1, <2>3, <3>1, <3>2 DEF UnjudgedServes
    <3>3. CASE i = Len(log) + 1
      BY <1>2, <1>3, <2>3, <3>1, <3>3 DEF UnjudgedServes
    <3>4. CASE i \notin DOMAIN log'
      BY <2>3, <3>1, <3>4 DEF UnjudgedServes
    <3> QED BY <3>1, <3>2, <3>3, <3>4
  <2> QED BY <2>2, <2>4
<1>7. /\ k0 \in Keys /\ seen[k0] \in Nat
      /\ IsFiniteSet(UnjudgedServes(k0)) /\ Cardinality(UnjudgedServes(k0)) <= seen[k0]
  BY <1>0 DEF Keys, IInv, TypeOK, Counted
<1>8. /\ IsFiniteSet(UnjudgedServes(k0)') /\ Cardinality(UnjudgedServes(k0)) \in Nat
      /\ Cardinality(UnjudgedServes(k0)') = Cardinality(UnjudgedServes(k0)) + 1
  BY <1>6, <1>7, FS_AddElement, FS_CardinalityType
<1>9. Counted'
  <2>1. ASSUME NEW k \in Keys
        PROVE  IsFiniteSet(UnjudgedServes(k)') /\ Cardinality(UnjudgedServes(k)') <= seen'[k]
    <3>1. CASE k = k0
      BY <1>1, <1>7, <1>8, <3>1
    <3>2. CASE k # k0
      BY <1>1, <1>5, <3>2 DEF IInv, Counted
    <3> QED BY <3>1, <3>2
  <2> QED BY <2>1 DEF Counted
<1>10. LoopsJudged'
  <2>1. ASSUME NEW k \in Keys, NEW n \in 1..2, TierWeight(k[1]) + LoopWeight(n) >= InvokeAt
        PROVE  Cardinality(UnjudgedServes(k)') <= n
    <3>1. CASE k = k0
      <4>1. k0[1] = call.tool
        BY DEF Key
      <4>2. ~Fires(call, Weight(call, sampled))
        BY DEF PassUnjudged
      <4>3. ~(seen[k0] >= n)
        BY <1>0, <2>1, <3>1, <4>1, <4>2, LoopFires
      <4> QED BY <1>7, <1>8, <3>1, <4>3
    <3>2. CASE k # k0
      BY <1>5, <2>1, <3>2 DEF IInv, LoopsJudged
    <3> QED BY <3>1, <3>2
  <2> QED BY <2>1 DEF LoopsJudged, LoopWeight, TierWeight
<1> QED BY <1>4, <1>9, <1>10 DEF IInv

\* Every decision keeps the invariant.
LEMMA NextIInv == IInv /\ [Next]_vars => IInv'
<1> SUFFICES ASSUME IInv, [Next]_vars PROVE IInv'
  OBVIOUS
<1>0. TypeOK
  BY DEF IInv
<1>1. ASSUME NEW call \in Calls, RefuseOverBudget(call) \/ RefuseByPolicy(call) PROVE IInv'
  <2> DEFINE d == Decision(call, "denied", FALSE, Null, FALSE, Null)
  <2>1. log' = Append(log, d) /\ UNCHANGED <<made, spent, seen>> /\ d.verdict = "denied"
    BY <1>1 DEF RefuseOverBudget, RefuseByPolicy, Logs, Decision
  <2>2. \A k \in Keys : seen'[k] >= seen[k]
    BY <1>0, <2>1 DEF TypeOK
  <2> HIDE DEF d
  <2> QED BY <1>0, <2>1, <2>2, CountsGrow DEF TypeOK
<1>2. ASSUME NEW call \in Calls, NEW sampled \in Sampling, NEW charge \in Charges[call.tool],
             PassUnjudged(call, sampled, charge)
      PROVE  IInv'
  <2>1. sampled \in BOOLEAN
    BY GateAssumption
  <2> QED BY <1>2, <2>1, UnjudgedStep
<1>3. ASSUME NEW call \in Calls, NEW sampled \in Sampling, NEW charge \in Charges[call.tool],
             NEW answer, PassJudged(call, sampled, charge, answer)
      PROVE  IInv'
  <2> DEFINE d == Decision(call, VerdictOn(answer), TRUE, Trigger(call, Weight(call, sampled)),
                           cache[Key(call)] = Null, answer)
  <2>1. log' = Append(log, d) /\ d.semantic_invoked
    BY <1>3 DEF PassJudged, Counts, Logs, Decision
  <2>2. Serve(call, charge) \/ UNCHANGED <<made, spent, used, seen>>
    BY <1>3 DEF PassJudged, Counts
  <2>3. /\ made' \in Nat /\ spent' \in Nat /\ seen' \in [Keys -> Nat]
        /\ \A k \in Keys : seen'[k] >= seen[k]
    <3>1. CASE Serve(call, charge)
      BY <1>0, <3>1, ServeTypes
    <3>2. CASE UNCHANGED <<made, spent, used, seen>>
      BY <1>0, <3>2 DEF TypeOK
    <3> QED BY <2>2, <3>1, <3>2
  <2> HIDE DEF d
  <2> QED BY <2>1, <2>3, CountsGrow
<1>4. CASE UNCHANGED vars
  <2>1. UNCHANGED <<made, spent, seen, log>>
    BY <1>4 DEF vars
  <2>2. \A k : UnjudgedServes(k)' = UnjudgedServes(k)
    BY <2>1 DEF UnjudgedServes
  <2> QED BY <2>1, <2>2 DEF IInv, TypeOK, Counted, LoopsJudged
<1>5. ASSUME NEW call \in Calls, NEW sampled, NEW answer, RefuseByTokens(call, sampled, answer)
      PROVE  IInv'
  <2> DEFINE d == Decision(call, "denied", FALSE, Null, TRUE, answer)
  <2>1. log' = Append(log, d) /\ UNCHANGED <<made, spent, seen>> /\ d.verdict = "denied"
    BY <1>5 DEF RefuseByTokens, Logs, Decision
  <2>2. \A k \in Keys : seen'[k] >= seen[k]
    BY <1>0, <2>1 DEF TypeOK
  <2> HIDE DEF d
  <2> QED BY <1>0, <2>1, <2>2, CountsGrow DEF TypeOK
<1> QED BY <1>1, <1>2, <1>3, <1>4, <1>5 DEF Next

\* A tool whose tier reaches the threshold together with n repeats is served at most n
\* times without a judgement for the same arguments, for any configuration of the gate.
THEOREM LoopsAreJudged == Spec => []LoopsJudged
<1>1. IInv => LoopsJudged
  BY DEF IInv
<1> QED BY <1>1, InitIInv, NextIInv, PTL DEF Spec

-----------------------------------------------------------------------------
(* The cache: one answer for a call, and failures are safe *)

\* An answer a failed judge gives sends the call back.
Safe(answer) == answer.failed /\ ~FailOpen => VerdictOn(answer) = "clarify"

\* What the cache holds are answers, and the verdicts in the log are theirs.
Kept ==
  /\ cache \in [Keys -> Answer \cup {Null}]
  /\ \A k \in Keys : cache[k] # Null => Safe(cache[k])
  /\ \A i \in DOMAIN log : log[i].answer # Null =>
       /\ log[i].call \in Calls /\ log[i].answer \in Answer
       /\ log[i].answer = cache[Key(log[i].call)]
  /\ \A i \in DOMAIN log : log[i].semantic_invoked =>
       log[i].answer # Null /\ log[i].verdict = VerdictOn(log[i].answer)

CacheInv == TypeOK /\ Kept /\ JudgedOnce

\* Both judges give answers, and those of one that failed are safe.
LEMMA AnswersAreSafe ==
  ASSUME NEW call, NEW answer \in Answers(call)
  PROVE  answer \in Answer /\ Safe(answer)
<1>1. Failure \in Answer /\ Safe(Failure)
  BY GateAssumption DEF Failure, Answer, Safe, VerdictOn
<1>2. MockSays(call) \in Answer /\ ~MockSays(call).failed
  <2>1. CASE Effect[call.tool] = "writes_money"
    BY <2>1 DEF MockSays, Says, Answer
  <2>2. CASE Effect[call.tool] = "deletes"
    BY <2>2 DEF MockSays, Says, Answer
  <2>3. CASE Effect[call.tool] \notin {"writes_money", "deletes"}
    BY <2>3 DEF MockSays, Says, Answer
  <2> QED BY <2>1, <2>2, <2>3
<1>3. ASSUME NEW reply
      PROVE  Parsed(reply) = Failure \/ (Parsed(reply) \in Answer /\ ~Parsed(reply).failed)
  BY DEF Parsed, Says, Answer
<1> QED BY <1>1, <1>2, <1>3 DEF Answers, LlmSays, Safe

\* A record that rests on no judge changes nothing about those that do.
LEMMA UnjudgedKeepsCache ==
  ASSUME CacheInv, NEW d, log' = Append(log, d), cache' = cache, TypeOK',
         ~d.semantic_invoked, d.answer = Null, ~d.asked
  PROVE  CacheInv'
<1>1. /\ Len(log) \in Nat /\ DOMAIN log = 1..Len(log) /\ DOMAIN log' = 1..(Len(log) + 1)
      /\ \A i \in 1..Len(log) : log'[i] = log[i]
      /\ log'[Len(log) + 1] = d
  BY LogGrows DEF CacheInv
<1>2. ASSUME NEW i \in DOMAIN log', log'[i].semantic_invoked \/ log'[i].answer # Null
             \/ log'[i].asked
      PROVE  i \in DOMAIN log /\ log'[i] = log[i]
  BY <1>1, <1>2
<1>3. Kept'
  BY <1>2 DEF CacheInv, Kept, Key
<1>4. JudgedOnce'
  <2> SUFFICES ASSUME NEW i \in DOMAIN log', NEW j \in DOMAIN log', i < j,
                      Key(log'[i].call) = Key(log'[j].call)
               PROVE  /\ log'[i].answer # Null => ~log'[j].asked
                      /\ log'[i].semantic_invoked /\ log'[j].semantic_invoked =>
                           log'[j].verdict = log'[i].verdict
    BY DEF JudgedOnce, Key
  <2> QED BY <1>2 DEF CacheInv, JudgedOnce
<1> QED BY <1>3, <1>4 DEF CacheInv

\* A call for which the judge was asked, or its answer found, leaves that answer in the
\* cache.
LEMMA JudgedKeepsCache ==
  ASSUME CacheInv, NEW call \in Calls, NEW answer, NEW d, log' = Append(log, d),
         cache' = [cache EXCEPT ![Key(call)] = answer], TypeOK',
         cache[Key(call)] # Null => answer = cache[Key(call)],
         cache[Key(call)] = Null => answer \in Answers(call),
         d.call = call, d.answer = answer, d.asked = (cache[Key(call)] = Null),
         d.semantic_invoked => d.verdict = VerdictOn(answer)
  PROVE  CacheInv'
<1> DEFINE k == Key(call)
<1>3. k \in Keys /\ k' = k /\ cache[k] \in Answer \cup {Null}
  BY DEF Keys, CacheInv, Kept, Key
<1>4. answer \in Answer /\ Safe(answer) /\ (cache[k] # Null => answer = cache[k])
  BY <1>3, AnswersAreSafe DEF CacheInv, Kept
<1>5. /\ Len(log) \in Nat /\ DOMAIN log = 1..Len(log) /\ DOMAIN log' = 1..(Len(log) + 1)
      /\ \A i \in 1..Len(log) : log'[i] = log[i]
      /\ log'[Len(log) + 1] = d
  BY LogGrows DEF CacheInv
<1>9. /\ cache' = [cache EXCEPT ![k] = answer]
      /\ d.call = call /\ d.answer = answer /\ d.asked = (cache[k] = Null)
      /\ d.semantic_invoked => d.verdict = VerdictOn(answer)
  OBVIOUS
<1>2. answer # Null
  BY <1>4, GateAssumption
<1>1. k = Key(d.call)
  BY <1>9
<1> HIDE DEF k
<1>6. ASSUME NEW i \in DOMAIN log, log[i].answer # Null
      PROVE  /\ log[i].call \in Calls /\ log[i].answer \in Answer
             /\ cache[Key(log[i].call)] = log[i].answer /\ cache[Key(log[i].call)] # Null
             /\ cache'[Key(log[i].call)] = log[i].answer
  <2>1. /\ log[i].call \in Calls /\ log[i].answer \in Answer
        /\ cache[Key(log[i].call)] = log[i].answer
    BY <1>6 DEF CacheInv, Kept
  <2>2. Key(log[i].call) \in Keys
    BY <2>1 DEF Keys
  <2> QED BY <1>3, <1>4, <1>6, <1>9, <2>1, <2>2 DEF CacheInv, Kept
<1>7. Kept'
  <2>1. cache' \in [Keys -> Answer \cup {Null}]
    BY <1>4, <1>9 DEF CacheInv, Kept
  <2>2. \A j \in Keys : cache'[j] # Null => Safe(cache'[j])
    BY <1>3, <1>4, <1>9 DEF CacheInv, Kept
  <2>3. ASSUME NEW i \in DOMAIN log', log'[i].answer # Null
        PROVE  /\ log'[i].call \in Calls /\ log'[i].answer \in Answer
               /\ log'[i].answer = cache'[Key(log'[i].call)]
    <3>1. CASE i \in DOMAIN log
      BY <1>5, <1>6, <2>3, <3>1
    <3>2. CASE i = Len(log) + 1
      <4>1. cache'[k] = answer
        BY <1>3, <1>9 DEF CacheInv, Kept
      <4> QED BY <1>1, <1>4, <1>5, <1>9, <3>2, <4>1
    <3> QED BY <1>5, <3>1, <3>2
  <2>4. ASSUME NEW i \in DOMAIN log', log'[i].semantic_invoked
        PROVE  log'[i].answer # Null /\ log'[i].verdict = VerdictOn(log'[i].answer)
    <3>1. CASE i \in DOMAIN log
      BY <1>5, <2>4, <3>1 DEF CacheInv, Kept
    <3>2. CASE i = Len(log) + 1
      BY <1>2, <1>5, <1>9, <2>4, <3>2
    <3> QED BY <1>5, <3>1, <3>2
  <2> QED BY <2>1, <2>2, <2>3, <2>4 DEF Kept, Key, Keys, Safe, VerdictOn
<1>8. JudgedOnce'
  <2>1. ASSUME NEW i \in DOMAIN log', NEW j \in DOMAIN log', i < j,
               Key(log'[i].call) = Key(log'[j].call)
        PROVE  /\ log'[i].answer # Null => ~log'[j].asked
               /\ log'[i].semantic_invoked /\ log'[j].semantic_invoked =>
                    log'[j].verdict = log'[i].verdict
    <3>1. i \in DOMAIN log /\ log'[i] = log[i]
      BY <1>5, <2>1
    <3>2. CASE j \in DOMAIN log
      BY <1>5, <2>1, <3>1, <3>2 DEF CacheInv, JudgedOnce
    <3>3. CASE j = Len(log) + 1
      <4>1. log'[j] = d /\ Key(log[i].call) = k
        BY <1>1, <1>5, <2>1, <3>1, <3>3
      <4>2. log[i].answer # Null => cache[k] # Null /\ cache[k] = log[i].answer
        BY <1>6, <3>1, <4>1
      <4>3. log[i].semantic_invoked => log[i].answer # Null /\ log[i].verdict = VerdictOn(log[i].answer)
        BY <3>1 DEF CacheInv, Kept
      <4>4. ASSUME log[i].answer # Null PROVE ~d.asked /\ answer = log[i].answer
        <5>1. cache[k] # Null /\ cache[k] = log[i].answer
          BY <4>2, <4>4
        <5> QED BY <1>4, <1>9, <5>1
      <4>5. ASSUME log[i].semantic_invoked, d.semantic_invoked PROVE d.verdict = log[i].verdict
        BY <1>9, <4>3, <4>4, <4>5
      <4> QED BY <3>1, <4>1, <4>4, <4>5
    <3> QED BY <1>5, <3>2, <3>3
  <2> QED BY <2>1 DEF JudgedOnce, Key
<1> QED BY <1>7, <1>8 DEF CacheInv

\* A new session has asked nothing.
LEMMA InitCacheInv == Init => CacheInv
<1> SUFFICES ASSUME Init PROVE CacheInv
  OBVIOUS
<1>1. TypeOK
  BY InitIInv DEF IInv
<1>2. log = <<>> /\ cache = [k \in Keys |-> Null]
  BY DEF Init
<1>3. Kept
  BY <1>2 DEF Kept
<1>4. JudgedOnce
  BY <1>2 DEF JudgedOnce
<1> QED BY <1>1, <1>3, <1>4 DEF CacheInv

\* Every decision keeps the answers.
LEMMA NextCacheInv == CacheInv /\ IInv /\ [Next]_vars => CacheInv'
<1> SUFFICES ASSUME CacheInv, IInv, [Next]_vars PROVE CacheInv'
  OBVIOUS
<1>1. TypeOK'
  BY NextIInv DEF IInv
<1>2. ASSUME NEW call \in Calls, RefuseOverBudget(call) \/ RefuseByPolicy(call) PROVE CacheInv'
  BY <1>1, <1>2, UnjudgedKeepsCache DEF RefuseOverBudget, RefuseByPolicy, Logs, Decision
<1>3. ASSUME NEW call \in Calls, NEW sampled, NEW charge, PassUnjudged(call, sampled, charge)
      PROVE  CacheInv'
  BY <1>1, <1>3, UnjudgedKeepsCache DEF PassUnjudged, Logs, Decision
<1>4. ASSUME NEW call \in Calls, NEW sampled, NEW charge, NEW answer,
             PassJudged(call, sampled, charge, answer)
      PROVE  CacheInv'
  <2> DEFINE d == Decision(call, VerdictOn(answer), TRUE, Trigger(call, Weight(call, sampled)),
                           cache[Key(call)] = Null, answer)
  <2>1. /\ log' = Append(log, d) /\ cache' = [cache EXCEPT ![Key(call)] = answer]
        /\ cache[Key(call)] # Null => answer = cache[Key(call)]
        /\ cache[Key(call)] = Null => answer \in Answers(call)
    BY <1>4 DEF PassJudged, Logs, Keep
  <2>2. /\ d.call = call /\ d.answer = answer /\ d.asked = (cache[Key(call)] = Null)
        /\ d.verdict = VerdictOn(answer)
    BY DEF Decision
  <2> HIDE DEF d
  <2> QED BY <1>1, <2>1, <2>2, JudgedKeepsCache
<1>6. ASSUME NEW call \in Calls, NEW sampled, NEW answer, RefuseByTokens(call, sampled, answer)
      PROVE  CacheInv'
  <2> DEFINE d == Decision(call, "denied", FALSE, Null, TRUE, answer)
  <2>1. /\ log' = Append(log, d) /\ cache' = [cache EXCEPT ![Key(call)] = answer]
        /\ cache[Key(call)] = Null /\ answer \in Answers(call)
    BY <1>6 DEF RefuseByTokens, Logs, Keep
  <2>2. d.call = call /\ d.answer = answer /\ d.asked = TRUE /\ ~d.semantic_invoked
    BY DEF Decision
  <2> HIDE DEF d
  <2> QED BY <1>1, <2>1, <2>2, JudgedKeepsCache
<1>5. CASE UNCHANGED vars
  BY <1>1, <1>5 DEF vars, CacheInv, Kept, JudgedOnce, Key, Keys, Safe, VerdictOn
<1> QED BY <1>2, <1>3, <1>4, <1>5, <1>6 DEF Next

\* For any calls, threshold, judge and sampling, a commitment asks the judge at most once
\* for a call and its arguments, and all verdicts on them rest on that answer.
THEOREM OneAnswer == Spec => []JudgedOnce
<1>1. CacheInv => JudgedOnce
  BY DEF CacheInv
<1> QED BY <1>1, InitIInv, NextIInv, InitCacheInv, NextCacheInv, PTL DEF Spec

\* For any judge, its failure neither serves nor denies a call, at once or from the cache,
\* unless the operator chose to fail open.
THEOREM FailuresAreSafe == Spec => []FailsSafe
<1>1. CacheInv => FailsSafe
  <2> SUFFICES ASSUME CacheInv, NEW i \in DOMAIN log, log[i].semantic_invoked,
                      log[i].answer.failed, ~FailOpen
               PROVE  log[i].verdict = "clarify"
    BY DEF FailsSafe
  <2>1. log[i].answer # Null /\ log[i].verdict = VerdictOn(log[i].answer)
    BY DEF CacheInv, Kept
  <2>2. log[i].call \in Calls /\ cache[Key(log[i].call)] = log[i].answer
    BY <2>1 DEF CacheInv, Kept
  <2>4. Key(log[i].call) \in Keys
    BY <2>2 DEF Keys
  <2>3. Safe(log[i].answer)
    BY <2>1, <2>2, <2>4 DEF CacheInv, Kept
  <2> QED BY <2>1, <2>3 DEF Safe
<1> QED BY <1>1, InitIInv, NextIInv, InitCacheInv, NextCacheInv, PTL DEF Spec

-----------------------------------------------------------------------------
(* The counts, and what they are blamed for *)

Serves == {i \in DOMAIN log : log[i].verdict = "served"}
ServesOf(k) == {i \in Serves : Key(log[i].call) = k}

\* Each count is that of serves in the log.
Exact ==
  /\ IsFiniteSet(Serves) /\ made = Cardinality(Serves)
  /\ used = {log[i].call.tool : i \in Serves}
  /\ \A k \in Keys : IsFiniteSet(ServesOf(k)) /\ seen[k] = Cardinality(ServesOf(k))

CountInv == TypeOK /\ Exact /\ TriggerTrue

\* A record that is no serve leaves the counts as they are.
LEMMA NoServe ==
  ASSUME CountInv, NEW d, log' = Append(log, d), d.verdict # "served",
         UNCHANGED <<made, spent, used, seen>>
  PROVE  Exact'
<1>1. /\ Len(log) \in Nat /\ DOMAIN log = 1..Len(log) /\ DOMAIN log' = 1..(Len(log) + 1)
      /\ \A i \in 1..Len(log) : log'[i] = log[i]
      /\ log'[Len(log) + 1] = d
  BY LogGrows DEF CountInv
<1>2. Serves' = Serves
  <2>1. ASSUME NEW i PROVE i \in Serves' <=> i \in Serves
    BY <1>1 DEF Serves
  <2> QED BY <2>1
<1>3. \A i \in Serves : log'[i] = log[i]
  BY <1>1 DEF Serves
<1>4. \A k : ServesOf(k)' = ServesOf(k)
  BY <1>2, <1>3 DEF ServesOf, Key
<1>5. {log'[i].call.tool : i \in Serves} = {log[i].call.tool : i \in Serves}
  BY <1>3
<1> QED BY <1>2, <1>4, <1>5 DEF CountInv, Exact, Keys, Key

\* A serve is one more in the log and in each count it belongs to.
LEMMA OneServe ==
  ASSUME CountInv, NEW call \in Calls, NEW charge, Serve(call, charge),
         NEW d, log' = Append(log, d), d.verdict = "served", d.call = call
  PROVE  Exact'
<1> DEFINE n == Len(log) + 1
           k0 == Key(call)
<1>1. /\ Len(log) \in Nat /\ DOMAIN log = 1..Len(log) /\ DOMAIN log' = 1..n
      /\ \A i \in 1..Len(log) : log'[i] = log[i]
      /\ log'[n] = d
  BY LogGrows DEF CountInv
<1>2. k0 \in Keys /\ k0' = k0 /\ Keys' = Keys /\ Key(d.call) = k0
  BY DEF Keys, Key
<1>3. /\ made' = made + 1 /\ used' = used \cup {call.tool}
      /\ seen' = [seen EXCEPT ![k0] = seen[k0] + 1] /\ seen \in [Keys -> Nat]
  BY DEF Serve, SeenOnceMore, CountInv, TypeOK
<1>4. n \notin DOMAIN log
  BY <1>1
<1> HIDE DEF n, k0
<1>5. Serves' = Serves \cup {n} /\ n \notin Serves
  <2>1. ASSUME NEW i PROVE i \in Serves' <=> i \in Serves \/ i = n
    <3>1. i \in DOMAIN log' <=> i \in DOMAIN log \/ i = n
      BY <1>1 DEF n
    <3> QED BY <1>1, <1>4, <3>1 DEF Serves
  <2> QED BY <1>4, <2>1 DEF Serves
<1>6. \A i \in Serves : log'[i] = log[i]
  BY <1>1 DEF Serves
<1>7. ASSUME NEW k
      PROVE  /\ k # k0 => ServesOf(k)' = ServesOf(k)
             /\ k = k0 => ServesOf(k)' = ServesOf(k) \cup {n}
             /\ n \notin ServesOf(k)
  <2>1. ASSUME NEW i PROVE i \in ServesOf(k)' <=> i \in ServesOf(k) \/ (i = n /\ k = k0)
    <3>1. i \in ServesOf(k)' <=> i \in Serves' /\ Key(log'[i].call) = k
      BY DEF ServesOf, Key
    <3>2. CASE i = n
      BY <1>1, <1>2, <1>5, <3>1, <3>2 DEF ServesOf
    <3>3. CASE i # n
      BY <1>5, <1>6, <3>1, <3>3 DEF ServesOf
    <3> QED BY <3>2, <3>3
  <2> QED BY <1>5, <2>1 DEF ServesOf
<1>8. IsFiniteSet(Serves') /\ made' = Cardinality(Serves')
  BY <1>3, <1>5, FS_AddElement DEF CountInv, Exact
<1>9. used' = {log'[i].call.tool : i \in Serves'}
  <2>1. log'[n].call.tool = call.tool
    BY <1>1
  <2>2. used = {log[i].call.tool : i \in Serves}
    BY DEF CountInv, Exact
  <2> QED BY <1>3, <1>5, <1>6, <2>1, <2>2
<1>10. ASSUME NEW k \in Keys PROVE IsFiniteSet(ServesOf(k)') /\ seen'[k] = Cardinality(ServesOf(k)')
  <2>1. IsFiniteSet(ServesOf(k)) /\ seen[k] = Cardinality(ServesOf(k))
    BY DEF CountInv, Exact
  <2>2. CASE k = k0
    BY <1>2, <1>3, <1>7, <2>1, <2>2, FS_AddElement
  <2>3. CASE k # k0
    BY <1>3, <1>7, <2>1, <2>3
  <2> QED BY <2>2, <2>3
<1> QED BY <1>2, <1>8, <1>9, <1>10 DEF Exact

\* Of any first n of six numbers there is a greatest, and a last one among these.
LEMMA LastGreatest ==
  ASSUME NEW f \in [1..6 -> Nat]
  PROVE  \E i \in 1..6 : \A j \in 1..6 : f[i] > f[j] \/ (f[i] = f[j] /\ i >= j)
<1> DEFINE P(n) == \E i \in 1..n : \A j \in 1..n : f[i] > f[j] \/ (f[i] = f[j] /\ i >= j)
<1>1. P(1)
  OBVIOUS
<1>2. ASSUME NEW n \in 1..5, P(n) PROVE P(n + 1)
  <2>1. PICK i \in 1..n : \A j \in 1..n : f[i] > f[j] \/ (f[i] = f[j] /\ i >= j)
    BY <1>2
  <2>2. \A j \in 1..(n + 1) : j \in 1..n \/ j = n + 1
    OBVIOUS
  <2>3. /\ f[n + 1] \in Nat /\ f[i] \in Nat /\ (\A j \in 1..n : f[j] \in Nat)
        /\ i \in 1..(n + 1) /\ n + 1 \in 1..(n + 1) /\ \A j \in 1..n : n + 1 >= j
    OBVIOUS
  <2>4. CASE f[n + 1] >= f[i]
    <3>1. ASSUME NEW j \in 1..(n + 1) PROVE f[n + 1] > f[j] \/ (f[n + 1] = f[j] /\ n + 1 >= j)
      BY <2>1, <2>2, <2>3, <2>4
    <3> QED BY <2>3, <3>1
  <2>5. CASE f[n + 1] < f[i]
    <3>1. ASSUME NEW j \in 1..(n + 1) PROVE f[i] > f[j] \/ (f[i] = f[j] /\ i >= j)
      BY <2>1, <2>2, <2>3, <2>5
    <3> QED BY <2>3, <3>1
  <2> QED BY <2>3, <2>4, <2>5
<1> HIDE DEF P
<1>3. P(2) /\ P(3) /\ P(4) /\ P(5) /\ P(6)
  <2>1. P(2)
    BY <1>1, <1>2
  <2>2. P(3)
    BY <1>2, <2>1
  <2>3. P(4)
    BY <1>2, <2>2
  <2>4. P(5)
    BY <1>2, <2>3
  <2>5. P(6)
    BY <1>2, <2>4
  <2> QED BY <2>1, <2>2, <2>3, <2>4, <2>5
<1> QED BY <1>3 DEF P

\* Looping is the trigger only of a call that repeats another.
LEMMA BlamedRepeats ==
  ASSUME TypeOK, NEW call \in Calls, NEW sampled, Trigger(call, Weight(call, sampled)) = "looping"
  PROVE  seen[Key(call)] > 0
<1> DEFINE w == Weight(call, sampled)
           f == [i \in 1..6 |-> w[Signals[i]]]
           P(i) == \A j \in DOMAIN Signals :
                     w[Signals[i]] > w[Signals[j]] \/ (w[Signals[i]] = w[Signals[j]] /\ i >= j)
<1>1. Key(call) \in Keys /\ seen[Key(call)] \in Nat
  BY DEF Keys, TypeOK
<1>2. /\ w.burn_rate \in Nat /\ w.irreversibility \in Nat /\ w.looping \in Nat
      /\ w.novelty \in Nat /\ w.random_sample \in Nat /\ w.sensitivity \in Nat
      /\ w.looping = LoopWeight(seen[Key(call)])
      /\ DOMAIN w = {"burn_rate", "irreversibility", "looping", "novelty", "random_sample", "sensitivity"}
  BY <1>1, BurnIsNat, TierBounds, SensitivityBounds, LoopBounds DEF Weight, Repeats
<1> HIDE DEF w
<1>3. /\ DOMAIN Signals = 1..6
      /\ Signals[1] = "burn_rate" /\ Signals[2] = "irreversibility" /\ Signals[3] = "looping"
      /\ Signals[4] = "novelty" /\ Signals[5] = "random_sample" /\ Signals[6] = "sensitivity"
  BY DEF Signals
<1>4. \A i \in 1..6 : w[Signals[i]] \in Nat
  BY <1>2, <1>3
<1>5. \E i \in DOMAIN Signals : P(i)
  <2>1. f \in [1..6 -> Nat] /\ \A i \in 1..6 : f[i] = w[Signals[i]]
    BY <1>4
  <2> HIDE DEF f
  <2> QED BY <1>3, <2>1, LastGreatest
<1>6. TopSignal(w) = "looping" /\ \E s \in DOMAIN w : w[s] # 0
  BY DEF Trigger, w
<1>7. PICK top \in DOMAIN Signals : P(top) /\ TopSignal(w) = Signals[top]
  <2> DEFINE top == CHOOSE i \in DOMAIN Signals : P(i)
  <2>1. top \in DOMAIN Signals /\ P(top)
    BY <1>5
  <2>2. TopSignal(w) = Signals[top]
    BY DEF TopSignal
  <2> QED BY <2>1, <2>2
<1>8. top = 3
  BY <1>3, <1>6, <1>7
<1>9. w.looping > 0
  <2>1. \A j \in 1..6 : w[Signals[3]] >= w[Signals[j]]
    BY <1>3, <1>4, <1>7, <1>8
  <2>2. \E j \in 1..6 : w[Signals[j]] # 0
    BY <1>2, <1>3, <1>6
  <2> QED BY <1>3, <1>4, <2>1, <2>2
<1> QED BY <1>1, <1>2, <1>9, LoopBounds

\* A record that blames no looping, or blames it rightly, keeps every blame right.
LEMMA BlameStays ==
  ASSUME CountInv, NEW d, log' = Append(log, d),
         d.semantic_trigger = "looping" => \E j \in Serves : Key(log[j].call) = Key(d.call)
  PROVE  TriggerTrue'
<1>1. /\ Len(log) \in Nat /\ DOMAIN log = 1..Len(log) /\ DOMAIN log' = 1..(Len(log) + 1)
      /\ \A i \in 1..Len(log) : log'[i] = log[i]
      /\ log'[Len(log) + 1] = d
  BY LogGrows DEF CountInv
<1>2. ASSUME NEW i \in DOMAIN log', log'[i].semantic_trigger = "looping"
      PROVE  \E j \in 1..(i - 1) : log'[j].verdict = "served" /\ Key(log'[j].call) = Key(log'[i].call)
  <2>1. CASE i \in DOMAIN log
    <3>1. PICK j \in 1..(i - 1) : log[j].verdict = "served" /\ Key(log[j].call) = Key(log[i].call)
      BY <1>1, <1>2, <2>1 DEF CountInv, TriggerTrue
    <3>2. j \in 1..Len(log)
      BY <1>1, <2>1
    <3> QED BY <1>1, <2>1, <3>1, <3>2
  <2>2. CASE i = Len(log) + 1
    <3>1. PICK j \in Serves : Key(log[j].call) = Key(d.call)
      BY <1>1, <1>2, <2>2
    <3>2. j \in 1..Len(log) /\ log[j].verdict = "served"
      BY <1>1, <3>1 DEF Serves
    <3> QED BY <1>1, <2>2, <3>1, <3>2
  <2> QED BY <1>1, <2>1, <2>2
<1> QED BY <1>2 DEF TriggerTrue, Key

\* A new session has served nothing.
LEMMA InitCountInv == Init => CountInv
<1> SUFFICES ASSUME Init PROVE CountInv
  OBVIOUS
<1>1. TypeOK
  BY InitIInv DEF IInv
<1>2. log = <<>> /\ made = 0 /\ used = {} /\ seen = [k \in Keys |-> 0]
  BY DEF Init
<1>3. Serves = {} /\ \A k : ServesOf(k) = {}
  BY <1>2 DEF Serves, ServesOf
<1>4. Exact
  BY <1>2, <1>3, FS_EmptySet DEF Exact
<1>5. TriggerTrue
  BY <1>2 DEF TriggerTrue
<1> QED BY <1>1, <1>4, <1>5 DEF CountInv

\* Every decision keeps the counts.
LEMMA NextCountInv == CountInv /\ IInv /\ [Next]_vars => CountInv'
<1> SUFFICES ASSUME CountInv, IInv, [Next]_vars PROVE CountInv'
  OBVIOUS
<1>1. TypeOK'
  BY NextIInv DEF IInv
<1>2. ASSUME NEW call \in Calls, RefuseOverBudget(call) \/ RefuseByPolicy(call) PROVE CountInv'
  <2> DEFINE d == Decision(call, "denied", FALSE, Null, FALSE, Null)
  <2>1. /\ log' = Append(log, d) /\ UNCHANGED <<made, used, seen, spent>>
        /\ d.verdict # "served" /\ d.semantic_trigger = Null
    BY <1>2 DEF RefuseOverBudget, RefuseByPolicy, Logs, Decision
  <2>2. d.semantic_trigger # "looping"
    BY <2>1, GateAssumption
  <2> HIDE DEF d
  <2> QED BY <1>1, <2>1, <2>2, NoServe, BlameStays DEF CountInv
<1>3. ASSUME NEW call \in Calls, NEW sampled, NEW charge, PassUnjudged(call, sampled, charge)
      PROVE  CountInv'
  <2> DEFINE d == Decision(call, "served", FALSE, Null, FALSE, Null)
  <2>1. /\ log' = Append(log, d) /\ Serve(call, charge)
        /\ d.verdict = "served" /\ d.call = call /\ d.semantic_trigger = Null
    BY <1>3 DEF PassUnjudged, Logs, Decision
  <2>2. d.semantic_trigger # "looping"
    BY <2>1, GateAssumption
  <2> HIDE DEF d
  <2> QED BY <1>1, <2>1, <2>2, OneServe, BlameStays DEF CountInv
<1>4. ASSUME NEW call \in Calls, NEW sampled, NEW charge, NEW answer,
             PassJudged(call, sampled, charge, answer)
      PROVE  CountInv'
  <2> DEFINE d == Decision(call, VerdictOn(answer), TRUE, Trigger(call, Weight(call, sampled)),
                           cache[Key(call)] = Null, answer)
  <2>1. /\ log' = Append(log, d) /\ d.call = call
        /\ d.semantic_trigger = Trigger(call, Weight(call, sampled))
        /\ d.verdict = "served" => Serve(call, charge)
        /\ d.verdict # "served" => UNCHANGED <<made, spent, used, seen>>
    BY <1>4 DEF PassJudged, Logs, Decision, Counts
  <2>2. d.semantic_trigger = "looping" => \E j \in Serves : Key(log[j].call) = Key(d.call)
    <3> SUFFICES ASSUME d.semantic_trigger = "looping"
                 PROVE  \E j \in Serves : Key(log[j].call) = Key(d.call)
      OBVIOUS
    <3>1. seen[Key(call)] > 0 /\ Key(call) \in Keys
      BY <2>1, BlamedRepeats DEF CountInv, Keys
    <3>2. ServesOf(Key(call)) # {}
      BY <3>1, FS_EmptySet DEF CountInv, Exact
    <3> QED BY <2>1, <3>2 DEF ServesOf
  <2> HIDE DEF d
  <2>3. Exact'
    BY <2>1, NoServe, OneServe
  <2> QED BY <1>1, <2>1, <2>2, <2>3, BlameStays DEF CountInv
<1>5. CASE UNCHANGED vars
  BY <1>1, <1>5 DEF vars, CountInv, Exact, Serves, ServesOf, TriggerTrue, Keys, Key
<1>6. ASSUME NEW call \in Calls, NEW sampled, NEW answer, RefuseByTokens(call, sampled, answer)
      PROVE  CountInv'
  <2> DEFINE d == Decision(call, "denied", FALSE, Null, TRUE, answer)
  <2>1. /\ log' = Append(log, d) /\ UNCHANGED <<made, used, seen, spent>>
        /\ d.verdict # "served" /\ d.semantic_trigger = Null
    BY <1>6 DEF RefuseByTokens, Logs, Decision
  <2>2. d.semantic_trigger # "looping"
    BY <2>1, GateAssumption
  <2> HIDE DEF d
  <2> QED BY <1>1, <2>1, <2>2, NoServe, BlameStays DEF CountInv
<1> QED BY <1>2, <1>3, <1>4, <1>5, <1>6 DEF Next

\* For any calls, costs, judge and sampling, what the score is computed from is what the
\* log says was served.
THEOREM CountsAreServed == Spec => []CountsServed
<1>1. CountInv => CountsServed
  <2> SUFFICES ASSUME CountInv PROVE CountsServed
    OBVIOUS
  <2>1. ASSUME NEW k
        PROVE  ServesOf(k) = {i \in Serves : Key(log[i].call) = k}
    BY DEF ServesOf
  <2> QED BY <2>1 DEF CountInv, Exact, CountsServed, Serves
<1> QED BY <1>1, InitIInv, NextIInv, InitCountInv, NextCountInv, PTL DEF Spec

\* For any weights a call can have, one blamed for looping was served before with the same
\* arguments.
THEOREM BlameIsTrue == Spec => []TriggerTrue
<1>1. CountInv => TriggerTrue
  BY DEF CountInv
<1> QED BY <1>1, InitIInv, NextIInv, InitCountInv, NextCountInv, PTL DEF Spec

=============================================================================
