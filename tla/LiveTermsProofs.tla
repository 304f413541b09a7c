--------------------------- MODULE LiveTermsProofs ---------------------------
(***************************************************************************)
(* For any commitments, amendments and number of handlers: a call that     *)
(* passes C3 met every ceiling in force, what the terms refuse is let      *)
(* through by amendments only, no handler dies without cause, and a        *)
(* ceiling is explained by the amendments that the log, the handlers at    *)
(* work and the dead ones account for.                                     *)
(*                                                                         *)
(* The first holds because amendments never take a meter away: the meters  *)
(* a call goes through are among those in force, so if there are as many   *)
(* of them they are the same.  The second because they never take away a   *)
(* denied pattern either, note it in the call (moved) when they set the    *)
(* deadline, and are accounted for from when they allow a pattern on.  The *)
(* last because what a handler adds to a ceiling it adds to a value that   *)
(* was in force when it had not been counted yet.                          *)
(***************************************************************************)
EXTENDS LiveTerms, SumProofs

Checking == {"deny", "allow", "calls", "deadline", "limits", "meters", "passed"}
Amending == {"add_allow", "add_deny", "add_calls", "store_calls", "set_deadline", "load_limit",
             "store_limit", "served", "clarify"}

Local == [tool : Tools \cup {OddTool, Null}, am : Amendment \cup {Null}, load : Int,
          meter : Meters \cup {Null}, todo : SUBSET Meters, seen : SUBSET Meters, size : Nat,
          start : Terms \cup {Null}, moved : BOOLEAN, keys : SUBSET Meters]

\* A handler that is busy has terms to work on, and one at an amendment has it at hand.
TypeOK ==
  /\ terms \in Terms \cup {Null}
  /\ pc \in [Threads -> {"idle"} \cup Checking \cup Amending]
  /\ loc \in [Threads -> Local]
  /\ \A t \in Threads : pc[t] # "idle" => terms \in Terms
  /\ \A t \in Threads : pc[t] \in Amending => loc[t].am \in Amendment

\* What was read of a ceiling and what is to be added to it are numbers.
Loaded(t) ==
  /\ pc[t] = "store_calls" => loc[t].load \in Int /\ loc[t].am.add_calls \in Int
  /\ pc[t] \in {"load_limit", "store_limit"} =>
       \A m \in loc[t].todo : loc[t].am.add_limits[m] # None
  /\ pc[t] = "store_limit" =>
       /\ loc[t].meter \in Meters /\ loc[t].load \in Int
       /\ loc[t].am.add_limits[loc[t].meter] \in Int

\* The meters a call goes through are in force, and it has noted how many they are.
Iterates(t) ==
  pc[t] = "meters" => /\ loc[t].keys \subseteq Metered(terms)
                      /\ loc[t].size = Cardinality(loc[t].keys)

\* What was denied when the call came is denied, and was found not to be about its tool
\* once it is past the deny list.
DenialKept(t) ==
  pc[t] \in Checking =>
    /\ loc[t].start \in Terms /\ loc[t].start # Null
    /\ loc[t].start.deny \subseteq terms.deny
    /\ pc[t] # "deny" => ~Matches(loc[t].start.deny, loc[t].tool)

\* A deadline that was past is, unless it was set meanwhile; and it was set if the call is
\* past the deadline check.
DeadlineKept(t) ==
  pc[t] \in Checking /\ loc[t].start.deadline = "past" /\ ~loc[t].moved =>
    /\ terms.deadline = "past"
    /\ pc[t] \in {"deny", "allow", "calls", "deadline"}

Inv(t) == Loaded(t) /\ Iterates(t) /\ DenialKept(t) /\ DeadlineKept(t)
IInv == TypeOK /\ \A t \in Threads : Inv(t)

-----------------------------------------------------------------------------
(* What steps have in common *)

\* A handler goes on and leaves the terms alone: what concerns the others stays true.
LEMMA OneHandler ==
  ASSUME IInv, NEW t \in Threads, terms' = terms,
         pc' = [pc EXCEPT ![t] = pc'[t]], loc' = [loc EXCEPT ![t] = loc'[t]],
         pc'[t] \in {"idle"} \cup Checking \cup Amending, loc'[t] \in Local,
         pc'[t] # "idle" => terms \in Terms,
         pc'[t] \in Amending => loc'[t].am \in Amendment,
         Inv(t)'
  PROVE  IInv'
<1>1. TypeOK'
  BY DEF IInv, TypeOK
<1>2. ASSUME NEW u \in Threads PROVE Inv(u)'
  <2>1. CASE u = t
    BY <2>1
  <2>2. CASE u # t
    <3>1. pc'[u] = pc[u] /\ loc'[u] = loc[u]
      BY <2>2 DEF IInv, TypeOK
    <3>2. Inv(u)
      BY DEF IInv
    <3> QED BY <3>1, <3>2 DEF Inv, Loaded, Iterates, DenialKept, DeadlineKept, Metered
  <2> QED BY <2>1, <2>2
<1> QED BY <1>1, <1>2 DEF IInv

\* A handler that is through keeps nothing.
LEMMA Freed ==
  ASSUME IInv, NEW t \in Threads, terms' = terms, Frees(t)
  PROVE  IInv'
<1>1. pc' = [pc EXCEPT ![t] = "idle"] /\ loc' = [loc EXCEPT ![t] = NoLocal]
  BY DEF Frees, Goto
<1>2. pc'[t] = "idle" /\ loc'[t] = NoLocal
  BY <1>1 DEF IInv, TypeOK
<1>3. NoLocal \in Local
  BY DEF NoLocal, Local
<1>4. Inv(t)'
  BY <1>2 DEF Inv, Loaded, Iterates, DenialKept, DeadlineKept, Checking
<1> QED BY <1>1, <1>2, <1>3, <1>4, OneHandler DEF Amending

\* An answer or an exception ends the handling of a request.
LEMMA Ended ==
  ASSUME IInv, NEW t \in Threads,
         \/ Answers(t)
         \/ \E odd : Dies(t, odd)
  PROVE  IInv'
BY Freed DEF Answers, Dies

\* An amendment in the middle widens the terms: calls under way keep their guarantees.
LEMMA Widens ==
  ASSUME IInv, NEW t \in Threads, NEW there \in Amending,
         pc[t] \in Amending, pc' = [pc EXCEPT ![t] = there], loc' = loc,
         terms' \in Terms, terms.deny \subseteq terms'.deny,
         Metered(terms) \subseteq Metered(terms'), terms'.deadline = terms.deadline,
         Loaded(t)'
  PROVE  IInv'
<1>1. TypeOK'
  BY DEF IInv, TypeOK
<1>2. pc'[t] = there /\ pc'[t] \notin Checking
  BY DEF IInv, TypeOK, Checking, Amending
<1>3. Inv(t)'
  BY <1>2 DEF Inv, Iterates, DenialKept, DeadlineKept, Checking
<1>4. ASSUME NEW u \in Threads, u # t PROVE Inv(u)'
  <2>1. pc'[u] = pc[u] /\ loc'[u] = loc[u] /\ Inv(u)
    BY <1>4 DEF IInv, TypeOK
  <2>2. Loaded(u)'
    BY <2>1 DEF Inv, Loaded
  <2>3. Iterates(u)'
    BY <2>1 DEF Inv, Iterates, Metered
  <2>4. DenialKept(u)' /\ DeadlineKept(u)'
    BY <2>1 DEF Inv, DenialKept, DeadlineKept
  <2> QED BY <2>2, <2>3, <2>4 DEF Inv
<1> QED BY <1>1, <1>3, <1>4 DEF IInv

-----------------------------------------------------------------------------
(* The steps of a call *)

\* A call goes past a check that does not concern what it was bound under.
LEMMA CallPasses ==
  ASSUME IInv, NEW t \in Threads, NEW there \in Checking \ {"deny", "meters"},
         pc[t] \in Checking, Pass(t, there),
         pc[t] = "deny" => ~Matches(terms.deny, loc[t].tool),
         there \in {"limits", "passed"} => pc[t] = "meters" \/ terms.deadline # "past"
  PROVE  IInv'
<1>1. pc' = [pc EXCEPT ![t] = there] /\ UNCHANGED <<terms, loc>>
  BY DEF Pass, Goto
<1>2. pc'[t] = there /\ loc'[t] = loc[t] /\ loc[t] \in Local /\ loc' = [loc EXCEPT ![t] = loc'[t]]
  BY <1>1 DEF IInv, TypeOK
<1>3. Loaded(t) /\ DenialKept(t) /\ DeadlineKept(t) /\ terms \in Terms
  BY DEF IInv, TypeOK, Inv, Checking
<1>4. Loaded(t)' /\ Iterates(t)'
  BY <1>2 DEF Loaded, Iterates, Checking
<1>5. DenialKept(t)'
  <2>1. ~Matches(loc[t].start.deny, loc[t].tool)
    BY <1>3 DEF DenialKept, Matches
  <2> QED BY <1>1, <1>2, <1>3, <2>1 DEF DenialKept, Matches
<1>6. DeadlineKept(t)'
  BY <1>1, <1>2, <1>3 DEF DeadlineKept, Checking
<1>7. there \notin Amending /\ there \in {"idle"} \cup Checking \cup Amending
  BY DEF Checking, Amending
<1> QED BY <1>1, <1>2, <1>3, <1>4, <1>5, <1>6, <1>7, OneHandler DEF Inv

\* A call starts under the terms in force.
LEMMA CallStarts ==
  ASSUME IInv, NEW t \in Threads, BindCall(t)
  PROVE  IInv'
<1>1. PICK tool \in Tools \cup {OddTool} :
        loc' = [loc EXCEPT ![t] = [NoLocal EXCEPT !.tool = tool, !.start = terms]]
  BY DEF BindCall
<1>2. pc' = [pc EXCEPT ![t] = "deny"] /\ terms # Null /\ terms' = terms
  BY DEF BindCall, Goto
<1>3. terms \in Terms
  BY <1>2 DEF IInv, TypeOK
<1>4. pc'[t] = "deny" /\ loc'[t] = [NoLocal EXCEPT !.tool = tool, !.start = terms]
  BY <1>1, <1>2 DEF IInv, TypeOK
<1>5. loc'[t] \in Local /\ loc'[t].start = terms
  <2>1. tool \in Tools \cup {OddTool, Null}
    BY <1>1
  <2>2. NoLocal \in Local
    BY DEF NoLocal, Local
  <2> QED BY <1>3, <1>4, <2>1, <2>2 DEF Local
<1>6. Inv(t)'
  BY <1>2, <1>3, <1>4, <1>5 DEF Inv, Loaded, Iterates, DenialKept, DeadlineKept, Checking
<1> QED BY <1>1, <1>2, <1>3, <1>4, <1>5, <1>6, OneHandler DEF Checking, Amending

\* The checks of C2 and the first two of C3 let a call pass, answer it or die.
LEMMA ChecksPass ==
  ASSUME IInv, NEW t \in Threads,
         CheckDeny(t) \/ CheckAllow(t) \/ CheckCalls(t) \/ CheckDeadline(t) \/ GoesOn(t)
  PROVE  IInv'
<1>1. CASE Answers(t) \/ \E odd : Dies(t, odd)
  BY <1>1, Ended
<1>2. CASE CheckDeny(t) /\ ~Matches(terms.deny, loc[t].tool) /\ Pass(t, "allow")
  BY <1>2, CallPasses DEF CheckDeny, Checking
<1>3. CASE CheckAllow(t) /\ Pass(t, "calls")
  BY <1>3, CallPasses DEF CheckAllow, Checking
<1>4. CASE CheckCalls(t) /\ Pass(t, "deadline")
  BY <1>4, CallPasses DEF CheckCalls, Checking
<1>5. CASE CheckDeadline(t) /\ terms.deadline # "past" /\ Pass(t, "limits")
  BY <1>5, CallPasses DEF CheckDeadline, Checking
<1> QED BY <1>1, <1>2, <1>3, <1>4, <1>5
        DEF CheckDeny, CheckAllow, CheckCalls, CheckDeadline, GoesOn, Fails

\* The iteration begins with the meters in force.
LEMMA IterationStarts ==
  ASSUME IInv, NEW t \in Threads, BeginMeters(t)
  PROVE  IInv'
<1> DEFINE l == [loc[t] EXCEPT !.size = Cardinality(Metered(terms)), !.keys = Metered(terms)]
<1>1. /\ pc[t] = "limits" /\ terms' = terms
      /\ pc' = [pc EXCEPT ![t] = "meters"] /\ loc' = [loc EXCEPT ![t] = l]
  BY DEF BeginMeters, Goto
<1>2. pc'[t] = "meters" /\ loc'[t] = l /\ loc[t] \in Local /\ terms \in Terms
  BY <1>1 DEF IInv, TypeOK
<1>3. Metered(terms) \subseteq Meters /\ Cardinality(Metered(terms)) \in Nat
  <2>1. Metered(terms) \subseteq Meters
    BY DEF Metered
  <2>2. IsFiniteSet(Metered(terms))
    BY <2>1, TermsAssumption, FS_Subset
  <2> QED BY <2>1, <2>2, FS_CardinalityType
<1>4. /\ l \in Local /\ l.keys = Metered(terms) /\ l.size = Cardinality(l.keys)
      /\ l.start = loc[t].start /\ l.tool = loc[t].tool /\ l.moved = loc[t].moved
  BY <1>2, <1>3 DEF Local
<1> HIDE DEF l
<1>5. Inv(t) /\ pc[t] \in Checking
  BY <1>1 DEF IInv, Checking
<1>6. Loaded(t)' /\ Iterates(t)'
  BY <1>1, <1>2, <1>4 DEF Loaded, Iterates, Metered
<1>7. DenialKept(t)'
  BY <1>1, <1>2, <1>4, <1>5 DEF Inv, DenialKept, Checking
<1>8. DeadlineKept(t)'
  BY <1>1, <1>2, <1>4, <1>5 DEF Inv, DeadlineKept, Checking
<1>9. Inv(t)'
  BY <1>6, <1>7, <1>8 DEF Inv
<1> QED BY <1>1, <1>2, <1>4, <1>9, OneHandler DEF Checking, Amending

\* The iteration goes on to the next meter, and ends if all were compared.
LEMMA IterationGoesOn ==
  ASSUME IInv, NEW t \in Threads, CheckMeter(t)
  PROVE  IInv'
<1>1. CASE Answers(t) \/ \E odd : Dies(t, odd)
  BY <1>1, Ended
<1>2. CASE Pass(t, "passed")
  BY <1>2, CallPasses DEF CheckMeter, Checking
<1>3. ASSUME NEW m \in loc[t].keys \ loc[t].seen,
             loc' = [loc EXCEPT ![t].seen = @ \cup {m}], UNCHANGED <<terms, pc>>
      PROVE  IInv'
  <2> DEFINE l == [loc[t] EXCEPT !.seen = @ \cup {m}]
  <2>1. pc[t] = "meters"
    BY DEF CheckMeter
  <2>2. /\ pc'[t] = pc[t] /\ pc' = [pc EXCEPT ![t] = pc'[t]] /\ loc' = [loc EXCEPT ![t] = l]
        /\ loc'[t] = l /\ loc[t] \in Local /\ terms \in Terms
    BY <1>3, <2>1 DEF IInv, TypeOK
  <2>3. /\ l \in Local /\ l.keys = loc[t].keys /\ l.size = loc[t].size
        /\ l.start = loc[t].start /\ l.tool = loc[t].tool /\ l.moved = loc[t].moved
    BY <2>2 DEF Local
  <2> HIDE DEF l
  <2>4. Inv(t)
    BY DEF IInv
  <2>5. Inv(t)'
    BY <1>3, <2>1, <2>2, <2>3, <2>4 DEF Inv, Loaded, Iterates, DenialKept, DeadlineKept, Metered
  <2> QED BY <1>3, <2>1, <2>2, <2>3, <2>5, OneHandler DEF Checking, Amending
<1> QED BY <1>1, <1>2, <1>3 DEF CheckMeter, Fails

-----------------------------------------------------------------------------
(* The steps of an amendment *)

\* Terms with one field changed for a value of its type are terms.
LEMMA TermsChanged ==
  ASSUME NEW x \in Terms
  PROVE  /\ \A v \in SUBSET Patterns :
               [x EXCEPT !.allow = v] \in Terms /\ [x EXCEPT !.deny = v] \in Terms
         /\ \A v \in Int : [x EXCEPT !.max_calls = v] \in Terms
         /\ \A m \in Meters : \A v \in Int : [x EXCEPT !.limits[m] = v] \in Terms
         /\ \A v \in {"none", "ahead", "past", "unparsed", "odd"} :
               [x EXCEPT !.deadline = v] \in Terms
BY DEF Terms, Ceiling

\* What an amendment asks for.
LEMMA AsksFor ==
  ASSUME NEW am \in Amendment
  PROVE  /\ am.allow \subseteq Patterns /\ am.deny \subseteq Patterns
         /\ am.add_calls \in Int \cup {None, Odd}
         /\ \A m \in Meters : am.add_limits[m] \in Int \cup {None, Odd}
         /\ am.extend_deadline \in {"keep", "none", "ahead", "past", "unparsed", "odd"}
BY DEF Amendment, Ceiling

\* An amendment that is signed begins.
LEMMA AmendmentStarts ==
  ASSUME IInv, NEW t \in Threads, BindAmendment(t)
  PROVE  IInv'
<1>1. PICK am \in Amendments : loc' = [loc EXCEPT ![t] = [NoLocal EXCEPT !.am = am]]
  BY DEF BindAmendment
<1>2. pc' = [pc EXCEPT ![t] = "add_allow"] /\ terms # Null /\ terms' = terms
  BY DEF BindAmendment, Goto
<1>3. terms \in Terms /\ am \in Amendment
  BY <1>1, <1>2, TermsAssumption DEF IInv, TypeOK
<1>4. pc'[t] = "add_allow" /\ loc'[t] = [NoLocal EXCEPT !.am = am]
  BY <1>1, <1>2 DEF IInv, TypeOK
<1>5. loc'[t] \in Local /\ loc'[t].am = am
  <2>1. NoLocal \in Local
    BY DEF NoLocal, Local
  <2> QED BY <1>3, <1>4, <2>1 DEF Local
<1>6. Inv(t)'
  BY <1>4 DEF Inv, Loaded, Iterates, DenialKept, DeadlineKept, Checking
<1> QED BY <1>1, <1>2, <1>3, <1>4, <1>5, <1>6, OneHandler DEF Checking, Amending

\* An amendment adds to the lists.
LEMMA ListsWiden ==
  ASSUME IInv, NEW t \in Threads, AddAllow(t) \/ AddDeny(t)
  PROVE  IInv'
<1> DEFINE am == loc[t].am
<1>1. CASE \E odd : Dies(t, odd)
  BY <1>1, Ended
<1>2. pc[t] \in {"add_allow", "add_deny"} /\ terms \in Terms /\ am \in Amendment
  BY DEF AddAllow, AddDeny, IInv, TypeOK, Amending
<1>3. terms.allow \subseteq Patterns /\ terms.deny \subseteq Patterns
  BY <1>2 DEF Terms
<1>4. CASE pc[t] = "add_allow" /\ Applies(t, [terms EXCEPT !.allow = @ \cup am.allow], "add_deny")
  <2>1. /\ terms' = [terms EXCEPT !.allow = terms.allow \cup am.allow]
        /\ pc' = [pc EXCEPT ![t] = "add_deny"] /\ loc' = loc
    BY <1>4 DEF Applies, Goto
  <2>2. terms' \in Terms
    BY <1>2, <1>3, <2>1, TermsChanged, AsksFor
  <2>3. terms'.deny = terms.deny /\ terms'.limits = terms.limits /\ terms'.deadline = terms.deadline
    BY <1>2, <2>1 DEF Terms
  <2>4. Loaded(t)'
    BY <2>1 DEF Loaded, IInv, TypeOK
  <2> QED BY <1>4, <2>1, <2>2, <2>3, <2>4, Widens DEF Amending, Metered
<1>5. CASE /\ pc[t] = "add_deny"
           /\ Applies(t, [terms EXCEPT !.deny = Widened(@, am.deny)], "add_calls")
  <2>1. /\ terms' = [terms EXCEPT !.deny = terms.deny \cup am.deny]
        /\ pc' = [pc EXCEPT ![t] = "add_calls"] /\ loc' = loc
    BY <1>5 DEF Applies, Goto, Widened
  <2>2. terms' \in Terms
    BY <1>2, <1>3, <2>1, TermsChanged, AsksFor
  <2>3. /\ terms'.deny = terms.deny \cup am.deny /\ terms'.limits = terms.limits
        /\ terms'.deadline = terms.deadline
    BY <1>2, <2>1 DEF Terms
  <2>4. Loaded(t)'
    BY <2>1 DEF Loaded, IInv, TypeOK
  <2> QED BY <1>5, <2>1, <2>2, <2>3, <2>4, Widens DEF Amending, Metered
<1> QED BY <1>1, <1>4, <1>5 DEF AddAllow, AddDeny, Fails

\* An amendment raises the ceiling of calls, from what it read of it.
LEMMA CallsRaised ==
  ASSUME IInv, NEW t \in Threads, LoadCalls(t) \/ StoreCalls(t)
  PROVE  IInv'
<1> DEFINE am == loc[t].am
<1>1. CASE \E odd : Dies(t, odd)
  BY <1>1, Ended
<1>2. /\ pc[t] \in {"add_calls", "store_calls"} /\ terms \in Terms /\ am \in Amendment
      /\ loc[t] \in Local
  BY DEF LoadCalls, StoreCalls, IInv, TypeOK, Amending
<1>3. CASE Pass(t, "set_deadline")
  <2>1. pc' = [pc EXCEPT ![t] = "set_deadline"] /\ loc' = loc /\ terms' = terms
    BY <1>3 DEF Pass, Goto
  <2>2. Loaded(t)'
    BY <2>1 DEF Loaded, IInv, TypeOK
  <2> QED BY <1>2, <2>1, <2>2, Widens DEF Amending, Metered
<1>4. CASE LoadCalls(t) /\ pc' = [pc EXCEPT ![t] = "store_calls"]
  <2>1. /\ pc[t] = "add_calls" /\ loc' = [loc EXCEPT ![t].load = terms.max_calls] /\ terms' = terms
        /\ None \notin {am.add_calls, terms.max_calls}
        /\ Odd \notin {am.add_calls, terms.max_calls}
    <3>1. pc'[t] = "store_calls"
      BY <1>4 DEF IInv, TypeOK
    <3> QED BY <1>4, <3>1 DEF LoadCalls, Fails, Dies, Frees, Goto, Pass, IInv, TypeOK
  <2>2. terms.max_calls \in Int /\ am.add_calls \in Int
    BY <1>2, <2>1, AsksFor DEF Terms, Ceiling
  <2>3. /\ pc'[t] = "store_calls" /\ loc'[t] = [loc[t] EXCEPT !.load = terms.max_calls]
        /\ loc' = [loc EXCEPT ![t] = loc'[t]]
    BY <1>4, <2>1 DEF IInv, TypeOK
  <2>4. loc'[t] \in Local /\ loc'[t].load = terms.max_calls /\ loc'[t].am = am
    BY <1>2, <2>2, <2>3 DEF Local
  <2>5. Inv(t)'
    BY <2>2, <2>3, <2>4 DEF Inv, Loaded, Iterates, DenialKept, DeadlineKept, Checking
  <2> QED BY <1>2, <1>4, <2>1, <2>3, <2>4, <2>5, OneHandler DEF Amending
<1>5. CASE StoreCalls(t)
  <2>1. /\ pc[t] = "store_calls" /\ terms' = [terms EXCEPT !.max_calls = loc[t].load + am.add_calls]
        /\ pc' = [pc EXCEPT ![t] = "set_deadline"] /\ loc' = loc
    BY <1>5 DEF StoreCalls, Applies, Goto
  <2>2. loc[t].load + am.add_calls \in Int
    BY <2>1 DEF IInv, Inv, Loaded
  <2>3. terms' \in Terms
    BY <1>2, <2>1, <2>2, TermsChanged
  <2>4. terms'.deny = terms.deny /\ terms'.limits = terms.limits /\ terms'.deadline = terms.deadline
    BY <1>2, <2>1 DEF Terms
  <2>5. Loaded(t)'
    BY <2>1 DEF Loaded, IInv, TypeOK
  <2> QED BY <1>2, <2>1, <2>3, <2>4, <2>5, Widens DEF Amending, Metered
<1>6. LoadCalls(t) => \/ \E odd : Dies(t, odd)
                      \/ Pass(t, "set_deadline")
                      \/ pc' = [pc EXCEPT ![t] = "store_calls"]
  BY DEF LoadCalls, Fails, Goto
<1> QED BY <1>1, <1>3, <1>4, <1>5, <1>6

\* Setting the deadline is noted in the calls under way.
LEMMA DeadlineSet ==
  ASSUME IInv, NEW t \in Threads, SetDeadline(t)
  PROVE  IInv'
<1> DEFINE am == loc[t].am
           set == am.extend_deadline # "keep"
<1>1. /\ pc[t] = "set_deadline" /\ pc' = [pc EXCEPT ![t] = "load_limit"]
      /\ terms' = IF set THEN [terms EXCEPT !.deadline = am.extend_deadline] ELSE terms
      /\ loc' = [u \in Threads |->
           IF u = t THEN [loc[u] EXCEPT !.todo = {m \in Meters : am.add_limits[m] # None}]
           ELSE [loc[u] EXCEPT !.moved = loc[u].moved \/ (set /\ loc[u].start # Null)]]
  BY DEF SetDeadline, Goto
<1>2. terms \in Terms /\ am \in Amendment /\ \A u \in Threads : loc[u] \in Local
  BY <1>1 DEF IInv, TypeOK, Amending
<1>3. /\ terms' \in Terms /\ terms'.deny = terms.deny /\ terms'.limits = terms.limits
      /\ ~set => terms' = terms
  <2>1. set => am.extend_deadline \in {"none", "ahead", "past", "unparsed", "odd"}
    BY <1>2, AsksFor
  <2>2. terms' \in Terms
    BY <1>1, <1>2, <2>1, TermsChanged
  <2> QED BY <1>1, <1>2, <2>2 DEF Terms
<1>4. /\ loc'[t] \in Local /\ loc'[t].am = am
      /\ loc'[t].todo = {m \in Meters : am.add_limits[m] # None}
  <2> HIDE DEF am, set
  <2> QED BY <1>1, <1>2 DEF Local, am
<1>5. ASSUME NEW u \in Threads, u # t
      PROVE  /\ loc'[u] \in Local /\ loc'[u] = [loc[u] EXCEPT !.moved = loc'[u].moved]
             /\ loc'[u].moved = (loc[u].moved \/ (set /\ loc[u].start # Null))
  <2> HIDE DEF set
  <2>1. loc'[u] = [loc[u] EXCEPT !.moved = loc[u].moved \/ (set /\ loc[u].start # Null)]
    BY <1>1, <1>5
  <2>2. loc[u] \in Local
    BY <1>2
  <2> QED BY <2>1, <2>2 DEF Local
<1>6. ASSUME NEW u \in Threads, u # t
      PROVE  /\ loc'[u].am = loc[u].am /\ loc'[u].load = loc[u].load /\ loc'[u].todo = loc[u].todo
             /\ loc'[u].meter = loc[u].meter /\ loc'[u].keys = loc[u].keys
             /\ loc'[u].size = loc[u].size
             /\ loc'[u].start = loc[u].start /\ loc'[u].tool = loc[u].tool
  BY <1>2, <1>5, <1>6 DEF Local
<1>7. pc'[t] = "load_limit" /\ \A u \in Threads : u # t => pc'[u] = pc[u]
  BY <1>1 DEF IInv, TypeOK
<1> HIDE DEF am, set
<1>8. TypeOK'
  <2>1. loc' \in [Threads -> Local]
    <3>1. \A u \in Threads : loc'[u] \in Local
      BY <1>4, <1>5
    <3>2. loc' = [u \in Threads |-> loc'[u]]
      BY <1>1
    <3> QED BY <3>1, <3>2
  <2>2. pc' \in [Threads -> {"idle"} \cup Checking \cup Amending]
    BY <1>1 DEF IInv, TypeOK, Amending
  <2>3. \A u \in Threads : pc'[u] \in Amending => loc'[u].am \in Amendment
    BY <1>2, <1>4, <1>6, <1>7 DEF IInv, TypeOK
  <2> QED BY <1>3, <2>1, <2>2, <2>3 DEF TypeOK
<1>9. Inv(t)'
  BY <1>4, <1>7 DEF Inv, Loaded, Iterates, DenialKept, DeadlineKept, Checking
<1>10. ASSUME NEW u \in Threads, u # t PROVE Inv(u)'
  <2>1. pc'[u] = pc[u] /\ Inv(u)
    BY <1>7, <1>10 DEF IInv
  <2>2. Loaded(u)'
    BY <1>6, <1>10, <2>1 DEF Inv, Loaded
  <2>3. Iterates(u)'
    BY <1>3, <1>6, <1>10, <2>1 DEF Inv, Iterates, Metered
  <2>4. DenialKept(u)'
    BY <1>3, <1>6, <1>10, <2>1 DEF Inv, DenialKept, Matches
  <2>5. DeadlineKept(u)'
    <3>1. pc[u] \in Checking /\ ~loc'[u].moved => ~set /\ ~loc[u].moved
      BY <1>5, <1>10, <2>1 DEF Inv, DenialKept
    <3> QED BY <1>3, <1>6, <1>10, <2>1, <3>1 DEF Inv, DeadlineKept
  <2> QED BY <2>2, <2>3, <2>4, <2>5 DEF Inv
<1> QED BY <1>8, <1>9, <1>10 DEF IInv

\* An amendment raises a limit, or sets it, from what it read of it.
LEMMA LimitsRaised ==
  ASSUME IInv, NEW t \in Threads, LoadLimit(t) \/ StoreLimit(t)
  PROVE  IInv'
<1> DEFINE am == loc[t].am
<1>1. CASE \E odd : Dies(t, odd)
  BY <1>1, Ended
<1>2. /\ pc[t] \in {"load_limit", "store_limit"} /\ terms \in Terms /\ am \in Amendment
      /\ loc[t] \in Local /\ loc[t].todo \subseteq Meters
      /\ \A m \in loc[t].todo : am.add_limits[m] # None
  BY DEF LoadLimit, StoreLimit, IInv, TypeOK, Amending, Local, Inv, Loaded
<1>3. ASSUME pc[t] = "load_limit", NEW m \in loc[t].todo,
             Odd \notin {terms.limits[m], am.add_limits[m]}, pc' = [pc EXCEPT ![t] = "store_limit"],
             loc' = [loc EXCEPT ![t].meter = m, ![t].todo = @ \ {m},
                       ![t].load = IF terms.limits[m] = None THEN 0 ELSE terms.limits[m]],
             terms' = terms
      PROVE  IInv'
  <2> DEFINE from == IF terms.limits[m] = None THEN 0 ELSE terms.limits[m]
             l == [loc[t] EXCEPT !.meter = m, !.todo = loc[t].todo \ {m}, !.load = from]
  <2>1. m \in Meters /\ am.add_limits[m] \in Int
    BY <1>2, <1>3, AsksFor
  <2>2. from \in Int
    BY <1>2, <1>3, <2>1 DEF Terms, Ceiling
  <2>3. loc' = [loc EXCEPT ![t] = l] /\ loc'[t] = l /\ pc'[t] = "store_limit"
    BY <1>3 DEF IInv, TypeOK
  <2> HIDE DEF from
  <2>4. /\ l \in Local /\ l.meter = m /\ l.load = from /\ l.am = am
        /\ l.todo = loc[t].todo \ {m}
    <3>1. m \in Meters \cup {Null} /\ loc[t].todo \ {m} \in SUBSET Meters /\ from \in Int
      BY <1>2, <2>1, <2>2
    <3>2. loc[t] \in Local
      BY <1>2
    <3> QED BY <3>1, <3>2 DEF Local
  <2> HIDE DEF l, am
  <2>5. Inv(t)'
    BY <1>2, <2>1, <2>2, <2>3, <2>4 DEF Inv, Loaded, Iterates, DenialKept, DeadlineKept, Checking
  <2> QED BY <1>2, <1>3, <2>3, <2>4, <2>5, OneHandler DEF Amending
<1>4. CASE StoreLimit(t)
  <2> DEFINE m == loc[t].meter
             raised == loc[t].load + am.add_limits[m]
  <2>1. /\ pc[t] = "store_limit" /\ terms' = [terms EXCEPT !.limits[m] = raised]
        /\ pc' = [pc EXCEPT ![t] = "load_limit"] /\ loc' = loc
    BY <1>4 DEF StoreLimit, Applies, Goto
  <2>2. m \in Meters /\ raised \in Int /\ raised # None
    BY <2>1, TermsAssumption DEF IInv, Inv, Loaded
  <2> HIDE DEF m, raised
  <2>3. terms' \in Terms
    BY <1>2, <2>1, <2>2, TermsChanged
  <2>4. /\ terms'.deny = terms.deny /\ terms'.deadline = terms.deadline
        /\ terms'.limits = [terms.limits EXCEPT ![m] = raised]
        /\ terms.limits \in [Meters -> Ceiling]
    BY <1>2, <2>1 DEF Terms
  <2>5. Metered(terms) \subseteq Metered(terms')
    BY <2>2, <2>4 DEF Metered
  <2>6. Loaded(t)'
    BY <1>2, <2>1 DEF Loaded, IInv, TypeOK
  <2> QED BY <1>2, <2>1, <2>3, <2>4, <2>5, <2>6, Widens DEF Amending
<1>5. ASSUME LoadLimit(t), ~\E odd : Dies(t, odd) PROVE IInv'
  <2>1. PICK m \in loc[t].todo :
          /\ Odd \notin {terms.limits[m], am.add_limits[m]}
          /\ Goto(t, "store_limit")
          /\ loc' = [loc EXCEPT ![t].meter = m, ![t].todo = @ \ {m},
                       ![t].load = IF terms.limits[m] = None THEN 0 ELSE terms.limits[m]]
          /\ UNCHANGED <<terms, opening, log, died, handled>>
    BY <1>5 DEF LoadLimit, Fails
  <2>2. pc[t] = "load_limit"
    BY <1>5 DEF LoadLimit
  <2> QED BY <1>3, <2>1, <2>2 DEF Goto
<1> QED BY <1>1, <1>4, <1>5

\* S2 and the record of the amendment leave the terms as they are.
LEMMA AmendmentEnds ==
  ASSUME IInv, NEW t \in Threads, JudgeScope(t) \/ RecordAmendment(t)
  PROVE  IInv'
<1>1. CASE \E odd : Dies(t, odd)
  BY <1>1, Ended
<1>2. ASSUME NEW verdict \in {"served", "clarify"}, pc[t] = "load_limit", Pass(t, verdict)
      PROVE  IInv'
  <2>1. pc' = [pc EXCEPT ![t] = verdict] /\ loc' = loc /\ terms' = terms
    BY <1>2 DEF Pass, Goto
  <2>2. terms \in Terms
    BY <1>2 DEF IInv, TypeOK
  <2>3. Loaded(t)'
    BY <2>1 DEF Loaded, IInv, TypeOK
  <2> QED BY <1>2, <2>1, <2>2, <2>3, Widens DEF Amending, Metered
<1>3. CASE RecordAmendment(t)
  BY <1>3, Freed DEF RecordAmendment
<1> QED BY <1>1, <1>2, <1>3 DEF JudgeScope, Fails

-----------------------------------------------------------------------------
(* Requests, time, and the invariant *)

\* The session begins with terms that a commitment may carry.
LEMMA Opens ==
  ASSUME IInv, NEW t \in Threads, Open(t)
  PROVE  IInv'
<1>1. pc' = pc /\ loc' = loc /\ terms' \in Terms
  BY TermsAssumption DEF Open
<1>2. TypeOK'
  BY <1>1 DEF IInv, TypeOK
<1>3. ASSUME NEW u \in Threads PROVE Inv(u)'
  <2>1. CASE pc[u] = "idle"
    BY <1>1, <2>1 DEF Inv, Loaded, Iterates, DenialKept, DeadlineKept, Checking
  <2>2. CASE pc[u] # "idle"
    BY <2>2, TermsAssumption DEF Open, IInv, TypeOK
  <2> QED BY <2>1, <2>2
<1> QED BY <1>2, <1>3 DEF IInv

\* A deadline that passes was not past before.
LEMMA TimePasses == IInv /\ DeadlinePasses => IInv'
<1> SUFFICES ASSUME IInv, DeadlinePasses PROVE IInv'
  OBVIOUS
<1>1. /\ pc' = pc /\ loc' = loc /\ terms \in Terms /\ terms' = [terms EXCEPT !.deadline = "past"]
  BY DEF DeadlinePasses, IInv, TypeOK
<1>2. /\ terms' \in Terms /\ terms'.deny = terms.deny /\ terms'.limits = terms.limits
      /\ terms'.deadline = "past" /\ terms.deadline # "past"
  <2>1. terms' \in Terms
    BY <1>1, TermsChanged
  <2> QED BY <1>1, <2>1 DEF Terms, DeadlinePasses
<1>3. TypeOK'
  BY <1>1, <1>2 DEF IInv, TypeOK
<1>4. ASSUME NEW u \in Threads PROVE Inv(u)'
  <2>1. Inv(u)
    BY DEF IInv
  <2>2. Loaded(u)' /\ Iterates(u)'
    BY <1>1, <1>2, <2>1 DEF Inv, Loaded, Iterates, Metered
  <2>3. DenialKept(u)'
    BY <1>1, <1>2, <2>1 DEF Inv, DenialKept, Matches
  <2>4. DeadlineKept(u)'
    BY <1>1, <1>2, <2>1 DEF Inv, DeadlineKept
  <2> QED BY <2>2, <2>3, <2>4 DEF Inv
<1> QED BY <1>3, <1>4 DEF IInv

\* Nothing that concerns the invariant changes.
LEMMA Stutters == IInv /\ UNCHANGED <<terms, pc, loc>> => IInv'
<1> SUFFICES ASSUME IInv, UNCHANGED <<terms, pc, loc>> PROVE IInv'
  OBVIOUS
<1>1. TypeOK'
  BY DEF IInv, TypeOK
<1>2. ASSUME NEW u \in Threads PROVE Inv(u)'
  BY DEF IInv, Inv, Loaded, Iterates, DenialKept, DeadlineKept, Metered, Matches
<1> QED BY <1>1, <1>2 DEF IInv

\* A handler begins with a request.
LEMMA Begins ==
  ASSUME IInv, NEW t \in Threads, Begin(t)
  PROVE  IInv'
<1>1. CASE \E kind \in Kinds : TurnAway(t, kind)
  BY <1>1, Stutters DEF TurnAway
<1>2. CASE \E kind \in Kinds : DiesReading(t, kind)
  BY <1>2, Ended DEF DiesReading
<1>3. CASE Open(t)
  BY <1>3, Opens
<1>4. CASE BindCall(t)
  BY <1>4, CallStarts
<1>5. CASE RefuseUnsigned(t)
  BY <1>5, Stutters DEF RefuseUnsigned
<1>6. CASE BindAmendment(t)
  BY <1>6, AmendmentStarts
<1> QED BY <1>1, <1>2, <1>3, <1>4, <1>5, <1>6 DEF Begin

\* Before the session is opened nothing is under way.
LEMMA InitIInv == Init => IInv
<1> SUFFICES ASSUME Init PROVE IInv
  OBVIOUS
<1>1. NoLocal \in Local
  BY DEF NoLocal, Local
<1>2. TypeOK
  BY <1>1 DEF Init, TypeOK, Amending
<1>3. ASSUME NEW t \in Threads PROVE Inv(t)
  BY DEF Init, Inv, Loaded, Iterates, DenialKept, DeadlineKept, Checking
<1> QED BY <1>2, <1>3 DEF IInv

\* Every step keeps the invariant.
LEMMA NextIInv == IInv /\ [Next]_vars => IInv'
<1> SUFFICES ASSUME IInv, [Next]_vars PROVE IInv'
  OBVIOUS
<1>1. CASE DeadlinePasses
  BY <1>1, TimePasses
<1>2. ASSUME NEW t \in Threads, Begin(t) PROVE IInv'
  BY <1>2, Begins
<1>3. ASSUME NEW t \in Threads, Handle(t) PROVE IInv'
  <2>1. CASE CheckDeny(t) \/ CheckAllow(t) \/ CheckCalls(t) \/ CheckDeadline(t) \/ GoesOn(t)
    BY <2>1, ChecksPass
  <2>2. CASE BeginMeters(t) \/ CheckMeter(t)
    BY <2>2, IterationStarts, IterationGoesOn
  <2>3. CASE AddAllow(t) \/ AddDeny(t) \/ LoadCalls(t) \/ StoreCalls(t)
    BY <2>3, ListsWiden, CallsRaised
  <2>4. CASE SetDeadline(t) \/ LoadLimit(t) \/ StoreLimit(t)
    BY <2>4, DeadlineSet, LimitsRaised
  <2>5. CASE JudgeScope(t) \/ RecordAmendment(t)
    BY <2>5, AmendmentEnds
  <2> QED BY <1>3, <2>1, <2>2, <2>3, <2>4, <2>5 DEF Handle
<1>4. CASE UNCHANGED vars
  BY <1>4, Stutters DEF vars
<1> QED BY <1>1, <1>2, <1>3, <1>4 DEF Next

-----------------------------------------------------------------------------
(* The theorems *)

\* A call comes to have passed C3 by the end of the iteration, and in no other way.
LEMMA PassesBy ==
  ASSUME IInv, [Next]_vars, NEW t \in Threads, pc[t] # "passed", pc'[t] = "passed"
  PROVE  /\ pc[t] = "meters" /\ ~IterationBroken(t) /\ loc[t].seen = loc[t].keys
         /\ terms' = terms
<1>1. TypeOK
  BY DEF IInv
<1>2. ASSUME NEW u, Frees(u) PROVE pc'[t] # "passed"
  BY <1>1, <1>2 DEF Frees, Goto, TypeOK
<1>3. ASSUME NEW u, NEW there, Goto(u, there), there # "passed" PROVE FALSE
  BY <1>1, <1>3 DEF Goto, TypeOK
<1>4. ~UNCHANGED pc
  OBVIOUS
<1>5. ~DeadlinePasses /\ ~UNCHANGED vars
  BY <1>4 DEF DeadlinePasses, vars
<1>6. PICK u \in Threads : Begin(u) \/ Handle(u)
  BY <1>5 DEF Next
<1>7. ~Answers(u) /\ ~\E odd : Dies(u, odd)
  BY <1>2 DEF Answers, Dies
<1>8. ~Begin(u)
  BY <1>3, <1>4, <1>7 DEF Begin, TurnAway, DiesReading, Open, BindCall, RefuseUnsigned,
     BindAmendment
<1>9. /\ ~CheckDeny(u) /\ ~CheckAllow(u) /\ ~CheckCalls(u) /\ ~CheckDeadline(u)
      /\ ~BeginMeters(u) /\ ~GoesOn(u)
  BY <1>3, <1>7
     DEF CheckDeny, CheckAllow, CheckCalls, CheckDeadline, BeginMeters, GoesOn, Pass, Fails
<1>10. ~AddAllow(u) /\ ~AddDeny(u) /\ ~LoadCalls(u) /\ ~StoreCalls(u) /\ ~SetDeadline(u)
  BY <1>3, <1>7 DEF AddAllow, AddDeny, LoadCalls, StoreCalls, SetDeadline, Applies, Pass, Fails
<1>11. ~LoadLimit(u) /\ ~StoreLimit(u) /\ ~JudgeScope(u) /\ ~RecordAmendment(u)
  BY <1>2, <1>3, <1>7 DEF LoadLimit, StoreLimit, JudgeScope, RecordAmendment, Applies, Pass, Fails
<1>12. CheckMeter(u)
  BY <1>6, <1>8, <1>9, <1>10, <1>11 DEF Handle
<1>13. pc[u] = "meters" /\ ~IterationBroken(u) /\ loc[u].seen = loc[u].keys /\ Pass(u, "passed")
  BY <1>4, <1>7, <1>12 DEF CheckMeter, Fails
<1>14. u = t
  BY <1>1, <1>13 DEF Pass, Goto, TypeOK
<1> QED BY <1>13, <1>14 DEF Pass

\* For any meters and amendments, a call that passes C3 was compared with every ceiling
\* in force at that moment.
THEOREM ChecksComplete == Spec => CheckComplete
<1>1. ASSUME IInv, [Next]_vars, NEW t \in Threads, pc[t] # "passed", pc'[t] = "passed"
      PROVE  Metered(terms') \subseteq loc[t].seen
  <2>1. /\ pc[t] = "meters" /\ ~IterationBroken(t) /\ loc[t].seen = loc[t].keys /\ terms' = terms
    BY <1>1, PassesBy
  <2>2. /\ loc[t].keys \subseteq Metered(terms)
        /\ Cardinality(loc[t].keys) = Cardinality(Metered(terms))
    BY <1>1, <2>1 DEF IInv, Inv, Iterates, IterationBroken
  <2>3. IsFiniteSet(Metered(terms))
    BY TermsAssumption, FS_Subset DEF Metered
  <2>4. loc[t].keys = Metered(terms)
    BY <2>2, <2>3, FS_Subset
  <2> QED BY <2>1, <2>4
<1>2. IInv /\ [Next]_vars =>
        [\A t \in Threads :
           pc[t] # "passed" /\ pc'[t] = "passed" => Metered(terms') \subseteq loc[t].seen]_vars
  BY <1>1
<1> QED BY <1>2, InitIInv, NextIInv, PTL DEF Spec, CheckComplete

-----------------------------------------------------------------------------
(* What a handler dies of *)

Names ==
  {"principal", "agent_id", "scope", "tools_allow", "tools_deny", "budget", "limits",
   "commitment", "goal", "session_id", "intent", "rationale", "expected_effect", "sensitivity",
   "unhashable_sensitivity", "call", "tool", "arguments", "envelope", "amendment", "reason",
   "sections", "unhashable_session_id"}

FieldType == [name : Names, missing : {"fine", "malformed"}, odd : {"fine", "malformed", "raises"}]

\* No field of a message raises for being absent.
LEMMA FieldsRead ==
  ASSUME NEW kind \in Kinds
  PROVE  FieldsOf(kind) \in Seq(FieldType)
<1>1. ASSUME NEW name \in Names, NEW missing \in {"fine", "malformed"},
             NEW odd \in {"fine", "malformed", "raises"}
      PROVE  Field(name, missing, odd) \in FieldType
  BY DEF Field, FieldType
<1>2. /\ \A a \in FieldType : <<a>> \in Seq(FieldType)
      /\ \A a, b \in FieldType : <<a, b>> \in Seq(FieldType)
      /\ \A a, b, c \in FieldType : <<a, b, c>> \in Seq(FieldType)
      /\ \A a, b, c, d, e \in FieldType : <<a, b, c, d, e>> \in Seq(FieldType)
  OBVIOUS
<1>3. PrincipalFields \in Seq(FieldType) /\ ScopeFields \in Seq(FieldType)
  BY <1>1, <1>2 DEF Names, PrincipalFields, ScopeFields
<1>4. BudgetFields \in Seq(FieldType) /\ IntentFields \in Seq(FieldType)
  BY <1>1, <1>2 DEF Names, BudgetFields, IntentFields
<1>5. CallFields \in Seq(FieldType) /\ AmendmentFields \in Seq(FieldType)
  BY <1>1, <1>2 DEF Names, CallFields, AmendmentFields
<1>6. CommitmentFields \in Seq(FieldType)
  <2>1. /\ <<Field("commitment", "malformed", "raises"), Field("goal", "malformed", "fine"),
             Field("session_id", "malformed", "fine")>> \in Seq(FieldType)
        /\ <<Field("goal", "fine", "raises")>> \in Seq(FieldType)
    BY <1>1, <1>2 DEF Names
  <2> QED BY <1>3, <1>4, <2>1 DEF CommitmentFields
<1>7. EnvelopeFields \in Seq(FieldType)
  <2>1. <<Field("envelope", "malformed", "raises")>> \in Seq(FieldType)
    BY <1>1, <1>2 DEF Names
  <2> QED BY <1>4, <1>5, <2>1 DEF EnvelopeFields
<1> QED BY <1>5, <1>6, <1>7 DEF FieldsOf, Kinds

\* So a message that makes the reader raise has something odd.
LEMMA OddRaises ==
  ASSUME NEW kind \in Kinds, NEW odd, [how |-> "raises", odd |-> odd] \in Readings[kind]
  PROVE  odd
<1>1. PICK faults \in FaultSets(kind) :
        /\ Parsed(kind, faults) = "raises" /\ odd = (\E f \in faults : f[2] = "odd")
  BY DEF Readings
<1> DEFINE first(i) == /\ Reaction(FieldsOf(kind)[i], faults) # "fine"
                       /\ \A j \in 1..(i - 1) : Reaction(FieldsOf(kind)[j], faults) = "fine"
<1>2. PICK i \in DOMAIN FieldsOf(kind) : Reaction(FieldsOf(kind)[i], faults) = "raises"
  <2>1. \E i \in DOMAIN FieldsOf(kind) : first(i)
    BY <1>1, "raises" # "fine" DEF Parsed
  <2> QED BY <1>1, <2>1 DEF Parsed
<1>3. FieldsOf(kind)[i] \in FieldType
  BY <1>2, FieldsRead
<1>4. <<FieldsOf(kind)[i].name, "odd">> \in faults
  BY <1>2, <1>3 DEF Reaction, FieldType
<1> QED BY <1>1, <1>4

Death == [am : Amendment \cup {Null}, odd : BOOLEAN, poisoned : BOOLEAN, grew : BOOLEAN]

DeathInv == died \in Seq(Death) /\ DiesOnlyOf

\* A handler that dies with a reason is added to the dead.
LEMMA DiesWithReason ==
  ASSUME IInv, DeathInv, NEW t \in Threads, NEW odd \in BOOLEAN, Dies(t, odd),
         odd \/ Poisoned \/ (pc[t] = "meters" /\ loc[t].keys # Metered(terms))
  PROVE  DeathInv'
<1> DEFINE d == [am |-> loc[t].am, odd |-> odd, poisoned |-> Poisoned,
                 grew |-> pc[t] = "meters" /\ loc[t].keys # Metered(terms)]
<1>1. Poisoned \in BOOLEAN
  BY DEF Poisoned
<1>2. d \in Death
  BY <1>1 DEF IInv, TypeOK, Local, Death
<1>3. d.odd \/ d.poisoned \/ d.grew
  OBVIOUS
<1>4. died' = Append(died, d)
  BY DEF Dies
<1> HIDE DEF d
<1>5. /\ died' \in Seq(Death) /\ DOMAIN died' = 1..(Len(died) + 1) /\ Len(died) \in Nat
      /\ died'[Len(died) + 1] = d /\ \A i \in 1..Len(died) : died'[i] = died[i]
  BY <1>2, <1>4 DEF DeathInv
<1>6. DOMAIN died = 1..Len(died)
  BY DEF DeathInv
<1> QED BY <1>3, <1>5, <1>6 DEF DeathInv, DiesOnlyOf

\* A handler at work has terms.
LEMMA TermsThere ==
  ASSUME IInv, NEW t \in Threads, pc[t] # "idle"
  PROVE  terms \in Terms /\ terms # Null
  BY TermsAssumption DEF IInv, TypeOK

\* What ends a call is an odd tool, something odd in the terms, or a meter that was added.
LEMMA CallDies ==
  ASSUME IInv, DeathInv, NEW t \in Threads,
         CheckDeny(t) \/ CheckAllow(t) \/ CheckCalls(t) \/ CheckDeadline(t) \/ BeginMeters(t)
         \/ CheckMeter(t) \/ GoesOn(t)
  PROVE  DeathInv'
<1>1. CASE UNCHANGED died
  BY <1>1 DEF DeathInv, DiesOnlyOf
<1>2. pc[t] # "idle"
  BY DEF CheckDeny, CheckAllow, CheckCalls, CheckDeadline, BeginMeters, CheckMeter, GoesOn
<1>3. CASE CheckDeny(t) /\ ~UNCHANGED died
  <2>1. Raises(terms.deny, loc[t].tool) /\ Dies(t, loc[t].tool = OddTool)
    BY <1>3 DEF CheckDeny, Answers, Pass, Fails
  <2>2. loc[t].tool = OddTool \/ Poisoned
    BY <1>2, <2>1, TermsThere DEF Raises, Poisoned
  <2> QED BY <2>1, <2>2, DiesWithReason
<1>4. CASE CheckAllow(t) /\ ~UNCHANGED died
  <2>1. Raises(terms.allow, loc[t].tool) /\ Dies(t, loc[t].tool = OddTool)
    BY <1>4 DEF CheckAllow, Answers, Pass, Fails
  <2>2. loc[t].tool = OddTool \/ Poisoned
    BY <1>2, <2>1, TermsThere DEF Raises, Poisoned
  <2> QED BY <2>1, <2>2, DiesWithReason
<1>5. CASE (CheckCalls(t) \/ CheckDeadline(t)) /\ ~UNCHANGED died
  <2>1. (terms.max_calls = Odd \/ terms.deadline = "odd") /\ Dies(t, FALSE)
    BY <1>5 DEF CheckCalls, CheckDeadline, Answers, Pass, Fails
  <2>2. Poisoned
    BY <1>2, <2>1, TermsThere DEF Poisoned
  <2> QED BY <2>1, <2>2, DiesWithReason
<1>6. CASE CheckMeter(t) /\ ~UNCHANGED died
  <2>1. /\ pc[t] = "meters" /\ Dies(t, FALSE)
        /\ IterationBroken(t) \/ \E m \in loc[t].keys : terms.limits[m] = Odd
    BY <1>6 DEF CheckMeter, Answers, Pass, Fails
  <2>2. loc[t].keys \subseteq Meters /\ loc[t].size = Cardinality(loc[t].keys)
    BY <2>1 DEF IInv, Inv, Iterates, TypeOK, Local
  <2>3. CASE IterationBroken(t)
    <3>1. loc[t].keys # Metered(terms)
      BY <2>2, <2>3 DEF IterationBroken
    <3> QED BY <2>1, <3>1, DiesWithReason
  <2>4. CASE \E m \in loc[t].keys : terms.limits[m] = Odd
    <3>1. Poisoned
      BY <1>2, <2>2, <2>4, TermsThere DEF Poisoned
    <3> QED BY <2>1, <3>1, DiesWithReason
  <2> QED BY <2>1, <2>3, <2>4
<1>7. BeginMeters(t) \/ GoesOn(t) => UNCHANGED died
  BY DEF BeginMeters, GoesOn, Answers
<1> QED BY <1>1, <1>3, <1>4, <1>5, <1>6, <1>7

\* What ends an amendment is something odd in it, or in the terms it adds to.
LEMMA AmendmentDies ==
  ASSUME IInv, DeathInv, NEW t \in Threads,
         AddAllow(t) \/ AddDeny(t) \/ LoadCalls(t) \/ StoreCalls(t) \/ SetDeadline(t)
         \/ LoadLimit(t) \/ StoreLimit(t) \/ JudgeScope(t) \/ RecordAmendment(t)
  PROVE  DeathInv'
<1>1. CASE UNCHANGED died
  BY <1>1 DEF DeathInv, DiesOnlyOf
<1>2. pc[t] # "idle"
  BY DEF AddAllow, AddDeny, LoadCalls, StoreCalls, SetDeadline, LoadLimit, StoreLimit, JudgeScope,
         RecordAmendment
<1>3. CASE (AddAllow(t) \/ AddDeny(t)) /\ ~UNCHANGED died
  <2>1. Dies(t, TRUE)
    BY <1>3 DEF AddAllow, AddDeny, Applies, Fails
  <2> QED BY <2>1, DiesWithReason
<1>4. CASE LoadCalls(t) /\ ~UNCHANGED died
  <2> DEFINE odd == Odd = loc[t].am.add_calls \/ loc[t].am.odd # {}
  <2>1. Dies(t, odd) /\ (odd \/ terms.max_calls = Odd)
    BY <1>4 DEF LoadCalls, Pass, Fails
  <2>2. odd \/ Poisoned
    BY <1>2, <2>1, TermsThere DEF Poisoned
  <2> QED BY <2>1, <2>2, DiesWithReason
<1>5. CASE LoadLimit(t) /\ ~UNCHANGED died
  <2>1. CASE Dies(t, TRUE)
    BY <2>1, DiesWithReason
  <2>2. CASE ~Dies(t, TRUE)
    <3>1. PICK m \in loc[t].todo :
            /\ Dies(t, loc[t].am.add_limits[m] = Odd)
            /\ loc[t].am.add_limits[m] = Odd \/ terms.limits[m] = Odd
      BY <1>5, <2>2 DEF LoadLimit, Fails
    <3>2. m \in Meters
      BY DEF IInv, TypeOK, Local
    <3>3. loc[t].am.add_limits[m] = Odd \/ Poisoned
      BY <1>2, <3>1, <3>2, TermsThere DEF Poisoned
    <3> QED BY <3>1, <3>3, DiesWithReason
  <2> QED BY <2>1, <2>2
<1>6. CASE JudgeScope(t) /\ ~UNCHANGED died
  <2>1. PICK odd \in BOOLEAN : OddPattern \in terms.allow /\ Dies(t, odd)
    <3>1. OddPattern \in terms.allow /\ Dies(t, OddPattern \in loc[t].am.allow)
      BY <1>6 DEF JudgeScope, Pass, Fails
    <3>2. (OddPattern \in loc[t].am.allow) \in BOOLEAN
      OBVIOUS
    <3> QED BY <3>1, <3>2, Zenon
  <2>2. Poisoned
    BY <1>2, <2>1, TermsThere DEF Poisoned
  <2> QED BY <2>1, <2>2, DiesWithReason
<1>7. StoreCalls(t) \/ SetDeadline(t) \/ StoreLimit(t) \/ RecordAmendment(t) => UNCHANGED died
  BY DEF StoreCalls, SetDeadline, StoreLimit, RecordAmendment, Applies
<1> QED BY <1>1, <1>3, <1>4, <1>5, <1>6, <1>7

\* What ends the reading of a request is something odd in it.
LEMMA ReaderDies ==
  ASSUME IInv, DeathInv, NEW t \in Threads, Begin(t)
  PROVE  DeathInv'
<1>1. CASE UNCHANGED died
  BY <1>1 DEF DeathInv, DiesOnlyOf
<1>2. CASE ~UNCHANGED died
  <2>1. PICK kind \in Kinds, odd \in BOOLEAN : Read(t, kind, "raises", odd) /\ Dies(t, odd)
    BY <1>2 DEF Begin, TurnAway, DiesReading, Open, BindCall, RefuseUnsigned, BindAmendment
  <2>2. odd
    BY <2>1, OddRaises DEF Read
  <2> QED BY <2>1, <2>2, DiesWithReason
<1> QED BY <1>1, <1>2

\* Every step keeps that.
LEMMA DeathNext == IInv /\ DeathInv /\ [Next]_vars => DeathInv'
<1> SUFFICES ASSUME IInv, DeathInv, [Next]_vars PROVE DeathInv'
  OBVIOUS
<1>1. CASE UNCHANGED died
  BY <1>1 DEF DeathInv, DiesOnlyOf
<1>2. DeadlinePasses \/ UNCHANGED vars => UNCHANGED died
  BY DEF DeadlinePasses, vars
<1> QED BY <1>1, <1>2, CallDies, AmendmentDies, ReaderDies DEF Next, Handle

\* For any messages, terms and number of handlers, one dies of something odd in its own
\* message or left in the terms, or because a meter is added under its eyes, and never of
\* what is merely missing (dispatch, _check_budget, amend).
THEOREM DeathsExplained == Spec => []DiesOnlyOf
<1>1. Init => DeathInv
  BY DEF Init, DeathInv, DiesOnlyOf
<1>2. DeathInv => DiesOnlyOf
  BY DEF DeathInv
<1> QED BY <1>1, <1>2, DeathNext, InitIInv, NextIInv, PTL DEF Spec

-----------------------------------------------------------------------------
(* What amendments add up to *)

Logged(asked, lg) == SumFunction([i \in DOMAIN lg |-> asked[lg[i]]])
Carried(asked, lc, P) == SumFunction([t \in P |-> asked[lc[t].am]])
Counted(dd) == {i \in DOMAIN dd : dd[i].am # Null /\ (dd[i].odd \/ dd[i].poisoned)}
Lost(asked, dd) == SumFunction([i \in Counted(dd) |-> asked[dd[i].am]])

\* What the log, the handlers in P and the dead ones account for.
Total(asked, P) == Logged(asked, log) + Carried(asked, loc, P) + Lost(asked, died)

Deaths == [am : Amendments \cup {Null}, odd : BOOLEAN, poisoned : BOOLEAN, grew : BOOLEAN]

\* The log adds up to a number, and to more by an amendment that is added to it.
LEMMA LoggedGrows ==
  ASSUME NEW asked \in [Amendments -> Nat], NEW lg \in Seq(Amendments)
  PROVE  /\ Logged(asked, lg) \in Nat
         /\ \A am \in Amendments : Logged(asked, Append(lg, am)) = Logged(asked, lg) + asked[am]
<1>1. DOMAIN lg = 1..Len(lg) /\ Len(lg) \in Nat /\ \A i \in 1..Len(lg) : lg[i] \in Amendments
  OBVIOUS
<1> DEFINE f == [i \in DOMAIN lg |-> asked[lg[i]]]
<1>2. IsFiniteSet(1..Len(lg)) /\ \A i \in 1..Len(lg) : f[i] \in Nat
  BY <1>1, FS_Interval
<1>3. Logged(asked, lg) = SumFunctionOnSet(f, 1..Len(lg)) /\ Logged(asked, lg) \in Nat
  BY <1>1, <1>2, SumNat DEF Logged, SumFunction
<1>4. ASSUME NEW am \in Amendments
      PROVE  Logged(asked, Append(lg, am)) = Logged(asked, lg) + asked[am]
  <2> DEFINE more == Append(lg, am)
             n == Len(lg) + 1
             g == [i \in DOMAIN more |-> asked[more[i]]]
  <2>1. /\ DOMAIN more = (1..Len(lg)) \cup {n} /\ n \notin 1..Len(lg)
        /\ more[n] = am /\ \A i \in 1..Len(lg) : more[i] = lg[i]
    BY <1>1
  <2> HIDE DEF more, n
  <2>2. /\ g[n] = asked[am] /\ asked[am] \in Nat
        /\ \A i \in 1..Len(lg) : g[i] = f[i]
    BY <1>1, <2>1
  <2>3. DOMAIN g = DOMAIN more
    OBVIOUS
  <2> HIDE DEF g, f
  <2>4. SumFunctionOnSet(g, (1..Len(lg)) \cup {n}) = g[n] + SumFunctionOnSet(g, 1..Len(lg))
    <3>1. \A x \in (1..Len(lg)) \cup {n} : g[x] \in Int
      BY <1>2, <2>2
    <3> QED BY <1>2, <2>1, <3>1, SumAdd
  <2>5. SumFunctionOnSet(g, 1..Len(lg)) = SumFunctionOnSet(f, 1..Len(lg))
    BY <1>2, <2>2, SumSame
  <2>6. Logged(asked, more) = SumFunctionOnSet(g, (1..Len(lg)) \cup {n})
    BY <2>1, <2>3 DEF Logged, SumFunction, g
  <2> QED BY <1>3, <2>2, <2>4, <2>5, <2>6 DEF more
<1> QED BY <1>3, <1>4

\* So do the handlers at work on amendments.
LEMMA CarriedGrows ==
  ASSUME NEW asked \in [Amendments -> Nat], NEW P \in SUBSET Threads, NEW Q \in SUBSET Threads,
         NEW lc, NEW ld, \A t \in P : lc[t].am \in Amendments, \A t \in Q : ld[t].am \in Amendments
  PROVE  /\ Carried(asked, lc, P) \in Nat
         /\ P \subseteq Q /\ (\A t \in P : ld[t].am = lc[t].am) =>
              /\ Carried(asked, lc, P) <= Carried(asked, ld, Q)
              /\ \A t \in Q \ P :
                   Carried(asked, lc, P) + asked[ld[t].am] <= Carried(asked, ld, Q)
<1> DEFINE f == [t \in P |-> asked[lc[t].am]]
           g == [t \in Q |-> asked[ld[t].am]]
<1>1. IsFiniteSet(P) /\ IsFiniteSet(Q)
  BY TermsAssumption, FS_Subset
<1>2. (\A t \in P : f[t] \in Nat) /\ (\A t \in Q : g[t] \in Nat)
  OBVIOUS
<1>3. /\ Carried(asked, lc, P) = SumFunctionOnSet(f, P)
      /\ Carried(asked, ld, Q) = SumFunctionOnSet(g, Q)
  BY DEF Carried, SumFunction
<1>4. Carried(asked, lc, P) \in Nat /\ Carried(asked, ld, Q) \in Nat
  <2> HIDE DEF f, g
  <2> QED BY <1>1, <1>2, <1>3, SumNat
<1>5. ASSUME P \subseteq Q, \A t \in P : ld[t].am = lc[t].am
      PROVE  /\ Carried(asked, lc, P) <= Carried(asked, ld, Q)
             /\ \A t \in Q \ P : Carried(asked, lc, P) + asked[ld[t].am] <= Carried(asked, ld, Q)
  <2>1. \A t \in P : g[t] = f[t]
    BY <1>5
  <2>2. \A t \in Q : g[t] = asked[ld[t].am]
    OBVIOUS
  <2> HIDE DEF f, g
  <2>3. SumFunctionOnSet(f, P) = SumFunctionOnSet(g, P)
    BY <1>1, <2>1, SumSame
  <2>4. SumFunctionOnSet(g, P) <= SumFunctionOnSet(g, Q)
    BY <1>1, <1>2, <1>5, SumPart
  <2>5. ASSUME NEW t \in Q \ P
        PROVE  SumFunctionOnSet(g, P) + g[t] <= SumFunctionOnSet(g, Q)
    <3>1. SumFunctionOnSet(g, P \cup {t}) = g[t] + SumFunctionOnSet(g, P)
      <4>1. t \notin P /\ \A x \in P \cup {t} : g[x] \in Int
        BY <1>2, <1>5
      <4> QED BY <1>1, <4>1, SumAdd
    <3>2. SumFunctionOnSet(g, P \cup {t}) <= SumFunctionOnSet(g, Q)
      <4>1. P \cup {t} \in SUBSET Q
        BY <1>5
      <4> QED BY <1>1, <1>2, <4>1, SumPart
    <3>3. SumFunctionOnSet(g, P) \in Nat /\ g[t] \in Nat
      BY <1>2, <1>3, <1>4, <2>3
    <3> QED BY <3>1, <3>2, <3>3
  <2> QED BY <1>3, <2>2, <2>3, <2>4, <2>5
<1> QED BY <1>4, <1>5

\* A handler that is through no longer carries anything.
LEMMA CarriedLeft ==
  ASSUME NEW asked \in [Amendments -> Nat], NEW P \in SUBSET Threads, NEW t \in P,
         NEW lc, \A u \in P : lc[u].am \in Amendments
  PROVE  /\ Carried(asked, lc, P \ {t}) \in Nat
         /\ Carried(asked, lc, P) = asked[lc[t].am] + Carried(asked, lc, P \ {t})
<1> DEFINE f == [u \in P |-> asked[lc[u].am]]
           g == [u \in P \ {t} |-> asked[lc[u].am]]
<1>1. IsFiniteSet(P) /\ IsFiniteSet(P \ {t})
  BY TermsAssumption, FS_Subset
<1>2. /\ \A u \in P : f[u] \in Nat /\ f[u] = asked[lc[u].am]
      /\ \A u \in P \ {t} : g[u] = f[u]
  OBVIOUS
<1>3. /\ Carried(asked, lc, P) = SumFunctionOnSet(f, P)
      /\ Carried(asked, lc, P \ {t}) = SumFunctionOnSet(g, P \ {t})
  BY DEF Carried, SumFunction
<1> HIDE DEF f, g
<1>4. SumFunctionOnSet(f, P) = f[t] + SumFunctionOnSet(f, P \ {t})
  BY <1>1, <1>2, SumTake
<1>5. /\ SumFunctionOnSet(f, P \ {t}) = SumFunctionOnSet(g, P \ {t})
      /\ SumFunctionOnSet(f, P \ {t}) \in Nat
  BY <1>1, <1>2, SumSame, SumNat
<1> QED BY <1>2, <1>3, <1>4, <1>5

\* The dead add up, and to more by one that counts.
LEMMA LostGrows ==
  ASSUME NEW asked \in [Amendments -> Nat], NEW dd \in Seq(Deaths), NEW d \in Deaths
  PROVE  /\ Lost(asked, dd) \in Nat /\ Lost(asked, Append(dd, d)) \in Nat
         /\ Lost(asked, dd) <= Lost(asked, Append(dd, d))
         /\ d.am # Null /\ (d.odd \/ d.poisoned) =>
              Lost(asked, Append(dd, d)) = Lost(asked, dd) + asked[d.am]
<1> DEFINE more == Append(dd, d)
           n == Len(dd) + 1
           f == [i \in Counted(dd) |-> asked[dd[i].am]]
           g == [i \in Counted(more) |-> asked[more[i].am]]
<1>1. /\ DOMAIN dd = 1..Len(dd) /\ Len(dd) \in Nat /\ \A i \in 1..Len(dd) : dd[i] \in Deaths
      /\ DOMAIN more = (1..Len(dd)) \cup {n} /\ n \notin 1..Len(dd)
      /\ more[n] = d /\ \A i \in 1..Len(dd) : more[i] = dd[i]
  OBVIOUS
<1> HIDE DEF more, n
<1>2. /\ n \notin Counted(dd) /\ Counted(dd) \subseteq 1..Len(dd)
      /\ Counted(more) = Counted(dd) \cup (IF d.am # Null /\ (d.odd \/ d.poisoned) THEN {n} ELSE {})
  BY <1>1 DEF Counted
<1>3. IsFiniteSet(Counted(dd)) /\ IsFiniteSet(Counted(more))
  <2> DEFINE D == 1..Len(dd)
  <2>0. IsFiniteSet(D)
    BY <1>1, FS_Interval
  <2> HIDE DEF D
  <2>1. IsFiniteSet(D \cup {n})
    BY <2>0, FS_AddElement
  <2>2. Counted(dd) \subseteq D /\ Counted(more) \subseteq D \cup {n}
    BY <1>2 DEF D
  <2> QED BY <2>0, <2>1, <2>2, FS_Subset
<1>4. /\ \A i \in Counted(dd) : dd[i].am \in Amendments /\ more[i] = dd[i]
      /\ d.am # Null => d.am \in Amendments
  BY <1>1 DEF Counted, Deaths
<1>5. /\ \A i \in Counted(dd) : f[i] \in Nat /\ g[i] = f[i]
      /\ n \in Counted(more) => g[n] = asked[d.am] /\ asked[d.am] \in Nat
  <2>1. \A i \in Counted(dd) : i \in Counted(more)
    BY <1>2
  <2>2. n \in Counted(more) => d.am # Null
    BY <1>1 DEF Counted
  <2> QED BY <1>1, <1>4, <2>1, <2>2
<1>6. Lost(asked, dd) = SumFunctionOnSet(f, Counted(dd))
      /\ Lost(asked, more) = SumFunctionOnSet(g, Counted(more))
  BY DEF Lost, SumFunction
<1> HIDE DEF f, g
<1>7. /\ SumFunctionOnSet(f, Counted(dd)) = SumFunctionOnSet(g, Counted(dd))
      /\ SumFunctionOnSet(f, Counted(dd)) \in Nat
  BY <1>3, <1>5, SumSame, SumNat
<1>8. CASE d.am # Null /\ (d.odd \/ d.poisoned)
  <2>1. Counted(more) = Counted(dd) \cup {n}
    BY <1>2, <1>8
  <2>2. SumFunctionOnSet(g, Counted(dd) \cup {n}) = g[n] + SumFunctionOnSet(g, Counted(dd))
    <3>1. \A i \in Counted(dd) \cup {n} : g[i] \in Int
      BY <1>5, <2>1
    <3> QED BY <1>2, <1>3, <3>1, SumAdd
  <2>3. g[n] = asked[d.am] /\ asked[d.am] \in Nat
    BY <1>5, <2>1
  <2> QED BY <1>6, <1>7, <2>1, <2>2, <2>3 DEF more
<1>9. CASE ~(d.am # Null /\ (d.odd \/ d.poisoned))
  <2>1. Counted(more) = Counted(dd)
    BY <1>2, <1>9
  <2> QED BY <1>6, <1>7, <1>9, <2>1 DEF more
<1> QED BY <1>8, <1>9

-----------------------------------------------------------------------------
(* What steps do to the account *)

\* What handlers hold and the logs record are amendments, and a session that is open was
\* opened under terms.
Carrying ==
  /\ log \in Seq(Amendments) /\ died \in Seq(Deaths)
  /\ \A t \in Threads : loc[t].am \in Amendments \cup {Null}
  /\ terms # Null => opening \in Terms

\* Nobody comes to an end.
Quiet ==
  /\ UNCHANGED <<log, died>>
  /\ \A t \in Threads : pc[t] \in Amending => pc'[t] \in Amending /\ loc'[t].am = loc[t].am

\* One handler does, and if it was at an amendment leaves it in the log or among the dead.
Ends(t) ==
  /\ UNCHANGED <<terms, opening>> /\ pc'[t] = "idle"
  /\ \A u \in Threads \ {t} : pc'[u] = pc[u] /\ loc'[u] = loc[u]
  /\ \/ pc[t] \in Amending /\ log' = Append(log, loc[t].am) /\ UNCHANGED died
     \/ /\ UNCHANGED log
        /\ \E d \in Deaths : /\ died' = Append(died, d) /\ d.am = loc[t].am
                             /\ pc[t] \in Amending => d.odd \/ d.poisoned

\* A handler at an amendment has one.
LEMMA AtAmendment ==
  ASSUME IInv, Carrying, NEW t \in Threads, pc[t] \in Amending
  PROVE  loc[t].am \in Amendments /\ loc[t].am # Null /\ loc[t].am \in Amendment
BY TermsAssumption DEF IInv, TypeOK, Carrying

\* The account is a number.
LEMMA TotalNat ==
  ASSUME IInv, Carrying, NEW asked \in [Amendments -> Nat], NEW P \in SUBSET Threads,
         \A t \in P : pc[t] \in Amending
  PROVE  /\ Total(asked, P) \in Nat /\ Logged(asked, log) \in Nat /\ Carried(asked, loc, P) \in Nat
         /\ Lost(asked, died) \in Nat
<1>1. \A t \in P : loc[t].am \in Amendments
  BY AtAmendment
<1>2. Logged(asked, log) \in Nat
  BY LoggedGrows DEF Carrying
<1>3. Carried(asked, loc, P) \in Nat
  BY <1>1, CarriedGrows
<1>4. [am |-> Null, odd |-> FALSE, poisoned |-> FALSE, grew |-> FALSE] \in Deaths
  BY DEF Deaths
<1>5. Lost(asked, died) \in Nat
  BY <1>4, LostGrows DEF Carrying
<1> QED BY <1>2, <1>3, <1>5 DEF Total

\* It never goes down, and goes up by what a handler carries that joins it.
LEMMA TotalQuiet ==
  ASSUME IInv, Carrying, Quiet, NEW asked \in [Amendments -> Nat],
         NEW P \in SUBSET Threads, NEW Q \in SUBSET Threads, P \subseteq Q,
         \A t \in Q : pc[t] \in Amending
  PROVE  /\ Total(asked, P) \in Nat /\ Total(asked, Q)' \in Nat
         /\ Total(asked, P) <= Total(asked, Q)'
         /\ \A t \in Q \ P : Total(asked, P) + asked[loc[t].am] <= Total(asked, Q)'
<1>1. PICK ld : ld = loc'
  OBVIOUS
<1>2. \A t \in Q : loc[t].am \in Amendments /\ ld[t].am = loc[t].am
  BY <1>1, AtAmendment DEF Quiet
<1>3. /\ Carried(asked, loc, P) \in Nat
      /\ Carried(asked, loc, P) <= Carried(asked, ld, Q)
      /\ \A t \in Q \ P : Carried(asked, loc, P) + asked[loc[t].am] <= Carried(asked, ld, Q)
  <2>1. \A t \in Q : ld[t].am \in Amendments
    BY <1>2
  <2>2. \A t \in P : loc[t].am \in Amendments /\ ld[t].am = loc[t].am
    BY <1>2
  <2> QED BY <1>2, <2>1, <2>2, CarriedGrows
<1>4. Carried(asked, ld, Q) \in Nat
  BY <1>2, CarriedGrows
<1>5. \A t \in Q : asked[loc[t].am] \in Nat
  BY <1>2
<1>6. Logged(asked, log) \in Nat /\ Lost(asked, died) \in Nat
  BY TotalNat
<1>7. Total(asked, Q)' = Logged(asked, log) + Carried(asked, ld, Q) + Lost(asked, died)
  BY <1>1 DEF Total, Quiet
<1> QED BY <1>3, <1>4, <1>5, <1>6, <1>7 DEF Total

\* What a handler carries that comes to an end stays accounted for.
LEMMA TotalEnds ==
  ASSUME IInv, Carrying, NEW t \in Threads, Ends(t), NEW asked \in [Amendments -> Nat],
         NEW P \in SUBSET Threads, \A u \in P : pc[u] \in Amending
  PROVE  /\ Total(asked, P) \in Nat /\ Total(asked, P \ {t})' \in Nat
         /\ Total(asked, P) <= Total(asked, P \ {t})'
<1>1. PICK ld, lg, dd : ld = loc' /\ lg = log' /\ dd = died'
  OBVIOUS
<1>0. PICK Q \in SUBSET Threads : Q = P \ {t}
  OBVIOUS
<1>2. \A u \in P : loc[u].am \in Amendments /\ loc[u].am # Null /\ asked[loc[u].am] \in Nat
  BY AtAmendment
<1>3. \A u \in Q : ld[u] = loc[u]
  BY <1>0, <1>1 DEF Ends
<1>4. Carried(asked, loc, Q) \in Nat /\ Carried(asked, loc, Q) = Carried(asked, ld, Q)
  <2>1. \A u \in Q : ld[u].am \in Amendments /\ loc[u].am \in Amendments /\ loc[u].am = ld[u].am
    BY <1>0, <1>2, <1>3
  <2>2. /\ Carried(asked, loc, Q) <= Carried(asked, ld, Q)
        /\ Carried(asked, ld, Q) <= Carried(asked, loc, Q)
    BY <2>1, CarriedGrows
  <2>3. Carried(asked, loc, Q) \in Nat /\ Carried(asked, ld, Q) \in Nat
    BY <2>1, CarriedGrows
  <2> QED BY <2>2, <2>3
<1>5. /\ t \in P => Carried(asked, loc, P) = asked[loc[t].am] + Carried(asked, loc, Q)
      /\ t \notin P => Q = P
  <2>1. ASSUME t \in P
        PROVE  Carried(asked, loc, P) = asked[loc[t].am] + Carried(asked, loc, P \ {t})
    <3>1. PICK lc : lc = loc
      OBVIOUS
    <3>2. \A u \in P : lc[u].am \in Amendments
      BY <1>2, <3>1
    <3>3. Carried(asked, lc, P) = asked[lc[t].am] + Carried(asked, lc, P \ {t})
      BY <2>1, <3>2, CarriedLeft
    <3> QED BY <3>1, <3>3
  <2> QED BY <1>0, <2>1
<1>6. Logged(asked, log) \in Nat /\ Lost(asked, died) \in Nat /\ Carried(asked, loc, P) \in Nat
  BY TotalNat
<1>7. Total(asked, P \ {t})' = Logged(asked, lg) + Carried(asked, ld, Q) + Lost(asked, dd)
  BY <1>0, <1>1 DEF Total
<1>8. CASE pc[t] \in Amending /\ log' = Append(log, loc[t].am) /\ UNCHANGED died
  <2>1. loc[t].am \in Amendments
    BY <1>8, AtAmendment
  <2>2. Logged(asked, lg) = Logged(asked, log) + asked[loc[t].am] /\ asked[loc[t].am] \in Nat
    BY <1>1, <1>8, <2>1, LoggedGrows DEF Carrying
  <2>3. Logged(asked, log) + Carried(asked, loc, P) <= Logged(asked, lg) + Carried(asked, ld, Q)
    <3>1. CASE t \in P
      BY <1>4, <1>5, <1>6, <2>2, <3>1
    <3>2. CASE t \notin P
      BY <1>4, <1>5, <1>6, <2>2, <3>2
    <3> QED BY <3>1, <3>2
  <2>4. Lost(asked, dd) = Lost(asked, died) /\ Logged(asked, lg) \in Nat
    BY <1>1, <1>6, <1>8, <2>2
  <2> QED BY <1>4, <1>6, <1>7, <2>3, <2>4 DEF Total
<1>9. ASSUME NEW d \in Deaths, UNCHANGED log, died' = Append(died, d), d.am = loc[t].am,
             pc[t] \in Amending => d.odd \/ d.poisoned
      PROVE  /\ Total(asked, P) \in Nat /\ Total(asked, P \ {t})' \in Nat
             /\ Total(asked, P) <= Total(asked, P \ {t})'
  <2>1. /\ Lost(asked, dd) \in Nat /\ Lost(asked, died) <= Lost(asked, dd)
        /\ d.am # Null /\ (d.odd \/ d.poisoned) => Lost(asked, dd) = Lost(asked, died) + asked[d.am]
    BY <1>1, <1>9, LostGrows DEF Carrying
  <2>2. t \in P => Lost(asked, dd) = Lost(asked, died) + asked[loc[t].am]
    BY <1>2, <1>9, <2>1
  <2>3. t \in P => asked[loc[t].am] \in Nat
    BY <1>2
  <2>4. Carried(asked, loc, P) + Lost(asked, died) <= Carried(asked, ld, Q) + Lost(asked, dd)
    <3>1. CASE t \in P
      BY <1>4, <1>5, <1>6, <2>1, <2>2, <2>3, <3>1
    <3>2. CASE t \notin P
      BY <1>4, <1>5, <1>6, <2>1, <3>2
    <3> QED BY <3>1, <3>2
  <2>5. Logged(asked, lg) = Logged(asked, log)
    BY <1>1, <1>9
  <2> QED BY <1>4, <1>6, <1>7, <2>1, <2>4, <2>5 DEF Total
<1> QED BY <1>8, <1>9 DEF Ends

-----------------------------------------------------------------------------
(* What is invariant of a ceiling *)

\* The handlers that have added to the ceiling of calls, or had nothing to add.
PastCalls ==
  {t \in Threads : pc[t] \in {"set_deadline", "load_limit", "store_limit", "served", "clarify"}}

\* The handlers that have to a meter.
PastMeter(m) ==
  {t \in Threads : \/ pc[t] \in {"served", "clarify"}
                   \/ pc[t] = "load_limit" /\ m \notin loc[t].todo
                   \/ pc[t] = "store_limit" /\ m \notin loc[t].todo /\ m # loc[t].meter}

Reached(v, from, down, up) == from - down <= v /\ v <= from + up
From(m) == IF opening.limits[m] \in Int THEN opening.limits[m] ELSE 0

\* The ceiling, and what a handler read of it, lie between what the commitment set and what
\* those who have added to it account for: a handler adds what it carries to a value it
\* read, and from then on is one of them.
CallsInv ==
  terms # Null =>
    /\ IF opening.max_calls \in Int
       THEN /\ terms.max_calls \in Int
            /\ Reached(terms.max_calls, opening.max_calls, Total(TakenCalls, PastCalls),
                       Total(AddedCalls, PastCalls))
       ELSE terms.max_calls = opening.max_calls
    /\ \A t \in Threads : pc[t] = "store_calls" =>
         /\ opening.max_calls \in Int
         /\ Reached(loc[t].load, opening.max_calls, Total(TakenCalls, PastCalls),
                    Total(AddedCalls, PastCalls))

\* The same of a meter; an absent ceiling counts as zero, and an odd one is there to stay.
MeterInv(m) ==
  terms # Null =>
    /\ opening.limits[m] = Odd => terms.limits[m] = Odd
    /\ terms.limits[m] = None => opening.limits[m] = None
    /\ terms.limits[m] \in Int =>
         Reached(terms.limits[m], From(m), Total(TakenFrom(m), PastMeter(m)), Total(AddedTo(m),
                 PastMeter(m)))
    /\ \A t \in Threads : pc[t] = "store_limit" /\ loc[t].meter = m =>
         /\ m \notin loc[t].todo /\ opening.limits[m] # Odd
         /\ Reached(loc[t].load, From(m), Total(TakenFrom(m), PastMeter(m)), Total(AddedTo(m),
                    PastMeter(m)))

\* What amendments ask for are numbers.
LEMMA AskedNat ==
  /\ TakenCalls \in [Amendments -> Nat] /\ AddedCalls \in [Amendments -> Nat]
  /\ \A m : TakenFrom(m) \in [Amendments -> Nat] /\ AddedTo(m) \in [Amendments -> Nat]
BY DEF TakenCalls, AddedCalls, TakenFrom, AddedTo, Taken, Added

\* What an amount adds and what it takes off make up the amount.
LEMMA Amounts == \A x \in Int : Added(x) - Taken(x) = x /\ Added(x) \in Nat /\ Taken(x) \in Nat
BY DEF Added, Taken

\* What the account allows it allows when it has grown.
LEMMA ReachedStill ==
  ASSUME NEW v \in Int, NEW from \in Int,
         NEW a \in Nat, NEW b \in Nat, NEW c \in Nat, NEW d \in Nat,
         a <= c, b <= d, Reached(v, from, a, b)
  PROVE  Reached(v, from, c, d)
BY DEF Reached

\* A meter starts from a number.
LEMMA FromNumber ==
  ASSUME Carrying, terms # Null, NEW m \in Meters
  PROVE  From(m) \in Int
BY DEF From, Carrying, Terms, Ceiling

\* Who is past a ceiling is at an amendment.
LEMMA PastAmending ==
  /\ PastCalls \in SUBSET Threads /\ \A t \in PastCalls : pc[t] \in Amending
  /\ \A m : PastMeter(m) \in SUBSET Threads /\ \A t \in PastMeter(m) : pc[t] \in Amending
BY DEF PastCalls, PastMeter, Amending

\* A step that leaves the ceiling of calls alone, and in which nobody goes back.
LEMMA CallsFrame ==
  ASSUME IInv, Carrying, CallsInv, Quiet, opening' = opening,
         terms' # Null => terms # Null /\ terms'.max_calls = terms.max_calls,
         PastCalls \subseteq PastCalls', \A t \in PastCalls' : pc[t] \in Amending,
         \A t \in Threads :
           pc'[t] = "store_calls" => pc[t] = "store_calls" /\ loc'[t].load = loc[t].load
  PROVE  CallsInv'
<1> SUFFICES ASSUME terms' # Null PROVE CallsInv'
  BY DEF CallsInv
<1>1. PICK P \in SUBSET Threads, Q \in SUBSET Threads : P = PastCalls /\ Q = PastCalls'
  BY PastAmending DEF PastCalls
<1>2. PICK cut \in [Amendments -> Nat], add \in [Amendments -> Nat] :
        cut = TakenCalls /\ add = AddedCalls
  BY AskedNat
<1>3. /\ Total(cut, P) <= Total(cut, Q)'
      /\ Total(add, P) <= Total(add, Q)'
  BY <1>1, TotalQuiet
<1>4. /\ Total(TakenCalls, PastCalls) = Total(cut, P)
      /\ Total(AddedCalls, PastCalls) = Total(add, P)
  BY <1>1, <1>2
<1>5. /\ Total(TakenCalls, PastCalls)' = Total(cut, Q)'
      /\ Total(AddedCalls, PastCalls)' = Total(add, Q)'
  BY <1>1, <1>2 DEF Total, TakenCalls, AddedCalls
<1>6. ASSUME NEW v \in Int, NEW from \in Int, Reached(v, from, Total(cut, P), Total(add, P))
      PROVE  Reached(v, from, Total(cut, Q)', Total(add, Q)')
  <2>1. /\ Total(cut, P) \in Nat /\ Total(cut, Q)' \in Nat
        /\ Total(add, P) \in Nat /\ Total(add, Q)' \in Nat
    BY <1>1, TotalQuiet
  <2> QED BY <1>3, <1>6, <2>1 DEF Reached
<1>7. \A t \in Threads : pc[t] = "store_calls" => loc[t].load \in Int
  BY DEF IInv, Inv, Loaded
<1>8. IF opening.max_calls \in Int
      THEN /\ terms'.max_calls \in Int
           /\ Reached(terms'.max_calls, opening.max_calls, Total(cut, Q)', Total(add, Q)')
      ELSE terms'.max_calls = opening.max_calls
  BY <1>4, <1>6 DEF CallsInv
<1>9. \A t \in Threads : pc'[t] = "store_calls" =>
        /\ opening.max_calls \in Int
        /\ Reached(loc'[t].load, opening.max_calls, Total(cut, Q)', Total(add, Q)')
  BY <1>4, <1>6, <1>7 DEF CallsInv
<1> QED BY <1>5, <1>8, <1>9 DEF CallsInv, Reached

\* A step that leaves a meter alone, and in which nobody goes back.
LEMMA MeterFrame ==
  ASSUME IInv, Carrying, NEW m \in Meters, MeterInv(m), Quiet, opening' = opening,
         terms' # Null => terms # Null /\ terms'.limits[m] = terms.limits[m],
         PastMeter(m) \subseteq PastMeter(m)', \A t \in PastMeter(m)' : pc[t] \in Amending,
         \A t \in Threads : pc'[t] = "store_limit" /\ loc'[t].meter = m =>
           /\ pc[t] = "store_limit" /\ loc[t].meter = m
           /\ loc'[t].load = loc[t].load /\ loc'[t].todo = loc[t].todo
  PROVE  MeterInv(m)'
<1> SUFFICES ASSUME terms' # Null PROVE MeterInv(m)'
  BY DEF MeterInv
<1>1. PICK P \in SUBSET Threads, Q \in SUBSET Threads : P = PastMeter(m) /\ Q = PastMeter(m)'
  BY PastAmending DEF PastMeter
<1>2. PICK cut \in [Amendments -> Nat], add \in [Amendments -> Nat] :
        cut = TakenFrom(m) /\ add = AddedTo(m)
  BY AskedNat
<1>3. /\ Total(cut, P) <= Total(cut, Q)'
      /\ Total(add, P) <= Total(add, Q)'
      /\ Total(cut, P) \in Nat /\ Total(cut, Q)' \in Nat
      /\ Total(add, P) \in Nat /\ Total(add, Q)' \in Nat
  BY <1>1, TotalQuiet
<1>4. /\ Total(TakenFrom(m), PastMeter(m)) = Total(cut, P)
      /\ Total(AddedTo(m), PastMeter(m)) = Total(add, P)
  BY <1>1, <1>2
<1>5. /\ Total(TakenFrom(m), PastMeter(m))' = Total(cut, Q)'
      /\ Total(AddedTo(m), PastMeter(m))' = Total(add, Q)'
  BY <1>1, <1>2 DEF Total, TakenFrom, AddedTo
<1>6. From(m) \in Int /\ From(m)' = From(m)
  BY FromNumber DEF From
<1>7. ASSUME NEW v \in Int, Reached(v, From(m), Total(cut, P), Total(add, P))
      PROVE  Reached(v, From(m), Total(cut, Q)', Total(add, Q)')
  BY <1>3, <1>6, <1>7 DEF Reached
<1>8. \A t \in Threads : pc[t] = "store_limit" => loc[t].load \in Int
  BY DEF IInv, Inv, Loaded
<1>9. /\ opening.limits[m] = Odd => terms'.limits[m] = Odd
      /\ terms'.limits[m] = None => opening.limits[m] = None
      /\ terms'.limits[m] \in Int => Reached(terms'.limits[m], From(m), Total(cut, Q)',
                                             Total(add, Q)')
  BY <1>4, <1>7 DEF MeterInv
<1>10. \A t \in Threads : pc'[t] = "store_limit" /\ loc'[t].meter = m =>
         /\ m \notin loc'[t].todo /\ opening.limits[m] # Odd
         /\ Reached(loc'[t].load, From(m), Total(cut, Q)', Total(add, Q)')
  BY <1>4, <1>7, <1>8 DEF MeterInv
<1> QED BY <1>5, <1>6, <1>9, <1>10 DEF MeterInv, Reached

\* Both, of every ceiling.
CeilInv == CallsInv /\ \A m \in Meters : MeterInv(m)

\* A handler that comes to an end leaves both as they are.
LEMMA CeilEnds ==
  ASSUME IInv, Carrying, CeilInv, NEW t \in Threads, Ends(t)
  PROVE  CeilInv'
<1>1. PastCalls' = PastCalls \ {t} /\ \A m : PastMeter(m)' = PastMeter(m) \ {t}
  BY DEF Ends, PastCalls, PastMeter
<1>2. \A u \in Threads :
        pc'[u] \in {"store_calls", "store_limit"} => pc'[u] = pc[u] /\ loc'[u] = loc[u]
  BY DEF Ends
<1>3. /\ \A u \in Threads : pc[u] \in {"store_calls", "store_limit"} => loc[u].load \in Int
      /\ UNCHANGED <<terms, opening>>
  BY DEF IInv, Inv, Loaded, Ends
<1>4. CallsInv'
  <2> SUFFICES ASSUME terms # Null PROVE CallsInv'
    BY <1>3 DEF CallsInv
  <2>1. PICK P \in SUBSET Threads : P = PastCalls
    BY PastAmending
  <2>2. PICK cut \in [Amendments -> Nat], add \in [Amendments -> Nat] :
          cut = TakenCalls /\ add = AddedCalls
    BY AskedNat
  <2>3. /\ Total(cut, P) <= Total(cut, P \ {t})'
        /\ Total(add, P) <= Total(add, P \ {t})'
        /\ Total(cut, P) \in Nat /\ Total(cut, P \ {t})' \in Nat
        /\ Total(add, P) \in Nat /\ Total(add, P \ {t})' \in Nat
    BY <2>1, PastAmending, TotalEnds
  <2>4. /\ Total(TakenCalls, PastCalls)' = Total(cut, P \ {t})'
        /\ Total(AddedCalls, PastCalls)' = Total(add, P \ {t})'
    BY <1>1, <2>1, <2>2 DEF Total, TakenCalls, AddedCalls
  <2>5. ASSUME NEW v \in Int, NEW from \in Int, Reached(v, from, Total(cut, P), Total(add, P))
        PROVE  Reached(v, from, Total(cut, P \ {t})', Total(add, P \ {t})')
    BY <2>3, <2>5 DEF Reached
  <2>6. /\ Total(TakenCalls, PastCalls) = Total(cut, P)
        /\ Total(AddedCalls, PastCalls) = Total(add, P)
    BY <2>1, <2>2
  <2>7. IF opening.max_calls \in Int
        THEN /\ terms.max_calls \in Int
             /\ Reached(terms.max_calls, opening.max_calls, Total(cut, P \ {t})', Total(add,
                        P \ {t})')
        ELSE terms.max_calls = opening.max_calls
    BY <2>5, <2>6 DEF CeilInv, CallsInv
  <2>8. \A u \in Threads : pc'[u] = "store_calls" =>
          /\ opening.max_calls \in Int
          /\ Reached(loc'[u].load, opening.max_calls, Total(cut, P \ {t})', Total(add, P \ {t})')
    BY <1>2, <1>3, <2>5, <2>6 DEF CeilInv, CallsInv
  <2> QED BY <1>3, <2>4, <2>7, <2>8 DEF CallsInv, Reached
<1>5. ASSUME NEW m \in Meters PROVE MeterInv(m)'
  <2> SUFFICES ASSUME terms # Null PROVE MeterInv(m)'
    BY <1>3 DEF MeterInv
  <2>1. PICK P \in SUBSET Threads : P = PastMeter(m)
    BY PastAmending
  <2>2. PICK cut \in [Amendments -> Nat], add \in [Amendments -> Nat] :
          cut = TakenFrom(m) /\ add = AddedTo(m)
    BY AskedNat
  <2>3. /\ Total(cut, P) <= Total(cut, P \ {t})'
        /\ Total(add, P) <= Total(add, P \ {t})'
        /\ Total(cut, P) \in Nat /\ Total(cut, P \ {t})' \in Nat
        /\ Total(add, P) \in Nat /\ Total(add, P \ {t})' \in Nat
    BY <2>1, PastAmending, TotalEnds
  <2>4. /\ Total(TakenFrom(m), PastMeter(m))' = Total(cut, P \ {t})'
        /\ Total(AddedTo(m), PastMeter(m))' = Total(add, P \ {t})'
    BY <1>1, <2>1, <2>2 DEF Total, TakenFrom, AddedTo
  <2>5. From(m) \in Int /\ From(m)' = From(m)
    BY <1>3, FromNumber DEF From
  <2>6. ASSUME NEW v \in Int, Reached(v, From(m), Total(cut, P), Total(add, P))
        PROVE  Reached(v, From(m), Total(cut, P \ {t})', Total(add, P \ {t})')
    BY <2>3, <2>5, <2>6 DEF Reached
  <2>7. /\ Total(TakenFrom(m), PastMeter(m)) = Total(cut, P)
        /\ Total(AddedTo(m), PastMeter(m)) = Total(add, P)
        /\ MeterInv(m)
    BY <2>1, <2>2 DEF CeilInv
  <2>8. /\ opening.limits[m] = Odd => terms.limits[m] = Odd
        /\ terms.limits[m] = None => opening.limits[m] = None
        /\ terms.limits[m] \in Int => Reached(terms.limits[m], From(m), Total(cut, P \ {t})',
                                              Total(add, P \ {t})')
    BY <2>6, <2>7 DEF MeterInv
  <2>9. \A u \in Threads : pc'[u] = "store_limit" /\ loc'[u].meter = m =>
          /\ m \notin loc'[u].todo /\ opening.limits[m] # Odd
          /\ Reached(loc'[u].load, From(m), Total(cut, P \ {t})', Total(add, P \ {t})')
    BY <1>2, <1>3, <2>6, <2>7 DEF MeterInv
  <2> QED BY <1>3, <2>4, <2>5, <2>8, <2>9 DEF MeterInv, Reached
<1> QED BY <1>4, <1>5 DEF CeilInv

-----------------------------------------------------------------------------
(* The steps *)

\* A handler moves on and the others stay where they are.
Moves(t) ==
  /\ UNCHANGED <<log, died, opening>>
  /\ \A u \in Threads \ {t} :
       /\ pc'[u] = pc[u] /\ loc'[u].am = loc[u].am /\ loc'[u].load = loc[u].load
       /\ loc'[u].todo = loc[u].todo /\ loc'[u].meter = loc[u].meter
       /\ loc'[u].start = loc[u].start /\ loc'[u].tool = loc[u].tool

\* A handler that is not at an amendment, or at the lists of one, leaves the ceilings alone.
LEMMA CeilAside ==
  ASSUME IInv, Carrying, CeilInv, NEW t \in Threads, Moves(t),
         terms' # Null => terms # Null /\ terms'.max_calls = terms.max_calls
                          /\ terms'.limits = terms.limits,
         \/ pc[t] \notin Amending /\ pc'[t] \in {"idle", "add_allow"} \cup Checking
         \/ /\ pc[t] \in {"add_allow", "add_deny", "add_calls"} /\ loc'[t].am = loc[t].am
            /\ pc'[t] \in {"add_deny", "add_calls", "set_deadline"}
         \/ /\ pc[t] = "load_limit" /\ loc[t].todo = {} /\ loc'[t].am = loc[t].am
            /\ pc'[t] \in {"served", "clarify"}
  PROVE  CeilInv'
<1>1. Quiet
  BY DEF Quiet, Moves, Amending, Checking
<1>2. PastCalls \subseteq PastCalls' /\ \A u \in PastCalls' : pc[u] \in Amending
  BY DEF PastCalls, Moves, Amending, Checking
<1>3. ASSUME NEW m \in Meters
      PROVE  PastMeter(m) \subseteq PastMeter(m)' /\ \A u \in PastMeter(m)' : pc[u] \in Amending
  BY DEF PastMeter, Moves, Amending, Checking
<1>4. \A u \in Threads : pc'[u] \in {"store_calls", "store_limit"} => u # t
  BY DEF Amending, Checking
<1>5. CallsInv'
  BY <1>1, <1>2, <1>4, CallsFrame DEF CeilInv, Moves
<1>6. ASSUME NEW m \in Meters PROVE MeterInv(m)'
  <2>1. terms' # Null => terms # Null /\ terms'.limits[m] = terms.limits[m]
    OBVIOUS
  <2> QED BY <1>1, <1>3, <1>4, <2>1, MeterFrame DEF CeilInv, Moves
<1> QED BY <1>5, <1>6 DEF CeilInv

\* The ceiling of calls is read.
LEMMA CallsLoaded ==
  ASSUME IInv, Carrying, CeilInv, NEW t \in Threads, Moves(t), terms' = terms, terms # Null,
         pc[t] = "add_calls", pc'[t] = "store_calls", loc'[t].am = loc[t].am,
         loc'[t].load = terms.max_calls, terms.max_calls \in Int
  PROVE  CeilInv'
<1>1. Quiet
  BY DEF Quiet, Moves, Amending
<1>2. ASSUME NEW m \in Meters PROVE MeterInv(m)'
  <2>1. PastMeter(m) \subseteq PastMeter(m)' /\ \A u \in PastMeter(m)' : pc[u] \in Amending
    BY DEF PastMeter, Moves, Amending
  <2>2. \A u \in Threads : pc'[u] = "store_limit" => u # t
    OBVIOUS
  <2> QED BY <1>1, <2>1, <2>2, MeterFrame DEF CeilInv, Moves
<1>3. CallsInv'
  <2>1. PICK P \in SUBSET Threads : P = PastCalls /\ P = PastCalls'
    BY DEF PastCalls, Moves
  <2>2. PICK cut \in [Amendments -> Nat], add \in [Amendments -> Nat] :
          cut = TakenCalls /\ add = AddedCalls
    BY AskedNat
  <2>3. /\ Total(cut, P) <= Total(cut, P)'
        /\ Total(add, P) <= Total(add, P)'
        /\ Total(cut, P) \in Nat /\ Total(cut, P)' \in Nat
        /\ Total(add, P) \in Nat /\ Total(add, P)' \in Nat
    BY <1>1, <2>1, PastAmending, TotalQuiet
  <2>4. /\ Total(TakenCalls, PastCalls)' = Total(cut, P)'
        /\ Total(AddedCalls, PastCalls)' = Total(add, P)'
        /\ Total(TakenCalls, PastCalls) = Total(cut, P)
        /\ Total(AddedCalls, PastCalls) = Total(add, P)
    BY <2>1, <2>2 DEF Total, TakenCalls, AddedCalls
  <2>5. ASSUME NEW v \in Int, NEW from \in Int, Reached(v, from, Total(cut, P), Total(add, P))
        PROVE  Reached(v, from, Total(cut, P)', Total(add, P)')
    BY <2>3, <2>5 DEF Reached
  <2>6. /\ opening.max_calls \in Int
        /\ Reached(terms.max_calls, opening.max_calls, Total(cut, P)', Total(add, P)')
    BY <2>4, <2>5 DEF CeilInv, CallsInv
  <2>7. ASSUME NEW u \in Threads, pc'[u] = "store_calls"
        PROVE  Reached(loc'[u].load, opening.max_calls, Total(cut, P)', Total(add, P)')
    <3>1. CASE u = t
      BY <2>6, <3>1
    <3>2. CASE u # t
      <4>1. pc[u] = "store_calls" /\ loc'[u].load = loc[u].load /\ loc[u].load \in Int
        BY <2>7, <3>2 DEF Moves, IInv, Inv, Loaded
      <4> QED BY <2>4, <2>5, <2>6, <4>1 DEF CeilInv, CallsInv
    <3> QED BY <3>1, <3>2
  <2> QED BY <2>4, <2>6, <2>7 DEF CallsInv, Reached, Moves
<1> QED BY <1>2, <1>3 DEF CeilInv

\* It is raised from what was read of it, by an amendment that counts from now on.
LEMMA CallsStored ==
  ASSUME IInv, Carrying, CeilInv, NEW t \in Threads, Moves(t), terms \in Terms, terms # Null,
         terms' = [terms EXCEPT !.max_calls = loc[t].load + loc[t].am.add_calls],
         pc[t] = "store_calls", pc'[t] = "set_deadline", loc'[t].am = loc[t].am
  PROVE  CeilInv'
<1>1. Quiet
  BY DEF Quiet, Moves, Amending
<1>2. /\ terms'.limits = terms.limits /\ terms'.max_calls = loc[t].load + loc[t].am.add_calls
  BY DEF Terms
<1>3. ASSUME NEW m \in Meters PROVE MeterInv(m)'
  <2>1. PastMeter(m) \subseteq PastMeter(m)' /\ \A u \in PastMeter(m)' : pc[u] \in Amending
    BY DEF PastMeter, Moves, Amending
  <2>2. \A u \in Threads : pc'[u] = "store_limit" => u # t
    OBVIOUS
  <2> QED BY <1>1, <1>2, <2>1, <2>2, MeterFrame DEF CeilInv, Moves
<1>4. CallsInv'
  <2>1. PICK P \in SUBSET Threads, Q \in SUBSET Threads : P = PastCalls /\ Q = PastCalls'
    BY PastAmending DEF PastCalls
  <2>2. PICK cut \in [Amendments -> Nat], add \in [Amendments -> Nat] :
          cut = TakenCalls /\ add = AddedCalls
    BY AskedNat
  <2>3. P \subseteq Q /\ t \in Q \ P /\ \A u \in Q : pc[u] \in Amending
    BY <2>1 DEF PastCalls, Moves, Amending
  <2>4. /\ Total(cut, P) \in Nat /\ Total(cut, Q)' \in Nat
        /\ Total(add, P) \in Nat /\ Total(add, Q)' \in Nat
        /\ Total(cut, P) <= Total(cut, Q)'
        /\ Total(add, P) <= Total(add, Q)'
        /\ Total(cut, P) + cut[loc[t].am] <= Total(cut, Q)'
        /\ Total(add, P) + add[loc[t].am] <= Total(add, Q)'
    BY <1>1, <2>3, TotalQuiet
  <2>5. /\ Total(TakenCalls, PastCalls)' = Total(cut, Q)'
        /\ Total(AddedCalls, PastCalls)' = Total(add, Q)'
        /\ Total(TakenCalls, PastCalls) = Total(cut, P)
        /\ Total(AddedCalls, PastCalls) = Total(add, P)
    BY <2>1, <2>2 DEF Total, TakenCalls, AddedCalls
  <2>6. /\ opening.max_calls \in Int /\ loc[t].load \in Int /\ loc[t].am.add_calls \in Int
        /\ Reached(loc[t].load, opening.max_calls, Total(cut, P), Total(add, P))
    BY <2>5 DEF CeilInv, CallsInv, IInv, Inv, Loaded
  <2>7. /\ add[loc[t].am] - cut[loc[t].am] = loc[t].am.add_calls
        /\ add[loc[t].am] \in Nat /\ cut[loc[t].am] \in Nat
    <3>1. loc[t].am \in Amendments
      BY AtAmendment DEF Amending
    <3>2. add[loc[t].am] = Added(loc[t].am.add_calls) /\ cut[loc[t].am] = Taken(loc[t].am.add_calls)
      BY <2>2, <3>1 DEF AddedCalls, TakenCalls
    <3> QED BY <2>6, <3>2, Amounts
  <2>8. /\ terms'.max_calls \in Int
        /\ Reached(terms'.max_calls, opening.max_calls, Total(cut, Q)', Total(add, Q)')
    BY <1>2, <2>4, <2>6, <2>7 DEF Reached
  <2>9. ASSUME NEW u \in Threads, pc'[u] = "store_calls"
        PROVE  Reached(loc'[u].load, opening.max_calls, Total(cut, Q)', Total(add, Q)')
    <3>1. pc[u] = "store_calls" /\ loc'[u].load = loc[u].load /\ loc[u].load \in Int
      BY <2>9 DEF Moves, IInv, Inv, Loaded
    <3>2. Reached(loc[u].load, opening.max_calls, Total(cut, P), Total(add, P))
      BY <2>5, <3>1 DEF CeilInv, CallsInv
    <3> QED BY <2>4, <2>6, <3>1, <3>2 DEF Reached
  <2> QED BY <2>5, <2>6, <2>8, <2>9 DEF CallsInv, Reached, Moves
<1> QED BY <1>3, <1>4 DEF CeilInv

\* The deadline is set, and the amendment goes on with the meters it names; it is through
\* with the others.
LEMMA MetersNamed ==
  ASSUME IInv, Carrying, CeilInv, NEW t \in Threads, Moves(t), terms # Null,
         terms'.limits = terms.limits, terms'.max_calls = terms.max_calls,
         pc[t] = "set_deadline", pc'[t] = "load_limit", loc'[t].am = loc[t].am
  PROVE  CeilInv'
<1>1. Quiet
  BY DEF Quiet, Moves, Amending
<1>2. /\ PastCalls \subseteq PastCalls' /\ \A u \in PastCalls' : pc[u] \in Amending
      /\ \A u \in Threads : pc'[u] \in {"store_calls", "store_limit"} => u # t
  BY DEF PastCalls, Moves, Amending
<1>3. CallsInv'
  BY <1>1, <1>2, CallsFrame DEF CeilInv, Moves
<1>4. ASSUME NEW m \in Meters PROVE MeterInv(m)'
  <2>1. PastMeter(m) \subseteq PastMeter(m)' /\ \A u \in PastMeter(m)' : pc[u] \in Amending
    BY DEF PastMeter, Moves, Amending
  <2> QED BY <1>1, <1>2, <2>1, MeterFrame DEF CeilInv, Moves
<1> QED BY <1>3, <1>4 DEF CeilInv

\* A meter is read.
LEMMA LimitLoaded ==
  ASSUME IInv, Carrying, CeilInv, NEW t \in Threads, Moves(t), terms' = terms, terms \in Terms,
         terms # Null, NEW m \in loc[t].todo, m \in Meters, terms.limits[m] # Odd,
         pc[t] = "load_limit", pc'[t] = "store_limit", loc'[t].am = loc[t].am,
         loc'[t].meter = m, loc'[t].todo = loc[t].todo \ {m},
         loc'[t].load = IF terms.limits[m] = None THEN 0 ELSE terms.limits[m]
  PROVE  CeilInv'
<1>1. Quiet
  BY DEF Quiet, Moves, Amending
<1>2. CallsInv'
  <2>1. PastCalls \subseteq PastCalls' /\ \A u \in PastCalls' : pc[u] \in Amending
    BY DEF PastCalls, Moves, Amending
  <2>2. \A u \in Threads : pc'[u] = "store_calls" => u # t
    OBVIOUS
  <2> QED BY <1>1, <2>1, <2>2, CallsFrame DEF CeilInv, Moves
<1>3. ASSUME NEW n \in Meters, n # m PROVE MeterInv(n)'
  <2>1. PastMeter(n) \subseteq PastMeter(n)' /\ \A u \in PastMeter(n)' : pc[u] \in Amending
    BY <1>3 DEF PastMeter, Moves, Amending
  <2>2. \A u \in Threads : pc'[u] = "store_limit" /\ loc'[u].meter = n => u # t
    BY <1>3
  <2> QED BY <1>1, <2>1, <2>2, MeterFrame DEF CeilInv, Moves
<1>4. MeterInv(m)'
  <2>1. PICK P \in SUBSET Threads : P = PastMeter(m) /\ P = PastMeter(m)'
    <3>1. PastMeter(m) = PastMeter(m)'
      BY DEF PastMeter, Moves
    <3> QED BY <3>1, PastAmending
  <2>2. PICK cut \in [Amendments -> Nat], add \in [Amendments -> Nat] :
          cut = TakenFrom(m) /\ add = AddedTo(m)
    BY AskedNat
  <2>3. /\ Total(cut, P) <= Total(cut, P)'
        /\ Total(add, P) <= Total(add, P)'
        /\ Total(cut, P) \in Nat /\ Total(cut, P)' \in Nat
        /\ Total(add, P) \in Nat /\ Total(add, P)' \in Nat
    BY <1>1, <2>1, PastAmending, TotalQuiet
  <2>4. /\ Total(TakenFrom(m), PastMeter(m))' = Total(cut, P)'
        /\ Total(AddedTo(m), PastMeter(m))' = Total(add, P)'
        /\ Total(TakenFrom(m), PastMeter(m)) = Total(cut, P)
        /\ Total(AddedTo(m), PastMeter(m)) = Total(add, P)
    BY <2>1, <2>2 DEF Total, TakenFrom, AddedTo
  <2>5. From(m) \in Int /\ From(m)' = From(m)
    BY FromNumber DEF From, Moves
  <2>6. ASSUME NEW v \in Int, Reached(v, From(m), Total(cut, P), Total(add, P))
        PROVE  Reached(v, From(m), Total(cut, P)', Total(add, P)')
    BY <2>3, <2>5, <2>6 DEF Reached
  <2>7. /\ opening.limits[m] # Odd /\ MeterInv(m)
        /\ terms.limits[m] = None \/ terms.limits[m] \in Int
    BY DEF CeilInv, MeterInv, Terms, Ceiling
  <2>8. Reached(loc'[t].load, From(m), Total(cut, P)', Total(add, P)')
    <3>1. CASE terms.limits[m] = None
      <4>1. From(m) = 0 /\ loc'[t].load = 0
        BY <2>7, <3>1, TermsAssumption DEF MeterInv, From
      <4> QED BY <2>3, <4>1 DEF Reached
    <3>2. CASE terms.limits[m] \in Int
      BY <2>4, <2>6, <2>7, <3>2, TermsAssumption DEF MeterInv
    <3> QED BY <2>7, <3>1, <3>2
  <2>9. ASSUME NEW u \in Threads, pc'[u] = "store_limit", loc'[u].meter = m
        PROVE  /\ m \notin loc'[u].todo
               /\ Reached(loc'[u].load, From(m), Total(cut, P)', Total(add, P)')
    <3>1. CASE u = t
      BY <2>8, <3>1
    <3>2. CASE u # t
      <4>1. /\ pc[u] = "store_limit" /\ loc[u].meter = m /\ loc[u].load \in Int
            /\ loc'[u].load = loc[u].load /\ loc'[u].todo = loc[u].todo
        BY <2>9, <3>2 DEF Moves, IInv, Inv, Loaded
      <4> QED BY <2>4, <2>6, <2>7, <4>1 DEF MeterInv
    <3> QED BY <3>1, <3>2
  <2>10. terms.limits[m] \in Int => Reached(terms.limits[m], From(m), Total(cut, P)', Total(add,
                                            P)')
    BY <2>4, <2>6, <2>7 DEF MeterInv
  <2> QED BY <2>4, <2>5, <2>7, <2>9, <2>10 DEF MeterInv, Reached, Moves
<1> QED BY <1>2, <1>3, <1>4 DEF CeilInv

\* It is raised from what was read of it, by an amendment that counts from now on.
LEMMA LimitStored ==
  ASSUME IInv, Carrying, CeilInv, NEW t \in Threads, Moves(t), terms \in Terms, terms # Null,
         NEW m \in Meters, loc[t].meter = m,
         terms' = [terms EXCEPT !.limits[m] = loc[t].load + loc[t].am.add_limits[m]],
         pc[t] = "store_limit", pc'[t] = "load_limit", loc'[t].am = loc[t].am,
         loc'[t].todo = loc[t].todo
  PROVE  CeilInv'
<1>1. Quiet
  BY DEF Quiet, Moves, Amending
<1>2. /\ terms'.max_calls = terms.max_calls
      /\ terms'.limits[m] = loc[t].load + loc[t].am.add_limits[m]
      /\ \A n \in Meters \ {m} : terms'.limits[n] = terms.limits[n]
  BY DEF Terms
<1>3. CallsInv'
  <2>1. PastCalls \subseteq PastCalls' /\ \A u \in PastCalls' : pc[u] \in Amending
    BY DEF PastCalls, Moves, Amending
  <2>2. \A u \in Threads : pc'[u] = "store_calls" => u # t
    OBVIOUS
  <2> QED BY <1>1, <1>2, <2>1, <2>2, CallsFrame DEF CeilInv, Moves
<1>4. ASSUME NEW n \in Meters, n # m PROVE MeterInv(n)'
  <2>1. PastMeter(n) \subseteq PastMeter(n)' /\ \A u \in PastMeter(n)' : pc[u] \in Amending
    BY <1>4 DEF PastMeter, Moves, Amending
  <2>2. \A u \in Threads : pc'[u] = "store_limit" /\ loc'[u].meter = n => u # t
    OBVIOUS
  <2>3. terms'.limits[n] = terms.limits[n]
    BY <1>2, <1>4
  <2> QED BY <1>1, <2>1, <2>2, <2>3, MeterFrame DEF CeilInv, Moves
<1>5. MeterInv(m)'
  <2>1. PICK P \in SUBSET Threads, Q \in SUBSET Threads : P = PastMeter(m) /\ Q = PastMeter(m)'
    BY PastAmending DEF PastMeter
  <2>2. PICK cut \in [Amendments -> Nat], add \in [Amendments -> Nat] :
          cut = TakenFrom(m) /\ add = AddedTo(m)
    BY AskedNat
  <2>3. MeterInv(m)
    BY DEF CeilInv
  <2>4. P \subseteq Q /\ t \in Q \ P /\ \A u \in Q : pc[u] \in Amending
    BY <2>1, <2>3 DEF PastMeter, MeterInv, Moves, Amending
  <2>5. /\ Total(cut, P) \in Nat /\ Total(cut, Q)' \in Nat
        /\ Total(add, P) \in Nat /\ Total(add, Q)' \in Nat
        /\ Total(cut, P) <= Total(cut, Q)'
        /\ Total(add, P) <= Total(add, Q)'
        /\ Total(cut, P) + cut[loc[t].am] <= Total(cut, Q)'
        /\ Total(add, P) + add[loc[t].am] <= Total(add, Q)'
    BY <1>1, <2>4, TotalQuiet
  <2>6. /\ Total(TakenFrom(m), PastMeter(m))' = Total(cut, Q)'
        /\ Total(AddedTo(m), PastMeter(m))' = Total(add, Q)'
        /\ Total(TakenFrom(m), PastMeter(m)) = Total(cut, P)
        /\ Total(AddedTo(m), PastMeter(m)) = Total(add, P)
    BY <2>1, <2>2 DEF Total, TakenFrom, AddedTo
  <2>7. From(m) \in Int /\ From(m)' = From(m)
    BY FromNumber DEF From, Moves
  <2>8. /\ opening.limits[m] # Odd /\ loc[t].load \in Int /\ loc[t].am.add_limits[m] \in Int
        /\ Reached(loc[t].load, From(m), Total(cut, P), Total(add, P))
    BY <2>3, <2>6 DEF MeterInv, IInv, Inv, Loaded
  <2>9. /\ add[loc[t].am] - cut[loc[t].am] = loc[t].am.add_limits[m]
        /\ add[loc[t].am] \in Nat /\ cut[loc[t].am] \in Nat
    <3>1. loc[t].am \in Amendments
      BY AtAmendment DEF Amending
    <3>2. /\ add[loc[t].am] = Added(loc[t].am.add_limits[m])
          /\ cut[loc[t].am] = Taken(loc[t].am.add_limits[m])
      BY <2>2, <3>1 DEF AddedTo, TakenFrom
    <3> QED BY <2>8, <3>2, Amounts
  <2>10. /\ terms'.limits[m] \in Int
         /\ Reached(terms'.limits[m], From(m), Total(cut, Q)', Total(add, Q)')
    BY <1>2, <2>5, <2>7, <2>8, <2>9 DEF Reached
  <2>11. ASSUME NEW u \in Threads, pc'[u] = "store_limit", loc'[u].meter = m
         PROVE  /\ m \notin loc'[u].todo
                /\ Reached(loc'[u].load, From(m), Total(cut, Q)', Total(add, Q)')
    <3>1. /\ pc[u] = "store_limit" /\ loc[u].meter = m /\ loc[u].load \in Int
          /\ loc'[u].load = loc[u].load /\ loc'[u].todo = loc[u].todo
      BY <2>11 DEF Moves, IInv, Inv, Loaded
    <3>2. m \notin loc[u].todo /\ Reached(loc[u].load, From(m), Total(cut, P), Total(add, P))
      BY <2>3, <2>6, <3>1 DEF MeterInv
    <3> QED BY <2>5, <2>7, <3>1, <3>2 DEF Reached
  <2>12. terms'.limits[m] # None /\ opening' = opening
    BY <2>10, TermsAssumption DEF Moves
  <2> QED BY <2>6, <2>7, <2>8, <2>10, <2>11, <2>12 DEF MeterInv, Reached
<1> QED BY <1>3, <1>4, <1>5 DEF CeilInv

\* The ceilings of a session that is opened are those of the commitment.
LEMMA CeilOpens ==
  ASSUME IInv, Carrying, NEW t \in Threads, Open(t)
  PROVE  CeilInv'
<1>1. /\ pc' = pc /\ loc' = loc /\ log' = log /\ died' = died /\ terms' = opening'
      /\ opening' \in Terms
      /\ terms = Null
  BY TermsAssumption DEF Open
<1>2. \A u \in Threads : pc[u] = "idle"
  BY <1>1, TermsAssumption DEF IInv, TypeOK
<1>3. PastCalls' = {} /\ \A m : PastMeter(m)' = {}
  BY <1>1, <1>2 DEF PastCalls, PastMeter
<1>4. ASSUME NEW asked \in [Amendments -> Nat] PROVE Total(asked, {})' \in Nat
  <2>1. Total(asked, {}) \in Nat
    BY TotalNat
  <2> QED BY <1>1, <2>1 DEF Total
<1>5. CallsInv'
  <2>1. PICK cut \in [Amendments -> Nat], add \in [Amendments -> Nat] :
          cut = TakenCalls /\ add = AddedCalls
    BY AskedNat
  <2>2. /\ Total(TakenCalls, PastCalls)' = Total(cut, {})'
        /\ Total(AddedCalls, PastCalls)' = Total(add, {})'
    BY <1>3, <2>1 DEF Total, TakenCalls, AddedCalls
  <2>3. /\ Total(cut, {})' \in Nat
        /\ Total(add, {})' \in Nat
    BY <1>4
  <2> QED BY <1>1, <1>2, <2>2, <2>3 DEF CallsInv, Reached
<1>6. ASSUME NEW m \in Meters PROVE MeterInv(m)'
  <2>1. PICK cut \in [Amendments -> Nat], add \in [Amendments -> Nat] :
          cut = TakenFrom(m) /\ add = AddedTo(m)
    BY AskedNat
  <2>2. /\ Total(TakenFrom(m), PastMeter(m))' = Total(cut, {})'
        /\ Total(AddedTo(m), PastMeter(m))' = Total(add, {})'
    BY <1>3, <2>1 DEF Total, TakenFrom, AddedTo
  <2>3. /\ Total(cut, {})' \in Nat
        /\ Total(add, {})' \in Nat
    BY <1>4
  <2>4. opening'.limits[m] \in Int \cup {None, Odd}
    BY <1>1 DEF Terms, Ceiling
  <2> QED BY <1>1, <1>2, <2>2, <2>3, <2>4 DEF MeterInv, Reached, From
<1> QED BY <1>5, <1>6 DEF CeilInv

\* Nobody moves, and the ceilings stay.
LEMMA CeilStays ==
  ASSUME IInv, Carrying, CeilInv, UNCHANGED <<opening, pc, loc, log, died>>,
         terms' # Null => terms # Null /\ terms'.max_calls = terms.max_calls
                          /\ terms'.limits = terms.limits
  PROVE  Carrying' /\ CeilInv'
<1>1. Carrying'
  BY DEF Carrying
<1>2. Quiet
  BY DEF Quiet
<1>3. PastCalls' = PastCalls /\ \A m : PastMeter(m)' = PastMeter(m)
  BY DEF PastCalls, PastMeter
<1>4. CallsInv'
  BY <1>2, <1>3, PastAmending, CallsFrame DEF CeilInv
<1>5. ASSUME NEW m \in Meters PROVE MeterInv(m)'
  <2>1. terms' # Null => terms # Null /\ terms'.limits[m] = terms.limits[m]
    OBVIOUS
  <2> QED BY <1>2, <1>3, <2>1, PastAmending, MeterFrame DEF CeilInv
<1> QED BY <1>1, <1>4, <1>5 DEF CeilInv

\* What moves goes on with the amendment it had, or has one to do.
LEMMA MovesCarry ==
  ASSUME IInv, Carrying, NEW t \in Threads, Moves(t), loc'[t].am \in Amendments \cup {Null},
         terms' # Null => terms # Null
  PROVE  Carrying'
BY DEF Carrying, Moves

\* What a handler leaves when it comes to an end is of its kind.
LEMMA EndsCarry ==
  ASSUME IInv, Carrying, NEW t \in Threads, Ends(t), loc'[t].am \in Amendments \cup {Null}
  PROVE  Carrying'
<1>1. log' \in Seq(Amendments)
  <2>1. log' = log \/ (pc[t] \in Amending /\ log' = Append(log, loc[t].am))
    BY DEF Ends
  <2>2. pc[t] \in Amending => loc[t].am \in Amendments
    BY AtAmendment
  <2>3. \A am \in Amendments : Append(log, am) \in Seq(Amendments)
    BY DEF Carrying
  <2> QED BY <2>1, <2>2, <2>3 DEF Carrying
<1>2. died' \in Seq(Deaths)
  <2>1. died' = died \/ \E d \in Deaths : died' = Append(died, d)
    BY DEF Ends
  <2>2. \A d \in Deaths : Append(died, d) \in Seq(Deaths)
    BY DEF Carrying
  <2> QED BY <2>1, <2>2 DEF Carrying
<1> QED BY <1>1, <1>2 DEF Carrying, Ends

\* A handler that goes on, or answers, moves.
LEMMA PassMoves ==
  ASSUME IInv, NEW t \in Threads, NEW there, Pass(t, there)
  PROVE  Moves(t) /\ terms' = terms /\ pc'[t] = there /\ loc'[t] = loc[t]
BY DEF Pass, Goto, Moves, IInv, TypeOK

LEMMA AnswerMoves ==
  ASSUME IInv, NEW t \in Threads, Answers(t)
  PROVE  Moves(t) /\ terms' = terms /\ pc'[t] = "idle" /\ loc'[t].am = Null
<1>1. NoLocal.am = Null
  BY DEF NoLocal
<1> QED BY <1>1 DEF Answers, Frees, Goto, Moves, IInv, TypeOK

\* One that dies comes to an end; if it was at an amendment, there was something odd.
LEMMA DeathEnds ==
  ASSUME IInv, Carrying, DeathInv, DeathInv', NEW t \in Threads, NEW odd, Dies(t, odd)
  PROVE  Ends(t) /\ loc'[t].am = Null
<1>1. NoLocal.am = Null
  BY DEF NoLocal
<1>2. /\ UNCHANGED <<terms, opening, log>> /\ pc'[t] = "idle" /\ loc'[t] = NoLocal
      /\ \A u \in Threads \ {t} : pc'[u] = pc[u] /\ loc'[u] = loc[u]
  BY DEF Dies, Frees, Goto, IInv, TypeOK
<1>3. PICK d : /\ d = [am |-> loc[t].am, odd |-> odd, poisoned |-> Poisoned,
                        grew |-> pc[t] = "meters" /\ loc[t].keys # Metered(terms)]
               /\ died' = Append(died, d)
  BY DEF Dies
<1>4. died'[Len(died) + 1] = d /\ Len(died) + 1 \in DOMAIN died'
  <2>1. died \in Seq(Death \cup {d})
    BY DEF DeathInv
  <2> QED BY <1>3, <2>1
<1>5. d \in Death /\ (d.odd \/ d.poisoned \/ d.grew)
  BY <1>4 DEF DeathInv, DiesOnlyOf
<1>6. d \in Deaths
  <2>1. d.am \in Amendments \cup {Null}
    BY <1>3 DEF Carrying
  <2> QED BY <1>5, <2>1 DEF Death, Deaths
<1>7. d.am = loc[t].am /\ d.grew = (pc[t] = "meters" /\ loc[t].keys # Metered(terms))
  BY <1>3
<1>8. pc[t] \in Amending => d.odd \/ d.poisoned
  BY <1>5, <1>7 DEF Amending
<1> QED BY <1>1, <1>2, <1>3, <1>6, <1>7, <1>8 DEF Ends

\* A call leaves the ceilings alone.
LEMMA CallSteps ==
  ASSUME IInv, Carrying, CeilInv, DeathInv, DeathInv', NEW t \in Threads,
         CheckDeny(t) \/ CheckAllow(t) \/ CheckCalls(t) \/ CheckDeadline(t) \/ BeginMeters(t)
         \/ CheckMeter(t) \/ GoesOn(t)
  PROVE  Carrying' /\ CeilInv'
<1>1. pc[t] \in Checking /\ pc[t] \notin Amending
  BY DEF CheckDeny, CheckAllow, CheckCalls, CheckDeadline, BeginMeters, CheckMeter, GoesOn,
         Checking, Amending
<1>2. CASE Answers(t)
  BY <1>1, <1>2, AnswerMoves, MovesCarry, CeilAside
<1>3. ASSUME NEW odd, Dies(t, odd) PROVE Carrying' /\ CeilInv'
  BY <1>3, DeathEnds, EndsCarry, CeilEnds
<1>4. ASSUME NEW there \in Checking, Pass(t, there) PROVE Carrying' /\ CeilInv'
  <2>1. Moves(t) /\ terms' = terms /\ pc'[t] = there /\ loc'[t] = loc[t]
    BY <1>4, PassMoves
  <2>2. loc'[t].am \in Amendments \cup {Null}
    BY <2>1 DEF Carrying
  <2> QED BY <1>1, <2>1, <2>2, MovesCarry, CeilAside
<1>5. ASSUME Moves(t), terms' = terms, pc'[t] = "meters", loc'[t].am = loc[t].am
      PROVE  Carrying' /\ CeilInv'
  <2>1. loc'[t].am \in Amendments \cup {Null}
    BY <1>5 DEF Carrying
  <2> QED BY <1>1, <1>5, <2>1, MovesCarry, CeilAside DEF Checking
<1>6. CASE CheckDeny(t) \/ CheckAllow(t) \/ CheckCalls(t) \/ CheckDeadline(t) \/ GoesOn(t)
  BY <1>2, <1>3, <1>4, <1>6
     DEF CheckDeny, CheckAllow, CheckCalls, CheckDeadline, GoesOn, Fails, Checking
<1>7. loc[t] \in Local
  BY DEF IInv, TypeOK
<1>8. CASE BeginMeters(t)
  <2>1. /\ pc' = [pc EXCEPT ![t] = "meters"] /\ UNCHANGED <<terms, opening, log, died>>
        /\ loc' = [loc EXCEPT ![t] = [loc[t] EXCEPT !.size = Cardinality(Metered(terms)),
                                                     !.keys = Metered(terms)]]
    BY <1>8 DEF BeginMeters, Goto
  <2>2. loc'[t].am = loc[t].am /\ pc'[t] = "meters" /\ Moves(t)
    BY <1>7, <2>1 DEF Moves, IInv, TypeOK, Local
  <2> QED BY <1>5, <2>1, <2>2
<1>9. CASE CheckMeter(t)
  <2>1. ASSUME NEW m, loc' = [loc EXCEPT ![t].seen = @ \cup {m}],
               UNCHANGED <<terms, opening, pc, log, died>>
        PROVE  Carrying' /\ CeilInv'
    <3>1. loc'[t].am = loc[t].am /\ pc'[t] = "meters" /\ Moves(t)
      BY <1>7, <1>9, <2>1 DEF Moves, IInv, TypeOK, Local, CheckMeter
    <3> QED BY <1>5, <2>1, <3>1
  <2> QED BY <1>2, <1>3, <1>4, <1>9, <2>1 DEF CheckMeter, Fails, Checking
<1> QED BY <1>6, <1>8, <1>9

\* So does the beginning of a request, unless it opens the session.
LEMMA BeginSteps ==
  ASSUME IInv, Carrying, CeilInv, DeathInv, DeathInv', NEW t \in Threads, Begin(t)
  PROVE  Carrying' /\ CeilInv'
<1>1. pc[t] = "idle"
  BY DEF Begin, TurnAway, DiesReading, Open, BindCall, RefuseUnsigned, BindAmendment, Read
<1>2. CASE RefuseUnsigned(t) \/ \E kind \in Kinds : TurnAway(t, kind)
  BY <1>2, CeilStays DEF RefuseUnsigned, TurnAway
<1>3. CASE \E kind \in Kinds : DiesReading(t, kind)
  BY <1>3, DeathEnds, EndsCarry, CeilEnds DEF DiesReading
<1>4. CASE Open(t)
  <2>1. Carrying'
    BY <1>4, TermsAssumption DEF Open, Carrying
  <2> QED BY <1>4, <2>1, CeilOpens
<1>5. ASSUME NEW l, NEW there \in {"deny", "add_allow"}, pc' = [pc EXCEPT ![t] = there],
             loc' = [loc EXCEPT ![t] = l], l.am \in Amendments \cup {Null},
             UNCHANGED <<terms, opening, log, died>>
      PROVE  Carrying' /\ CeilInv'
  <2>1. Moves(t) /\ pc'[t] = there /\ loc'[t].am \in Amendments \cup {Null}
    BY <1>5 DEF Moves, IInv, TypeOK
  <2> QED BY <1>1, <1>5, <2>1, MovesCarry, CeilAside DEF Checking, Amending
<1>6. CASE BindCall(t)
  <2>1. PICK tool : loc' = [loc EXCEPT ![t] = [NoLocal EXCEPT !.tool = tool, !.start = terms]]
    BY <1>6 DEF BindCall
  <2>2. [NoLocal EXCEPT !.tool = tool, !.start = terms].am = Null
    BY DEF NoLocal
  <2> QED BY <1>5, <1>6, <2>1, <2>2 DEF BindCall, Goto
<1>7. CASE BindAmendment(t)
  <2>1. PICK am \in Amendments : loc' = [loc EXCEPT ![t] = [NoLocal EXCEPT !.am = am]]
    BY <1>7 DEF BindAmendment
  <2>2. [NoLocal EXCEPT !.am = am].am = am
    BY DEF NoLocal
  <2> QED BY <1>5, <1>7, <2>1, <2>2 DEF BindAmendment, Goto
<1> QED BY <1>2, <1>3, <1>4, <1>6, <1>7 DEF Begin

\* The lists of the terms, and the ends of an amendment, leave the ceilings alone.
LEMMA ListSteps ==
  ASSUME IInv, Carrying, CeilInv, DeathInv, DeathInv', NEW t \in Threads,
         AddAllow(t) \/ AddDeny(t) \/ JudgeScope(t) \/ RecordAmendment(t)
  PROVE  Carrying' /\ CeilInv'
<1>1. terms \in Terms /\ terms # Null /\ pc[t] \in Amending
  BY TermsThere DEF AddAllow, AddDeny, JudgeScope, RecordAmendment, Amending
<1>2. loc[t].am \in Amendments
  BY <1>1, AtAmendment
<1>3. ASSUME NEW odd, Dies(t, odd) PROVE Carrying' /\ CeilInv'
  BY <1>3, DeathEnds, EndsCarry, CeilEnds
<1>4. ASSUME NEW x, NEW there \in {"add_deny", "add_calls"}, pc[t] \in {"add_allow", "add_deny"},
             Applies(t, x, there), x.max_calls = terms.max_calls, x.limits = terms.limits
      PROVE  Carrying' /\ CeilInv'
  <2>1. /\ Moves(t) /\ terms' = x /\ pc'[t] = there /\ loc'[t].am = loc[t].am
    BY <1>4 DEF Applies, Goto, Moves, IInv, TypeOK
  <2> QED BY <1>1, <1>2, <1>4, <2>1, MovesCarry, CeilAside
<1>5. CASE AddAllow(t) /\ ~\E odd : Dies(t, odd)
  <2> DEFINE x == [terms EXCEPT !.allow = @ \cup loc[t].am.allow]
  <2>1. pc[t] = "add_allow" /\ Applies(t, x, "add_deny")
    BY <1>5 DEF AddAllow, Fails
  <2>2. x.max_calls = terms.max_calls /\ x.limits = terms.limits
    BY <1>1 DEF Terms
  <2> HIDE DEF x
  <2> QED BY <1>4, <2>1, <2>2
<1>6. CASE AddDeny(t) /\ ~\E odd : Dies(t, odd)
  <2> DEFINE x == [terms EXCEPT !.deny = Widened(@, loc[t].am.deny)]
  <2>1. pc[t] = "add_deny" /\ Applies(t, x, "add_calls")
    BY <1>6 DEF AddDeny, Fails
  <2>2. x.max_calls = terms.max_calls /\ x.limits = terms.limits
    BY <1>1 DEF Terms
  <2> HIDE DEF x
  <2> QED BY <1>4, <2>1, <2>2
<1>7. CASE JudgeScope(t) /\ ~\E odd : Dies(t, odd)
  <2>1. PICK there \in {"served", "clarify"} : Pass(t, there)
    BY <1>7 DEF JudgeScope, Fails
  <2>2. Moves(t) /\ terms' = terms /\ pc'[t] = there /\ loc'[t] = loc[t]
    BY <2>1, PassMoves
  <2>3. pc[t] = "load_limit" /\ loc[t].todo = {} /\ loc'[t].am = loc[t].am
    BY <1>7, <2>2 DEF JudgeScope
  <2> QED BY <1>1, <1>2, <2>2, <2>3, MovesCarry, CeilAside
<1>8. CASE RecordAmendment(t)
  <2>1. NoLocal.am = Null
    BY DEF NoLocal
  <2>2. Ends(t) /\ loc'[t].am = Null
    BY <1>1, <1>8, <2>1 DEF RecordAmendment, Recorded, Frees, Goto, Ends, IInv, TypeOK
  <2> QED BY <2>2, EndsCarry, CeilEnds
<1> QED BY <1>3, <1>5, <1>6, <1>7, <1>8

\* The ceiling of calls is raised in two steps.
LEMMA CallCeilingSteps ==
  ASSUME IInv, Carrying, CeilInv, DeathInv, DeathInv', NEW t \in Threads,
         LoadCalls(t) \/ StoreCalls(t)
  PROVE  Carrying' /\ CeilInv'
<1>1. terms \in Terms /\ terms # Null /\ pc[t] \in Amending /\ loc[t] \in Local
  BY TermsThere DEF LoadCalls, StoreCalls, Amending, IInv, TypeOK
<1>2. loc[t].am \in Amendments /\ loc[t].am \in Amendment
  BY <1>1, AtAmendment
<1>3. ASSUME NEW odd, Dies(t, odd) PROVE Carrying' /\ CeilInv'
  BY <1>3, DeathEnds, EndsCarry, CeilEnds
<1>4. CASE LoadCalls(t) /\ Pass(t, "set_deadline")
  <2>1. Moves(t) /\ terms' = terms /\ pc'[t] = "set_deadline" /\ loc'[t] = loc[t]
    BY <1>4, PassMoves
  <2>2. pc[t] = "add_calls"
    BY <1>4 DEF LoadCalls
  <2> QED BY <1>1, <1>2, <2>1, <2>2, MovesCarry, CeilAside
<1>5. ASSUME LoadCalls(t), ~\E odd : Dies(t, odd), ~Pass(t, "set_deadline")
      PROVE  Carrying' /\ CeilInv'
  <2>1. /\ pc[t] = "add_calls" /\ pc' = [pc EXCEPT ![t] = "store_calls"]
        /\ loc' = [loc EXCEPT ![t].load = terms.max_calls]
        /\ UNCHANGED <<terms, opening, log, died>>
        /\ terms.max_calls # None /\ terms.max_calls # Odd
    BY <1>5 DEF LoadCalls, Fails, Goto
  <2>2. terms.max_calls \in Int
    BY <1>1, <2>1 DEF Terms, Ceiling
  <2>3. loc'[t] = [loc[t] EXCEPT !.load = terms.max_calls]
    BY <2>1 DEF IInv, TypeOK
  <2>4. loc'[t].am = loc[t].am /\ loc'[t].load = terms.max_calls
    BY <1>1, <2>3 DEF Local
  <2>5. Moves(t) /\ pc'[t] = "store_calls"
    BY <2>1 DEF Moves, IInv, TypeOK
  <2> QED BY <1>1, <1>2, <2>1, <2>2, <2>4, <2>5, MovesCarry, CallsLoaded
<1>6. CASE StoreCalls(t)
  <2>1. /\ pc[t] = "store_calls" /\ pc' = [pc EXCEPT ![t] = "set_deadline"] /\ loc' = loc
        /\ terms' = [terms EXCEPT !.max_calls = loc[t].load + loc[t].am.add_calls]
        /\ UNCHANGED <<opening, log, died>>
    BY <1>6 DEF StoreCalls, Applies, Goto
  <2>2. Moves(t) /\ pc'[t] = "set_deadline" /\ loc'[t].am = loc[t].am
    BY <2>1 DEF Moves, IInv, TypeOK
  <2> QED BY <1>1, <1>2, <2>1, <2>2, MovesCarry, CallsStored
<1> QED BY <1>3, <1>4, <1>5, <1>6

\* The deadline, and the meters, each in two steps.
LEMMA LimitSteps ==
  ASSUME IInv, Carrying, CeilInv, DeathInv, DeathInv', NEW t \in Threads,
         SetDeadline(t) \/ LoadLimit(t) \/ StoreLimit(t)
  PROVE  Carrying' /\ CeilInv'
<1>1. terms \in Terms /\ terms # Null /\ pc[t] \in Amending /\ \A u \in Threads : loc[u] \in Local
  BY TermsThere DEF SetDeadline, LoadLimit, StoreLimit, Amending, IInv, TypeOK
<1>2. loc[t].am \in Amendments
  BY <1>1, AtAmendment
<1>3. ASSUME NEW odd, Dies(t, odd) PROVE Carrying' /\ CeilInv'
  BY <1>3, DeathEnds, EndsCarry, CeilEnds
<1>4. CASE SetDeadline(t)
  <2> DEFINE am == loc[t].am
             set == am.extend_deadline # "keep"
  <2>1. /\ pc[t] = "set_deadline" /\ pc' = [pc EXCEPT ![t] = "load_limit"]
        /\ terms' = IF set THEN [terms EXCEPT !.deadline = am.extend_deadline] ELSE terms
        /\ loc' = [u \in Threads |->
             IF u = t THEN [loc[u] EXCEPT !.todo = {m \in Meters : am.add_limits[m] # None}]
             ELSE [loc[u] EXCEPT !.moved = loc[u].moved \/ (set /\ loc[u].start # Null)]]
        /\ UNCHANGED <<opening, log, died>>
    BY <1>4 DEF SetDeadline, Goto
  <2>2. terms'.limits = terms.limits /\ terms'.max_calls = terms.max_calls
    BY <1>1, <2>1 DEF Terms
  <2>3. ASSUME NEW u \in Threads
        PROVE  /\ loc'[u].am = loc[u].am
               /\ u # t => /\ loc'[u].load = loc[u].load /\ loc'[u].todo = loc[u].todo
                           /\ loc'[u].meter = loc[u].meter
                           /\ loc'[u].start = loc[u].start /\ loc'[u].tool = loc[u].tool
    <3> HIDE DEF am, set
    <3>1. loc[u] \in Local
      BY <1>1
    <3>2. CASE u = t
      <4>1. loc'[u] = [loc[u] EXCEPT !.todo = {m \in Meters : am.add_limits[m] # None}]
        BY <2>1, <3>2
      <4> QED BY <3>1, <3>2, <4>1 DEF Local
    <3>3. CASE u # t
      <4>1. loc'[u] = [loc[u] EXCEPT !.moved = loc[u].moved \/ (set /\ loc[u].start # Null)]
        BY <2>1, <3>3
      <4> QED BY <3>1, <4>1 DEF Local
    <3> QED BY <3>2, <3>3
  <2> HIDE DEF am, set
  <2>4. Moves(t) /\ pc'[t] = "load_limit"
    BY <2>1, <2>3 DEF Moves, IInv, TypeOK
  <2>5. loc'[t].am = loc[t].am
    BY <2>3
  <2> QED BY <1>1, <1>2, <2>1, <2>2, <2>4, <2>5, MovesCarry, MetersNamed
<1>5. ASSUME LoadLimit(t), ~\E odd : Dies(t, odd) PROVE Carrying' /\ CeilInv'
  <2>1. PICK m \in loc[t].todo :
          /\ Odd \notin {terms.limits[m], loc[t].am.add_limits[m]}
          /\ pc' = [pc EXCEPT ![t] = "store_limit"]
          /\ loc' = [loc EXCEPT ![t].meter = m, ![t].todo = @ \ {m},
                       ![t].load = IF terms.limits[m] = None THEN 0 ELSE terms.limits[m]]
          /\ UNCHANGED <<terms, opening, log, died>>
    BY <1>5 DEF LoadLimit, Fails, Goto
  <2> DEFINE from == IF terms.limits[m] = None THEN 0 ELSE terms.limits[m]
             l == [loc[t] EXCEPT !.meter = m, !.todo = loc[t].todo \ {m}, !.load = from]
  <2>2. loc' = [loc EXCEPT ![t] = l] /\ loc'[t] = l
    BY <2>1 DEF IInv, TypeOK
  <2> HIDE DEF from
  <2>3. l.meter = m /\ l.todo = loc[t].todo \ {m} /\ l.load = from /\ l.am = loc[t].am
    BY <1>1 DEF Local
  <2> HIDE DEF l
  <2>4. Moves(t) /\ pc'[t] = "store_limit"
    BY <2>1, <2>2 DEF Moves, IInv, TypeOK
  <2>5. m \in Meters /\ pc[t] = "load_limit" /\ terms.limits[m] # Odd
    BY <1>1, <1>5, <2>1 DEF Local, LoadLimit
  <2>6. CeilInv'
    BY <1>1, <2>1, <2>2, <2>3, <2>4, <2>5, LimitLoaded DEF from
  <2> QED BY <1>1, <1>2, <2>1, <2>2, <2>3, <2>4, <2>6, MovesCarry
<1>6. CASE StoreLimit(t)
  <2>1. PICK m \in Meters : m = loc[t].meter
    BY <1>6 DEF StoreLimit, IInv, Inv, Loaded
  <2>2. /\ pc[t] = "store_limit" /\ pc' = [pc EXCEPT ![t] = "load_limit"] /\ loc' = loc
        /\ terms' = [terms EXCEPT !.limits[m] = loc[t].load + loc[t].am.add_limits[m]]
        /\ UNCHANGED <<opening, log, died>>
    BY <1>6, <2>1 DEF StoreLimit, Applies, Goto
  <2>3. /\ Moves(t) /\ pc'[t] = "load_limit" /\ loc'[t].am = loc[t].am
        /\ loc'[t].todo = loc[t].todo
    BY <2>2 DEF Moves, IInv, TypeOK
  <2> QED BY <1>1, <1>2, <2>1, <2>2, <2>3, MovesCarry, LimitStored
<1> QED BY <1>3, <1>4, <1>5, <1>6

-----------------------------------------------------------------------------
(* The theorem *)

\* Every step keeps the invariant.
LEMMA CeilNext ==
  ASSUME IInv, Carrying, CeilInv, DeathInv, DeathInv', [Next]_vars
  PROVE  Carrying' /\ CeilInv'
<1>1. CASE UNCHANGED vars
  BY <1>1, CeilStays DEF vars
<1>2. CASE DeadlinePasses
  <2>1. terms' = [terms EXCEPT !.deadline = "past"] /\ terms \in Terms /\ terms # Null
    BY <1>2 DEF DeadlinePasses, IInv, TypeOK
  <2>2. terms'.max_calls = terms.max_calls /\ terms'.limits = terms.limits
    BY <2>1 DEF Terms
  <2> QED BY <1>2, <2>1, <2>2, CeilStays DEF DeadlinePasses
<1>3. ASSUME NEW t \in Threads, Begin(t) \/ Handle(t) PROVE Carrying' /\ CeilInv'
  BY <1>3, BeginSteps, CallSteps, ListSteps, CallCeilingSteps, LimitSteps DEF Handle
<1> QED BY <1>1, <1>2, <1>3 DEF Next

\* What all the handlers at work carry is no less than what those past a ceiling do.
LEMMA GrantedAll ==
  ASSUME IInv, Carrying, NEW asked \in [Amendments -> Nat], NEW P \in SUBSET Threads,
         \A t \in P : pc[t] \in Amending
  PROVE  Granted(asked) \in Nat /\ Total(asked, P) <= Granted(asked)
<1>1. PICK A \in SUBSET Threads : A = Amenders
  BY DEF Amenders
<1>2. P \subseteq A /\ \A t \in A : loc[t].am \in Amendments
  BY <1>1, AtAmendment DEF Amenders, Carrying
<1>3. /\ Carried(asked, loc, P) <= Carried(asked, loc, A)
      /\ Carried(asked, loc, A) \in Nat
  <2>1. PICK lc : lc = loc
    OBVIOUS
  <2>2. \A t \in A : lc[t].am \in Amendments
    BY <1>2, <2>1
  <2>3. Carried(asked, lc, P) <= Carried(asked, lc, A) /\ Carried(asked, lc, A) \in Nat
    BY <1>2, <2>2, CarriedGrows
  <2> QED BY <2>1, <2>3
<1>4. /\ Logged(asked, log) \in Nat /\ Carried(asked, loc, P) \in Nat
      /\ Lost(asked, died) \in Nat
  BY TotalNat
<1>5. Granted(asked) = Logged(asked, log) + Carried(asked, loc, A) + Lost(asked, died)
  BY <1>1 DEF Granted, Logged, Carried, Lost, Mourned, Counted
<1> QED BY <1>3, <1>4, <1>5 DEF Total

\* However amendments and their updates interleave, a ceiling is no higher than what the
\* log, the handlers at work and those that died over an odd value add to what the
\* commitment set, and no lower than what their negative amounts leave of it, for any
\* amendments, whatever the sign of their amounts, any meters and number of handlers.
THEOREM CeilingsAreExplained == Spec => []CeilingsExplained
<1>1. Init => DeathInv /\ Carrying /\ CeilInv
  BY DEF Init, DeathInv, DiesOnlyOf, Carrying, CeilInv, CallsInv, MeterInv, NoLocal
<1>2. IInv /\ DeathInv /\ [Next]_vars => DeathInv'
  BY DeathNext
<1>3. IInv /\ DeathInv /\ DeathInv' /\ Carrying /\ CeilInv /\ [Next]_vars => Carrying' /\ CeilInv'
  BY CeilNext
<1>4. IInv /\ Carrying /\ CeilInv => CeilingsExplained
  <2> SUFFICES ASSUME IInv, Carrying, CeilInv, terms # Null PROVE CeilingsExplained
    BY DEF CeilingsExplained
  <2>1. opening \in Terms
    BY DEF Carrying
  <2>2. ASSUME terms.max_calls \in Int
        PROVE  terms.max_calls \in (opening.max_calls - Granted(TakenCalls))
                                  ..(opening.max_calls + Granted(AddedCalls))
    <3>1. /\ Total(TakenCalls, PastCalls) <= Granted(TakenCalls) /\ Granted(TakenCalls) \in Nat
          /\ Total(AddedCalls, PastCalls) <= Granted(AddedCalls) /\ Granted(AddedCalls) \in Nat
      BY AskedNat, PastAmending, GrantedAll
    <3>2. /\ Total(TakenCalls, PastCalls) \in Nat
          /\ Total(AddedCalls, PastCalls) \in Nat
      BY AskedNat, PastAmending, TotalNat
    <3>3. /\ opening.max_calls \in Int
          /\ Reached(terms.max_calls, opening.max_calls,
                     Total(TakenCalls, PastCalls), Total(AddedCalls, PastCalls))
      BY <2>2 DEF CeilInv, CallsInv
    <3> QED BY <2>2, <3>1, <3>2, <3>3 DEF Reached
  <2>3. ASSUME NEW m \in Meters, terms.limits[m] \in Int
        PROVE  terms.limits[m] \in (From(m) - Granted(TakenFrom(m)))
                                  ..(From(m) + Granted(AddedTo(m)))
    <3>1. /\ Total(TakenFrom(m), PastMeter(m)) <= Granted(TakenFrom(m))
          /\ Total(AddedTo(m), PastMeter(m)) <= Granted(AddedTo(m))
          /\ Granted(TakenFrom(m)) \in Nat /\ Granted(AddedTo(m)) \in Nat
      BY AskedNat, PastAmending, GrantedAll
    <3>2. /\ Total(TakenFrom(m), PastMeter(m)) \in Nat
          /\ Total(AddedTo(m), PastMeter(m)) \in Nat
      BY AskedNat, PastAmending, TotalNat
    <3>3. Reached(terms.limits[m], From(m),
                  Total(TakenFrom(m), PastMeter(m)), Total(AddedTo(m), PastMeter(m)))
      BY <2>3 DEF CeilInv, MeterInv
    <3>4. From(m) \in Int
      BY FromNumber
    <3> QED BY <2>3, <3>1, <3>2, <3>3, <3>4 DEF Reached
  <2>4. ASSUME NEW m \in Meters, terms.limits[m] \in Int
        PROVE  From(m) = IF opening.limits[m] = None THEN 0 ELSE opening.limits[m]
    <3>1. opening.limits[m] # Odd
      BY <2>4, TermsAssumption DEF CeilInv, MeterInv
    <3> QED BY <2>1, <3>1, TermsAssumption DEF From, Terms, Ceiling
  <2> QED BY <2>2, <2>3, <2>4 DEF CeilingsExplained
<1> QED BY <1>1, <1>2, <1>3, <1>4, InitIInv, NextIInv, PTL DEF Spec

-----------------------------------------------------------------------------
(* Who let a tool in *)

\* An amendment that was applied brought in the pattern, or the tool of the call.
Accounted(p) == \E am \in Amendments : Applied(am) /\ Allows(am) /\ p \in am.allow

LetIn(t) ==
  \/ Matches(loc[t].start.allow, loc[t].tool)
  \/ \E am \in Amendments : Applied(am) /\ Allows(am) /\ Matches(am.allow, loc[t].tool)

\* What is allowed was so when the call came, or an amendment that was applied allows it;
\* only handlers at an amendment have one.
AllowKept(t) ==
  /\ pc[t] \notin Amending => loc[t].am = Null
  /\ pc[t] \in Checking => \A p \in terms.allow \ loc[t].start.allow : Accounted(p)
  /\ pc[t] \in Checking \ {"deny", "allow"} => LetIn(t)

AllowInv == \A t \in Threads : AllowKept(t)

\* An amendment that was applied stays so, wherever its handler goes.
LEMMA AppliedMoves ==
  ASSUME Carrying, NEW t \in Threads, Moves(t), loc[t].am = Null \/ loc'[t].am = loc[t].am
  PROVE  \A am \in Amendments : Applied(am) => Applied(am)'
<1> SUFFICES ASSUME NEW am \in Amendments, Applied(am) PROVE Applied(am)'
  OBVIOUS
<1>1. CASE \E i \in DOMAIN log : log[i] = am
  BY <1>1 DEF Applied, Moves
<1>2. CASE \E i \in DOMAIN died : died[i].am = am
  BY <1>2 DEF Applied, Moves
<1>3. ASSUME NEW u \in Threads, loc[u].am = am PROVE Applied(am)'
  <2>1. am # Null
    BY TermsAssumption
  <2>2. loc'[u].am = am
    BY <1>3, <2>1 DEF Moves
  <2> QED BY <2>2 DEF Applied
<1> QED BY <1>1, <1>2, <1>3 DEF Applied

LEMMA AppliedEnds ==
  ASSUME IInv, Carrying, NEW t \in Threads, Ends(t), pc[t] \notin Amending => loc[t].am = Null
  PROVE  \A am \in Amendments : Applied(am) => Applied(am)'
<1> SUFFICES ASSUME NEW am \in Amendments, Applied(am) PROVE Applied(am)'
  OBVIOUS
<1>1. log' = log \/ (pc[t] \in Amending /\ log' = Append(log, loc[t].am))
  BY DEF Ends
<1>2. UNCHANGED died \/ \E d \in Deaths : died' = Append(died, d) /\ d.am = loc[t].am
  BY DEF Ends
<1>3. ASSUME NEW x \in Amendments, log' = Append(log, x)
      PROVE  /\ \A i \in DOMAIN log : i \in DOMAIN log' /\ log'[i] = log[i]
             /\ \E i \in DOMAIN log' : log'[i] = x
  <2>1. /\ DOMAIN log = 1..Len(log) /\ DOMAIN log' = 1..(Len(log) + 1) /\ Len(log) \in Nat
        /\ log'[Len(log) + 1] = x /\ \A i \in 1..Len(log) : log'[i] = log[i]
    BY <1>3 DEF Carrying
  <2> QED BY <2>1
<1>4. ASSUME NEW d \in Deaths, died' = Append(died, d)
      PROVE  /\ \A i \in DOMAIN died : i \in DOMAIN died' /\ died'[i] = died[i]
             /\ \E i \in DOMAIN died' : died'[i] = d
  <2>1. /\ DOMAIN died = 1..Len(died) /\ DOMAIN died' = 1..(Len(died) + 1) /\ Len(died) \in Nat
        /\ died'[Len(died) + 1] = d /\ \A i \in 1..Len(died) : died'[i] = died[i]
    BY <1>4 DEF Carrying
  <2> QED BY <2>1
<1>5. pc[t] \in Amending => loc[t].am \in Amendments
  BY AtAmendment
<1>6. CASE \E i \in DOMAIN log : log[i] = am
  <2>1. \E i \in DOMAIN log' : log'[i] = am
    BY <1>1, <1>3, <1>5, <1>6
  <2> QED BY <2>1 DEF Applied
<1>7. CASE \E i \in DOMAIN died : died[i].am = am
  <2>1. \E i \in DOMAIN died' : died'[i].am = am
    BY <1>2, <1>4, <1>7
  <2> QED BY <2>1 DEF Applied
<1>8. ASSUME NEW u \in Threads, u # t, loc[u].am = am PROVE Applied(am)'
  <2>1. loc'[u].am = am
    BY <1>8 DEF Ends
  <2> QED BY <2>1 DEF Applied
<1>9. CASE loc[t].am = am
  <2>1. pc[t] \in Amending
    BY <1>9, TermsAssumption
  <2>2. CASE log' = Append(log, loc[t].am)
    <3>1. \E i \in DOMAIN log' : log'[i] = am
      BY <1>3, <1>5, <1>9, <2>1, <2>2
    <3> QED BY <3>1 DEF Applied
  <2>3. CASE \E d \in Deaths : died' = Append(died, d) /\ d.am = loc[t].am
    <3>1. \E i \in DOMAIN died' : died'[i].am = am
      BY <1>4, <1>9, <2>3
    <3> QED BY <3>1 DEF Applied
  <2> QED BY <2>2, <2>3 DEF Ends
<1> QED BY <1>6, <1>7, <1>8, <1>9 DEF Applied

\* So what it accounts for stays accounted for.
LEMMA AllowFrame ==
  ASSUME AllowInv, NEW t \in Threads,
         \A am \in Amendments : Applied(am) => Applied(am)',
         \A u \in Threads \ {t} : /\ pc'[u] = pc[u] /\ loc'[u].am = loc[u].am
                                  /\ loc'[u].start = loc[u].start /\ loc'[u].tool = loc[u].tool,
         \A p \in terms'.allow \ terms.allow : Accounted(p)',
         AllowKept(t)'
  PROVE  AllowInv'
<1>1. \A p : Accounted(p) => Accounted(p)'
  BY DEF Accounted
<1>2. ASSUME NEW u \in Threads, u # t PROVE AllowKept(u)'
  <2>1. /\ AllowKept(u) /\ pc'[u] = pc[u] /\ loc'[u].am = loc[u].am
        /\ loc'[u].start = loc[u].start /\ loc'[u].tool = loc[u].tool
    BY <1>2 DEF AllowInv
  <2>2. LetIn(u) => LetIn(u)'
    BY <2>1 DEF LetIn, Matches
  <2>3. (\A p \in terms.allow \ loc[u].start.allow : Accounted(p)) =>
          \A p \in terms'.allow \ loc'[u].start.allow : Accounted(p)'
    BY <1>1, <2>1
  <2> QED BY <2>1, <2>2, <2>3 DEF AllowKept
<1> QED BY <1>2 DEF AllowInv

\* A handler that comes to an end allows nothing.
LEMMA AllowEnds ==
  ASSUME IInv, Carrying, AllowInv, NEW t \in Threads, Ends(t), loc'[t].am = Null
  PROVE  AllowInv'
<1>1. pc[t] \notin Amending => loc[t].am = Null
  BY DEF AllowInv, AllowKept
<1>2. \A am \in Amendments : Applied(am) => Applied(am)'
  BY <1>1, AppliedEnds
<1>3. /\ terms' = terms /\ pc'[t] = "idle"
      /\ \A u \in Threads \ {t} : pc'[u] = pc[u] /\ loc'[u] = loc[u]
  BY DEF Ends
<1>4. AllowKept(t)'
  BY <1>3 DEF AllowKept, Checking
<1> QED BY <1>2, <1>3, <1>4, AllowFrame

\* One that moves on with what it has, and leaves the allow list alone, does not either.
LEMMA AllowMoves ==
  ASSUME IInv, Carrying, AllowInv, NEW t \in Threads, Moves(t),
         loc[t].am = Null \/ loc'[t].am = loc[t].am,
         \A p \in terms'.allow \ terms.allow : Accounted(p)', AllowKept(t)'
  PROVE  AllowInv'
<1>1. \A am \in Amendments : Applied(am) => Applied(am)'
  BY AppliedMoves
<1> QED BY <1>1, AllowFrame DEF Moves

\* A call goes past the allow list if something in it is about its tool.
LEMMA AllowPasses ==
  ASSUME IInv, Carrying, AllowInv, NEW t \in Threads, Moves(t), terms' = terms,
         pc[t] \in Checking, pc'[t] \in Checking \ {"deny"}, loc'[t].am = loc[t].am,
         loc'[t].start = loc[t].start, loc'[t].tool = loc[t].tool,
         pc'[t] # "allow" => pc[t] \notin {"deny", "allow"} \/ Matches(terms.allow, loc[t].tool)
  PROVE  AllowInv'
<1>1. \A am \in Amendments : Applied(am) => Applied(am)'
  BY AppliedMoves
<1>2. AllowKept(t)
  BY DEF AllowInv
<1>3. \A p \in terms.allow \ loc[t].start.allow : Accounted(p)
  BY <1>2 DEF AllowKept
<1>4. \A p : Accounted(p) => Accounted(p)'
  BY <1>1 DEF Accounted
<1>5. Matches(terms.allow, loc[t].tool) => LetIn(t)
  BY <1>3 DEF Matches, LetIn, Accounted
<1>6. LetIn(t) => LetIn(t)'
  BY <1>1 DEF LetIn, Matches
<1>7. pc'[t] # "allow" => LetIn(t)
  BY <1>2, <1>5 DEF AllowKept
<1>8. loc'[t].am = Null
  BY <1>2 DEF AllowKept, Amending, Checking
<1>9. AllowKept(t)'
  BY <1>3, <1>4, <1>6, <1>7, <1>8 DEF AllowKept
<1> QED BY <1>9, AllowMoves

LEMMA AllowCalls ==
  ASSUME IInv, Carrying, AllowInv, DeathInv, DeathInv', NEW t \in Threads,
         CheckDeny(t) \/ CheckAllow(t) \/ CheckCalls(t) \/ CheckDeadline(t) \/ BeginMeters(t)
         \/ CheckMeter(t) \/ GoesOn(t)
  PROVE  AllowInv'
<1>1. pc[t] \in Checking /\ pc[t] \notin Amending
  BY DEF CheckDeny, CheckAllow, CheckCalls, CheckDeadline, BeginMeters, CheckMeter, GoesOn,
         Checking, Amending
<1>2. CASE Answers(t)
  <2>1. Moves(t) /\ terms' = terms /\ pc'[t] = "idle" /\ loc'[t].am = Null
    BY <1>2, AnswerMoves
  <2>2. AllowKept(t)'
    BY <2>1 DEF AllowKept, Checking
  <2>3. loc[t].am = Null
    BY <1>1 DEF AllowInv, AllowKept
  <2> QED BY <2>1, <2>2, <2>3, AllowMoves
<1>3. ASSUME NEW odd, Dies(t, odd) PROVE AllowInv'
  BY <1>3, DeathEnds, AllowEnds
<1>4. ASSUME NEW there \in Checking \ {"deny"}, Pass(t, there),
             there # "allow" => pc[t] \notin {"deny", "allow"} \/ Matches(terms.allow, loc[t].tool)
      PROVE  AllowInv'
  <2>1. Moves(t) /\ terms' = terms /\ pc'[t] = there /\ loc'[t] = loc[t]
    BY <1>4, PassMoves
  <2> QED BY <1>1, <1>4, <2>1, AllowPasses
<1>5. CASE CheckDeny(t)
  BY <1>2, <1>3, <1>4, <1>5 DEF CheckDeny, Fails, Checking
<1>6. CASE CheckAllow(t)
  BY <1>2, <1>3, <1>4, <1>6 DEF CheckAllow, Fails, Checking
<1>7. CASE CheckCalls(t) \/ CheckDeadline(t) \/ GoesOn(t)
  BY <1>2, <1>3, <1>4, <1>7 DEF CheckCalls, CheckDeadline, GoesOn, Fails, Checking
<1>8. loc[t] \in Local
  BY DEF IInv, TypeOK
<1>9. CASE BeginMeters(t)
  <2>1. /\ pc[t] = "limits" /\ pc' = [pc EXCEPT ![t] = "meters"]
        /\ UNCHANGED <<terms, opening, log, died>>
        /\ loc' = [loc EXCEPT ![t] = [loc[t] EXCEPT !.size = Cardinality(Metered(terms)),
                                                     !.keys = Metered(terms)]]
    BY <1>9 DEF BeginMeters, Goto
  <2>2. /\ loc'[t].am = loc[t].am /\ pc'[t] = "meters" /\ Moves(t)
        /\ loc'[t].start = loc[t].start /\ loc'[t].tool = loc[t].tool
    BY <1>8, <2>1 DEF Moves, IInv, TypeOK, Local
  <2> QED BY <1>1, <2>1, <2>2, AllowPasses DEF Checking
<1>10. CASE CheckMeter(t)
  <2>1. ASSUME NEW m, loc' = [loc EXCEPT ![t].seen = @ \cup {m}],
               UNCHANGED <<terms, opening, pc, log, died>>
        PROVE  AllowInv'
    <3>1. /\ loc'[t].am = loc[t].am /\ pc[t] = "meters" /\ pc'[t] = "meters" /\ Moves(t)
          /\ loc'[t].start = loc[t].start /\ loc'[t].tool = loc[t].tool
      BY <1>8, <1>10, <2>1 DEF Moves, IInv, TypeOK, Local, CheckMeter
    <3> QED BY <1>1, <2>1, <3>1, AllowPasses DEF Checking
  <2> QED BY <1>2, <1>3, <1>4, <1>10, <2>1 DEF CheckMeter, Fails, Checking
<1> QED BY <1>5, <1>6, <1>7, <1>9, <1>10

\* An amendment allows what it carries, and is applied from then on.
LEMMA AllowAmends ==
  ASSUME IInv, Carrying, AllowInv, DeathInv, DeathInv', NEW t \in Threads,
         AddAllow(t) \/ AddDeny(t) \/ LoadCalls(t) \/ StoreCalls(t) \/ SetDeadline(t)
         \/ LoadLimit(t) \/ StoreLimit(t) \/ JudgeScope(t) \/ RecordAmendment(t)
  PROVE  AllowInv'
<1>1. terms \in Terms /\ terms # Null /\ pc[t] \in Amending /\ \A u \in Threads : loc[u] \in Local
  BY TermsThere DEF AddAllow, AddDeny, LoadCalls, StoreCalls, SetDeadline, LoadLimit, StoreLimit,
     JudgeScope, RecordAmendment, Amending, IInv, TypeOK
<1>2. loc[t].am \in Amendments
  BY <1>1, AtAmendment
<1>3. ASSUME NEW odd, Dies(t, odd) PROVE AllowInv'
  BY <1>3, DeathEnds, AllowEnds
<1>4. ASSUME Moves(t), pc'[t] \in Amending, loc'[t].am = loc[t].am,
             \A p \in terms'.allow \ terms.allow : Accounted(p)'
      PROVE  AllowInv'
  <2>1. AllowKept(t)'
    BY <1>4 DEF AllowKept, Checking, Amending
  <2> QED BY <1>4, <2>1, AllowMoves
<1>5. ASSUME NEW there \in Amending, Pass(t, there) PROVE AllowInv'
  BY <1>4, <1>5, PassMoves
<1>6. ASSUME NEW x, NEW there \in Amending, Applies(t, x, there),
             \A p \in x.allow \ terms.allow : Accounted(p)'
      PROVE  AllowInv'
  <2>1. /\ Moves(t) /\ terms' = x /\ pc'[t] = there /\ loc'[t].am = loc[t].am
    BY <1>6 DEF Applies, Goto, Moves, IInv, TypeOK
  <2> QED BY <1>4, <1>6, <2>1
<1>7. CASE AddAllow(t) /\ ~\E odd : Dies(t, odd)
  <2> DEFINE x == [terms EXCEPT !.allow = @ \cup loc[t].am.allow]
  <2>1. Allows(loc[t].am) /\ Applies(t, x, "add_deny")
    BY <1>7 DEF AddAllow, Fails
  <2>2. x.allow = terms.allow \cup loc[t].am.allow
    BY <1>1 DEF Terms
  <2>3. PICK am \in Amendments : am = loc[t].am /\ am = loc'[t].am
    BY <1>2, <2>1 DEF Applies
  <2>4. Applied(am)' /\ Allows(am)
    BY <2>1, <2>3 DEF Applied
  <2>5. \A p \in loc[t].am.allow : Accounted(p)'
    BY <2>3, <2>4 DEF Accounted
  <2> HIDE DEF x
  <2> QED BY <1>6, <2>1, <2>2, <2>5 DEF Amending
<1>8. CASE AddDeny(t) /\ ~\E odd : Dies(t, odd)
  <2> DEFINE x == [terms EXCEPT !.deny = Widened(@, loc[t].am.deny)]
  <2>1. Applies(t, x, "add_calls")
    BY <1>8 DEF AddDeny, Fails
  <2>2. x.allow = terms.allow
    BY <1>1 DEF Terms
  <2> HIDE DEF x
  <2> QED BY <1>6, <2>1, <2>2 DEF Amending
<1>15. CASE StoreCalls(t)
  <2> DEFINE raised == loc[t].load + loc[t].am.add_calls
             x == [terms EXCEPT !.max_calls = raised]
  <2>1. Applies(t, x, "set_deadline")
    BY <1>15 DEF StoreCalls
  <2> HIDE DEF raised
  <2>2. x.allow = terms.allow
    BY <1>1 DEF Terms
  <2> HIDE DEF x
  <2> QED BY <1>6, <2>1, <2>2 DEF Amending
<1>9. CASE LoadCalls(t) /\ ~\E odd : Dies(t, odd)
  <2>1. CASE Pass(t, "set_deadline")
    BY <1>5, <2>1 DEF Amending
  <2>2. CASE ~Pass(t, "set_deadline")
    <3>1. /\ pc' = [pc EXCEPT ![t] = "store_calls"]
          /\ loc' = [loc EXCEPT ![t].load = terms.max_calls]
          /\ UNCHANGED <<terms, opening, log, died>>
      BY <1>9, <2>2 DEF LoadCalls, Fails, Goto
    <3>2. Moves(t) /\ pc'[t] \in Amending /\ loc'[t].am = loc[t].am
      BY <1>1, <3>1 DEF Moves, IInv, TypeOK, Local, Amending
    <3> QED BY <1>4, <3>1, <3>2
  <2> QED BY <2>1, <2>2
<1>10. CASE SetDeadline(t)
  <2> DEFINE am == loc[t].am
             set == am.extend_deadline # "keep"
  <2>1. /\ pc' = [pc EXCEPT ![t] = "load_limit"] /\ UNCHANGED <<opening, log, died>>
        /\ terms' = IF set THEN [terms EXCEPT !.deadline = am.extend_deadline] ELSE terms
        /\ loc' = [u \in Threads |->
             IF u = t THEN [loc[u] EXCEPT !.todo = {m \in Meters : am.add_limits[m] # None}]
             ELSE [loc[u] EXCEPT !.moved = loc[u].moved \/ (set /\ loc[u].start # Null)]]
    BY <1>10 DEF SetDeadline, Goto
  <2>2. terms'.allow = terms.allow
    BY <1>1, <2>1 DEF Terms
  <2> HIDE DEF am, set
  <2>3. ASSUME NEW l \in Local, NEW todo, NEW moved
        PROVE  /\ [l EXCEPT !.todo = todo].am = l.am
               /\ \A f \in {"am", "load", "todo", "meter", "start", "tool"} :
                    [l EXCEPT !.moved = moved][f] = l[f]
    BY DEF Local
  <2>4. loc'[t].am = loc[t].am
    BY <1>1, <2>1, <2>3
  <2>5. ASSUME NEW u \in Threads \ {t}
        PROVE  /\ loc'[u].am = loc[u].am /\ loc'[u].load = loc[u].load
               /\ loc'[u].todo = loc[u].todo /\ loc'[u].meter = loc[u].meter
               /\ loc'[u].start = loc[u].start /\ loc'[u].tool = loc[u].tool
    <3>1. loc'[u] = [loc[u] EXCEPT !.moved = loc[u].moved \/ (set /\ loc[u].start # Null)]
      BY <2>1
    <3> QED BY <1>1, <3>1 DEF Local
  <2>6. Moves(t) /\ pc'[t] \in Amending
    BY <2>1, <2>5 DEF Moves, IInv, TypeOK, Amending
  <2> QED BY <1>4, <2>2, <2>4, <2>6
<1>11. CASE LoadLimit(t) /\ ~\E odd : Dies(t, odd)
  <2>1. PICK m \in loc[t].todo :
          /\ pc' = [pc EXCEPT ![t] = "store_limit"]
          /\ loc' = [loc EXCEPT ![t].meter = m, ![t].todo = @ \ {m},
                       ![t].load = IF terms.limits[m] = None THEN 0 ELSE terms.limits[m]]
          /\ UNCHANGED <<terms, opening, log, died>>
    BY <1>11 DEF LoadLimit, Fails, Goto
  <2> DEFINE from == IF terms.limits[m] = None THEN 0 ELSE terms.limits[m]
             l == [loc[t] EXCEPT !.meter = m, !.todo = loc[t].todo \ {m}, !.load = from]
  <2>2. loc' = [loc EXCEPT ![t] = l] /\ loc'[t] = l
    BY <2>1 DEF IInv, TypeOK
  <2> HIDE DEF from
  <2>3. l.am = loc[t].am
    BY <1>1 DEF Local
  <2> HIDE DEF l
  <2>4. Moves(t) /\ pc'[t] \in Amending
    BY <2>1, <2>2 DEF Moves, IInv, TypeOK, Amending
  <2> QED BY <1>4, <2>1, <2>2, <2>3, <2>4
<1>12. CASE StoreLimit(t)
  <2> DEFINE raised == loc[t].load + loc[t].am.add_limits[loc[t].meter]
             x == [terms EXCEPT !.limits[loc[t].meter] = raised]
  <2>1. Applies(t, x, "load_limit")
    BY <1>12 DEF StoreLimit
  <2> HIDE DEF raised
  <2>2. x.allow = terms.allow
    BY <1>1 DEF Terms
  <2> HIDE DEF x
  <2> QED BY <1>6, <2>1, <2>2 DEF Amending
<1>13. CASE JudgeScope(t)
  BY <1>3, <1>5, <1>13 DEF JudgeScope, Fails, Amending
<1>14. CASE RecordAmendment(t)
  <2>1. NoLocal.am = Null
    BY DEF NoLocal
  <2>2. Ends(t) /\ loc'[t].am = Null
    BY <1>1, <1>14, <2>1 DEF RecordAmendment, Recorded, Frees, Goto, Ends, IInv, TypeOK
  <2> QED BY <2>2, AllowEnds
<1> QED BY <1>3, <1>7, <1>8, <1>9, <1>10, <1>11, <1>12, <1>13, <1>14, <1>15

\* A call starts with what is allowed then.
LEMMA AllowBegins ==
  ASSUME IInv, Carrying, AllowInv, DeathInv, DeathInv', NEW t \in Threads, Begin(t)
  PROVE  AllowInv'
<1>1. pc[t] = "idle" /\ loc[t].am = Null
  BY DEF Begin, TurnAway, DiesReading, Open, BindCall, RefuseUnsigned, BindAmendment, Read,
         AllowInv, AllowKept, Amending
<1>2. CASE RefuseUnsigned(t) \/ \E kind \in Kinds : TurnAway(t, kind)
  <2>1. Moves(t) /\ terms' = terms /\ pc'[t] = pc[t] /\ loc'[t] = loc[t]
    BY <1>2 DEF RefuseUnsigned, TurnAway, Moves
  <2>2. AllowKept(t)'
    BY <1>1, <2>1 DEF AllowKept, Checking
  <2> QED BY <1>1, <2>1, <2>2, AllowMoves
<1>3. CASE \E kind \in Kinds : DiesReading(t, kind)
  BY <1>3, DeathEnds, AllowEnds DEF DiesReading
<1>4. CASE Open(t)
  <2>1. pc' = pc /\ loc' = loc /\ terms = Null
    BY <1>4 DEF Open
  <2>2. \A u \in Threads : pc[u] = "idle"
    BY <2>1, TermsAssumption DEF IInv, TypeOK
  <2>3. ASSUME NEW u \in Threads PROVE AllowKept(u)'
    BY <2>1, <2>2 DEF AllowInv, AllowKept, Checking
  <2> QED BY <2>3 DEF AllowInv
<1>5. CASE BindCall(t)
  <2>1. PICK tool : loc' = [loc EXCEPT ![t] = [NoLocal EXCEPT !.tool = tool, !.start = terms]]
    BY <1>5 DEF BindCall
  <2>2. /\ [NoLocal EXCEPT !.tool = tool, !.start = terms].am = Null
        /\ [NoLocal EXCEPT !.tool = tool, !.start = terms].start = terms
    BY DEF NoLocal
  <2>3. /\ Moves(t) /\ pc'[t] = "deny" /\ terms' = terms
        /\ loc'[t].am = Null /\ loc'[t].start = terms
    BY <1>5, <2>1, <2>2 DEF BindCall, Goto, Moves, IInv, TypeOK
  <2>4. AllowKept(t)'
    BY <2>3 DEF AllowKept
  <2> QED BY <1>1, <2>3, <2>4, AllowMoves
<1>6. CASE BindAmendment(t)
  <2>1. PICK am \in Amendments : loc' = [loc EXCEPT ![t] = [NoLocal EXCEPT !.am = am]]
    BY <1>6 DEF BindAmendment
  <2>2. Moves(t) /\ pc'[t] = "add_allow" /\ terms' = terms
    BY <1>6, <2>1 DEF BindAmendment, Goto, Moves, IInv, TypeOK
  <2>3. AllowKept(t)'
    BY <2>2 DEF AllowKept, Amending, Checking
  <2> QED BY <1>1, <2>2, <2>3, AllowMoves
<1> QED BY <1>2, <1>3, <1>4, <1>5, <1>6 DEF Begin

\* Every step keeps what lets a call past the allow list.
LEMMA AllowNext ==
  ASSUME IInv, Carrying, AllowInv, DeathInv, DeathInv', [Next]_vars
  PROVE  AllowInv'
<1>1. CASE UNCHANGED vars
  BY <1>1 DEF vars, AllowInv, AllowKept, LetIn, Accounted, Applied, Matches
<1>2. CASE DeadlinePasses
  <2>1. terms' = [terms EXCEPT !.deadline = "past"] /\ terms \in Terms
    BY <1>2 DEF DeadlinePasses, IInv, TypeOK
  <2>2. terms'.allow = terms.allow /\ UNCHANGED <<pc, loc, log, died>>
    BY <1>2, <2>1 DEF Terms, DeadlinePasses
  <2> QED BY <2>2 DEF AllowInv, AllowKept, LetIn, Accounted, Applied, Matches
<1>3. ASSUME NEW t \in Threads, Begin(t) \/ Handle(t) PROVE AllowInv'
  BY <1>3, AllowBegins, AllowCalls, AllowAmends DEF Handle
<1> QED BY <1>1, <1>2, <1>3 DEF Next

-----------------------------------------------------------------------------
(* The theorem about refusals *)

\* A call that the terms refuse when it comes does not pass C3 by what any number of
\* amendments change meanwhile if its tool was denied; if it was not allowed, only by an
\* amendment that was applied and allows it; if the deadline was past, only if one sets it.
THEOREM RefusalsStand == Spec => RefusalStands
<1>1. ASSUME IInv, AllowInv, [Next]_vars, NEW t \in Threads, pc[t] # "passed", pc'[t] = "passed"
      PROVE  /\ ~Matches(loc[t].start.deny, loc[t].tool)
             /\ LetIn(t)
             /\ loc[t].start.deadline = "past" => loc[t].moved
  <2>1. pc[t] = "meters"
    BY <1>1, PassesBy
  <2>2. LetIn(t)
    BY <1>1, <2>1 DEF AllowInv, AllowKept, Checking
  <2> QED BY <1>1, <2>1, <2>2 DEF IInv, Inv, DenialKept, DeadlineKept, Checking
<1>2. IInv /\ AllowInv /\ [Next]_vars =>
        [\A t \in Threads : pc[t] # "passed" /\ pc'[t] = "passed" =>
           /\ ~Matches(loc[t].start.deny, loc[t].tool)
           /\ Matches(loc[t].start.allow, loc[t].tool)
                \/ \E am \in Amendments :
                     Applied(am) /\ Allows(am) /\ Matches(am.allow, loc[t].tool)
           /\ loc[t].start.deadline = "past" => loc[t].moved]_vars
  BY <1>1 DEF LetIn
<1>3. Init => DeathInv /\ Carrying /\ CeilInv /\ AllowInv
  BY DEF Init, DeathInv, DiesOnlyOf, Carrying, CeilInv, CallsInv, MeterInv, NoLocal,
         AllowInv, AllowKept, Checking
<1>4. IInv /\ DeathInv /\ [Next]_vars => DeathInv'
  BY DeathNext
<1>5. IInv /\ DeathInv /\ DeathInv' /\ Carrying /\ CeilInv /\ [Next]_vars => Carrying' /\ CeilInv'
  BY CeilNext
<1>6. IInv /\ DeathInv /\ DeathInv' /\ Carrying /\ AllowInv /\ [Next]_vars => AllowInv'
  BY AllowNext
<1> QED BY <1>2, <1>3, <1>4, <1>5, <1>6, InitIInv, NextIInv, PTL DEF Spec, RefusalStands

=============================================================================
