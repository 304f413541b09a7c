------------------------------ MODULE LiveTerms ------------------------------
(***************************************************************************)
(* The terms of one session, read by calls (C2, C3) and changed in place   *)
(* by amendments, with a handler per request and a step per access, as in  *)
(* the threaded server.  Messages may have fields missing or odd, and a    *)
(* handler that meets an odd value dies where it is: what it has changed   *)
(* stays, nothing is logged and nobody is answered.  A null amount is odd: *)
(* it is there, and no number.  An amount may be any number, a negative    *)
(* one too, which lowers the ceiling; integers stand for them here.        *)
(*                                                                         *)
(* The session is opened once.  The counters are left out: a comparison    *)
(* with a ceiling may go either way.  VapEngine has them.                  *)
(***************************************************************************)
EXTENDS Messages, FiniteSets, Functions

CONSTANTS
  Threads, Tools, Meters,
  Patterns, Covers,   \* tool-name globs, glob -> the tools it matches
  OddPattern,         \* a pattern that is no text: matching it raises
  OddTool,            \* a tool name that is no text
  Openings,           \* terms a commitment may carry
  Amendments,         \* what an amendment may ask for
  MaxRequests,        \* bound on the requests handled
  None,               \* no such ceiling
  Odd,                \* a value that is no number
  Null

Ceiling == Int \cup {None, Odd}
Terms == [allow : SUBSET Patterns, deny : SUBSET Patterns, max_calls : Ceiling,
          deadline : {"none", "ahead", "past", "unparsed", "odd"}, limits : [Meters -> Ceiling]]
\* odd: the sections and lists of it that are not what they should be.
Amendment == [signed : BOOLEAN, allow : SUBSET Patterns, deny : SUBSET Patterns,
              add_calls : Ceiling, add_limits : [Meters -> Ceiling],
              extend_deadline : {"keep", "none", "ahead", "past", "unparsed", "odd"},
              odd : SUBSET {"add_scope", "tools_allow", "tools_deny", "increase_budget",
                            "add_limits"}]

ASSUME TermsAssumption ==
  /\ Covers \in [Patterns -> SUBSET Tools] /\ OddTool \notin Tools
  /\ Openings \subseteq Terms /\ Amendments \subseteq Amendment
  /\ IsFiniteSet(Meters) /\ IsFiniteSet(Threads) /\ MaxRequests \in Nat
  /\ Null \notin Terms \cup Amendment
  /\ None \notin Int /\ Odd \notin Int /\ None # Odd

VARIABLES
  terms,      \* the commitment of the Session, Null before it is opened
  opening,    \* the terms it was opened with (a history variable)
  pc, loc,    \* per handler: next step, local variables
  log,        \* the amendments that were applied and that the audit log records
  died,       \* the handlers that died (a history variable)
  handled     \* requests begun so far

vars == <<terms, opening, pc, loc, log, died, handled>>

Nothing == [m \in Meters |-> None]

\* For a call start has the terms it was bound under, moved says whether its deadline was
\* set since, and keys has the meters when C3 began to go through them (history fields).
NoLocal == [tool |-> Null, am |-> Null, load |-> 0, meter |-> Null, todo |-> {}, seen |-> {},
            size |-> 0, start |-> Null, moved |-> FALSE, keys |-> {}]

Init ==
  /\ terms = Null /\ opening = Null
  /\ pc = [t \in Threads |-> "idle"] /\ loc = [t \in Threads |-> NoLocal]
  /\ log = <<>> /\ died = <<>> /\ handled = 0

Metered(x) == {m \in Meters : x.limits[m] # None}

\* Something in the terms makes every check that meets it raise.
Poisoned ==
  /\ terms # Null
  /\ \/ OddPattern \in terms.allow \cup terms.deny
     \/ terms.max_calls = Odd \/ terms.deadline = "odd"
     \/ \E m \in Meters : terms.limits[m] = Odd

-----------------------------------------------------------------------------
(* Handlers *)

Goto(t, there) == pc' = [pc EXCEPT ![t] = there]
Pass(t, there) == Goto(t, there) /\ UNCHANGED <<terms, opening, loc, log, died, handled>>
Frees(t) == Goto(t, "idle") /\ loc' = [loc EXCEPT ![t] = NoLocal]
Answers(t) == Frees(t) /\ UNCHANGED <<terms, opening, log, died, handled>>

\* An exception leaves dispatch; odd says whether the message itself is to blame.
Dies(t, odd) ==
  /\ died' = Append(died, [am |-> loc[t].am, odd |-> odd, poisoned |-> Poisoned,
                           grew |-> pc[t] = "meters" /\ loc[t].keys # Metered(terms)])
  /\ Frees(t)
  /\ UNCHANGED <<terms, opening, log>>

Fails(t, odd) == Dies(t, odd) /\ UNCHANGED handled

\* A handler takes the next request and reads its message.
Read(t, kind, how, odd) ==
  /\ pc[t] = "idle" /\ handled < MaxRequests
  /\ handled' = handled + 1
  /\ [how |-> how, odd |-> odd] \in Readings[kind]

\* The message is malformed, S2 sends the commitment back, or there is no session.
TurnAway(t, kind) ==
  /\ \/ \E odd \in BOOLEAN : Read(t, kind, "malformed", odd)
     \/ (kind = "open" \/ terms = Null) /\ \E odd \in BOOLEAN : Read(t, kind, "fine", odd)
  /\ UNCHANGED <<terms, opening, pc, loc, log, died>>

DiesReading(t, kind) ==
  \E odd \in BOOLEAN : Read(t, kind, "raises", odd) /\ Dies(t, odd)

Open(t) ==
  /\ terms = Null
  /\ \E odd \in BOOLEAN : Read(t, "open", "fine", odd)
  /\ \E x \in Openings : terms' = x /\ opening' = x
  /\ UNCHANGED <<pc, loc, log, died>>

-----------------------------------------------------------------------------
(* A call: C2, and C3 one ceiling after another *)

BindCall(t) ==
  /\ terms # Null
  /\ \E odd \in BOOLEAN : Read(t, "call", "fine", odd)
  /\ \E tool \in Tools \cup {OddTool} :
       loc' = [loc EXCEPT ![t] = [NoLocal EXCEPT !.tool = tool, !.start = terms]]
  /\ Goto(t, "deny")
  /\ UNCHANGED <<terms, opening, log, died>>

\* any(fnmatch(...)) over a list: if one pattern matches and another raises, the order of
\* the list, left open here, decides.
Matches(patterns, tool) == \E p \in patterns : tool \in Covers[p]
Raises(patterns, tool) == patterns # {} /\ (OddPattern \in patterns \/ tool = OddTool)

CheckDeny(t) ==
  LET tool == loc[t].tool IN
  /\ pc[t] = "deny"
  /\ \/ Matches(terms.deny, tool) /\ Answers(t)
     \/ Raises(terms.deny, tool) /\ Fails(t, tool = OddTool)
     \/ ~Matches(terms.deny, tool) /\ ~Raises(terms.deny, tool) /\ Pass(t, "allow")

CheckAllow(t) ==
  LET tool == loc[t].tool IN
  /\ pc[t] = "allow"
  /\ \/ Matches(terms.allow, tool) /\ Pass(t, "calls")
     \/ Raises(terms.allow, tool) /\ Fails(t, tool = OddTool)
     \/ ~Matches(terms.allow, tool) /\ ~Raises(terms.allow, tool) /\ Answers(t)

CheckCalls(t) ==
  /\ pc[t] = "calls"
  /\ \/ terms.max_calls # Odd /\ Pass(t, "deadline")
     \/ terms.max_calls \in Int /\ Answers(t)
     \/ terms.max_calls = Odd /\ Fails(t, FALSE)

\* A text that does not parse as a date counts as no deadline.
CheckDeadline(t) ==
  /\ pc[t] = "deadline"
  /\ \/ terms.deadline \in {"none", "ahead", "unparsed"} /\ Pass(t, "limits")
     \/ terms.deadline = "past" /\ Answers(t)
     \/ terms.deadline = "odd" /\ Fails(t, FALSE)

\* An iteration over the live limits begins: it notes how many there are.
BeginMeters(t) ==
  /\ pc[t] = "limits" /\ Goto(t, "meters")
  /\ loc' = [loc EXCEPT ![t].size = Cardinality(Metered(terms)), ![t].keys = Metered(terms)]
  /\ UNCHANGED <<terms, opening, log, died, handled>>

\* Mutant: any change of the limits ends the iteration.
LimitsChanged(t) == terms.limits # loc[t].start.limits

\* Mutant: the iteration is over a copy.
CopyIterated(t) == FALSE

\* "dictionary changed size during iteration"
IterationBroken(t) == Cardinality(Metered(terms)) # loc[t].size

CheckMeter(t) ==
  /\ pc[t] = "meters"
  /\ \/ IterationBroken(t) /\ Fails(t, FALSE)
     \/ /\ ~IterationBroken(t)
        /\ \E m \in loc[t].keys \ loc[t].seen :
             \/ /\ terms.limits[m] # Odd
                /\ loc' = [loc EXCEPT ![t].seen = @ \cup {m}]
                /\ UNCHANGED <<terms, opening, pc, log, died, handled>>
             \/ terms.limits[m] # Odd /\ Answers(t)
             \/ terms.limits[m] = Odd /\ Fails(t, FALSE)
     \/ ~IterationBroken(t) /\ loc[t].seen = loc[t].keys /\ Pass(t, "passed")

\* C4, the judge and the rest follow.
GoesOn(t) == pc[t] = "passed" /\ Answers(t)

-----------------------------------------------------------------------------
(* An amendment *)

RefuseUnsigned(t) ==
  /\ terms # Null
  /\ \E am \in Amendments : ~am.signed
  /\ \E odd \in BOOLEAN : Read(t, "amend", "fine", odd)
  /\ UNCHANGED <<terms, opening, pc, loc, log, died>>

BindAmendment(t) ==
  /\ terms # Null
  /\ \E odd \in BOOLEAN : Read(t, "amend", "fine", odd)
  /\ \E am \in Amendments : am.signed /\ loc' = [loc EXCEPT ![t] = [NoLocal EXCEPT !.am = am]]
  /\ Goto(t, "add_allow")
  /\ UNCHANGED <<terms, opening, log, died>>

Applies(t, changed, there) ==
  /\ terms' = changed /\ Goto(t, there)
  /\ UNCHANGED <<opening, loc, log, died, handled>>

Allows(am) == am.odd \cap {"add_scope", "tools_allow"} = {}

AddAllow(t) ==
  LET am == loc[t].am IN
  /\ pc[t] = "add_allow"
  /\ \/ ~Allows(am) /\ Fails(t, TRUE)
     \/ Allows(am) /\ Applies(t, [terms EXCEPT !.allow = @ \cup am.allow], "add_deny")

\* Mutant: the amendment's list takes the place of the one in force.
DenyReplaced(deny, more) == IF more = {} THEN deny ELSE more

Widened(deny, more) == deny \cup more

AddDeny(t) ==
  LET am == loc[t].am
      raises == "tools_deny" \in am.odd
  IN  /\ pc[t] = "add_deny"
      /\ \/ raises /\ Fails(t, TRUE)
         \/ ~raises /\ Applies(t, [terms EXCEPT !.deny = Widened(@, am.deny)], "add_calls")

\* max_calls += add_calls, in two steps; an absent ceiling stays absent, and of two texts
\* the sum is a text.
LoadCalls(t) ==
  LET am == loc[t].am
      operands == {am.add_calls, terms.max_calls}
      raises == "increase_budget" \in am.odd \/ (None \notin operands /\ Odd \in operands)
      same == None \in operands \/ operands = {Odd}
  IN  /\ pc[t] = "add_calls"
      /\ \/ raises /\ Fails(t, Odd = am.add_calls \/ am.odd # {})
         \/ "increase_budget" \notin am.odd /\ same /\ Pass(t, "set_deadline")
         \/ /\ ~raises /\ ~same
            /\ Goto(t, "store_calls")
            /\ loc' = [loc EXCEPT ![t].load = terms.max_calls]
            /\ UNCHANGED <<terms, opening, log, died, handled>>

StoreCalls(t) ==
  /\ pc[t] = "store_calls"
  /\ Applies(t, [terms EXCEPT !.max_calls = loc[t].load + loc[t].am.add_calls], "set_deadline")

SetDeadline(t) ==
  LET am == loc[t].am
      moved == am.extend_deadline # "keep"
  IN  /\ pc[t] = "set_deadline" /\ Goto(t, "load_limit")
      /\ terms' = IF moved THEN [terms EXCEPT !.deadline = am.extend_deadline] ELSE terms
      /\ loc' = [u \in Threads |->
           IF u = t THEN [loc[u] EXCEPT !.todo = {m \in Meters : am.add_limits[m] # None}]
           ELSE [loc[u] EXCEPT !.moved = @ \/ (moved /\ loc[u].start # Null)]]
      /\ UNCHANGED <<opening, log, died, handled>>

\* limits[m] = limits.get(m, 0.0) + float(amount), meter after meter; an absent ceiling
\* counts as zero.
LoadLimit(t) ==
  LET am == loc[t].am IN
  /\ pc[t] = "load_limit"
  /\ \/ "add_limits" \in am.odd /\ Fails(t, TRUE)
     \/ /\ "add_limits" \notin am.odd
        /\ \E m \in loc[t].todo :
          \/ Odd \in {terms.limits[m], am.add_limits[m]} /\ Fails(t, am.add_limits[m] = Odd)
          \/ /\ Odd \notin {terms.limits[m], am.add_limits[m]}
             /\ Goto(t, "store_limit")
             /\ loc' = [loc EXCEPT ![t].meter = m, ![t].todo = @ \ {m},
                          ![t].load = IF terms.limits[m] = None THEN 0 ELSE terms.limits[m]]
             /\ UNCHANGED <<terms, opening, log, died, handled>>

StoreLimit(t) ==
  LET l == loc[t] IN
  /\ pc[t] = "store_limit"
  /\ Applies(t, [terms EXCEPT !.limits[l.meter] = l.load + l.am.add_limits[l.meter]], "load_limit")

\* S2 goes through the allow list again.
JudgeScope(t) ==
  /\ pc[t] = "load_limit" /\ loc[t].todo = {} /\ "add_limits" \notin loc[t].am.odd
  /\ \/ OddPattern \in terms.allow /\ Fails(t, OddPattern \in loc[t].am.allow)
     \/ \E verdict \in {"served", "clarify"} : Pass(t, verdict)

\* Mutant: only what S2 accepts is logged.
RecordedServed(t) == IF pc[t] = "served" THEN Append(log, loc[t].am) ELSE log

Recorded(t) == Append(log, loc[t].am)

\* Whether S2 accepts it or not, the amendment was applied, and is logged.
RecordAmendment(t) ==
  /\ pc[t] \in {"served", "clarify"}
  /\ log' = Recorded(t) /\ Frees(t)
  /\ UNCHANGED <<terms, opening, died, handled>>

-----------------------------------------------------------------------------
DeadlinePasses ==
  /\ terms # Null /\ terms.deadline = "ahead"
  /\ terms' = [terms EXCEPT !.deadline = "past"]
  /\ UNCHANGED <<opening, pc, loc, log, died, handled>>

Handle(t) ==
  \/ CheckDeny(t) \/ CheckAllow(t) \/ CheckCalls(t) \/ CheckDeadline(t) \/ BeginMeters(t)
  \/ CheckMeter(t) \/ GoesOn(t)
  \/ AddAllow(t) \/ AddDeny(t) \/ LoadCalls(t) \/ StoreCalls(t) \/ SetDeadline(t)
  \/ LoadLimit(t) \/ StoreLimit(t) \/ JudgeScope(t) \/ RecordAmendment(t)

Begin(t) ==
  \/ \E kind \in Kinds : TurnAway(t, kind) \/ DiesReading(t, kind)
  \/ Open(t) \/ BindCall(t) \/ RefuseUnsigned(t) \/ BindAmendment(t)

Next == DeadlinePasses \/ \E t \in Threads : Begin(t) \/ Handle(t)

Spec == Init /\ [][Next]_vars

-----------------------------------------------------------------------------
(* Properties *)

\* What each amendment adds to the ceiling of calls or of a meter, and what it takes off.
Added(x) == IF x \in Nat THEN x ELSE 0
Taken(x) == IF x \in Int \ Nat THEN -x ELSE 0
AddedCalls == [am \in Amendments |-> Added(am.add_calls)]
TakenCalls == [am \in Amendments |-> Taken(am.add_calls)]
AddedTo(m) == [am \in Amendments |-> Added(am.add_limits[m])]
TakenFrom(m) == [am \in Amendments |-> Taken(am.add_limits[m])]

Amenders == {t \in Threads : loc[t].am # Null}
Mourned == {i \in DOMAIN died : died[i].am # Null /\ (died[i].odd \/ died[i].poisoned)}

\* What the amendments that were applied, in whole or in part, add up to: those the log
\* records, those a handler is at, and those whose handler died over an odd value.
Granted(asked) ==
  SumFunction([i \in DOMAIN log |-> asked[log[i]]])
  + SumFunction([t \in Amenders |-> asked[loc[t].am]])
  + SumFunction([i \in Mourned |-> asked[died[i].am]])

\* However amendments and their updates interleave, a ceiling is no higher than what the
\* commitment set and the log and the dead handlers' amendments add to it, and no lower
\* than what their negative amounts leave of it: no amendment counts twice, and none that
\* was applied goes unrecorded while its handler lives (amend).
CeilingsExplained ==
  terms # Null =>
    /\ terms.max_calls \in Int =>
         terms.max_calls \in (opening.max_calls - Granted(TakenCalls))
                            ..(opening.max_calls + Granted(AddedCalls))
    /\ \A m \in Meters : terms.limits[m] \in Int =>
         LET from == IF opening.limits[m] = None THEN 0 ELSE opening.limits[m]
         IN  terms.limits[m] \in (from - Granted(TakenFrom(m)))..(from + Granted(AddedTo(m)))

\* A call that passes C3 was compared with every ceiling in force at that moment, although
\* amendments add meters to the map it goes through (_check_budget).
CheckComplete ==
  [][\A t \in Threads : pc[t] # "passed" /\ pc'[t] = "passed" => Metered(terms') \subseteq loc[t].seen]_vars

\* No handler dies over what is merely missing from a message: one dies of something odd
\* in its own message or left in the terms by an earlier one, or because an amendment
\* adds a meter under its eyes (dispatch, _check_budget, amend).
DiesOnlyOf ==
  \A i \in DOMAIN died : died[i].odd \/ died[i].poisoned \/ died[i].grew

\* The amendments that were applied, in whole or in part.
Applied(am) ==
  \/ \E i \in DOMAIN log : log[i] = am
  \/ \E t \in Threads : loc[t].am = am
  \/ \E i \in DOMAIN died : died[i].am = am

\* A call that the terms refuse when it comes is let through by nothing that changes
\* meanwhile but an amendment: never if its tool was denied; if its tool was not allowed,
\* by one that allows it and that the log, a handler at work or a dead one accounts for;
\* if the deadline was past, by one that sets it (_check_scope, _check_budget, amend).
RefusalStands ==
  [][\A t \in Threads : pc[t] # "passed" /\ pc'[t] = "passed" =>
       /\ ~Matches(loc[t].start.deny, loc[t].tool)
       /\ Matches(loc[t].start.allow, loc[t].tool)
            \/ \E am \in Amendments : Applied(am) /\ Allows(am) /\ Matches(am.allow, loc[t].tool)
       /\ loc[t].start.deadline = "past" => loc[t].moved]_vars

=============================================================================
