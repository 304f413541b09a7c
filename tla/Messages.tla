------------------------------- MODULE Messages -------------------------------
(***************************************************************************)
(* How the proxy reads the messages of src/proxy/models.py.  A field of a  *)
(* message is there, "missing" (absent, null or empty) or "odd" (there,    *)
(* and not of the type the code works with).  Reading goes field by field, *)
(* in the order below, and ends at the first one that makes the message    *)
(* "malformed" (a VapError, answered as denied) or that "raises" some      *)
(* other exception, which ends the handler without an answer.              *)
(***************************************************************************)
EXTENDS Sequences, Integers

Field(name, missing, odd) == [name |-> name, missing |-> missing, odd |-> odd]

PrincipalFields ==
  <<Field("principal", "malformed", "malformed"), Field("agent_id", "malformed", "fine")>>

ScopeFields ==
  <<Field("scope", "malformed", "raises"), Field("tools_allow", "malformed", "raises"),
    Field("tools_deny", "fine", "raises")>>

\* The values in it are taken as they are; C3 meets the odd ones.
BudgetFields == <<Field("budget", "fine", "raises"), Field("limits", "fine", "raises")>>

\* A goal that is no text is met last, when it is hashed.
CommitmentFields ==
  <<Field("commitment", "malformed", "raises"), Field("goal", "malformed", "fine"),
    Field("session_id", "malformed", "fine")>>
  \o ScopeFields \o PrincipalFields \o BudgetFields \o <<Field("goal", "fine", "raises")>>

\* A list or a map for a sensitivity cannot be looked up, and raises.
IntentFields ==
  <<Field("intent", "malformed", "malformed"), Field("rationale", "malformed", "fine"),
    Field("expected_effect", "malformed", "fine"), Field("sensitivity", "fine", "malformed"),
    Field("unhashable_sensitivity", "fine", "raises")>>

CallFields ==
  <<Field("call", "malformed", "malformed"), Field("tool", "malformed", "fine"),
    Field("arguments", "fine", "raises")>>

EnvelopeFields == <<Field("envelope", "malformed", "raises")>> \o IntentFields \o CallFields

\* "sections": add_scope and increase_budget, of which one is enough.  What is odd in them
\* is met when it is applied; nor can every session_id be looked up.
AmendmentFields ==
  <<Field("amendment", "malformed", "raises"), Field("session_id", "malformed", "fine"),
    Field("reason", "malformed", "fine"), Field("sections", "malformed", "fine"),
    Field("unhashable_session_id", "fine", "raises")>>

FieldsOf(kind) ==
  CASE kind = "open" -> CommitmentFields
    [] kind = "call" -> EnvelopeFields
    [] kind = "amend" -> AmendmentFields

\* What may be wrong with a message: nothing, or at most two of its fields.
Faults(kind) == {FieldsOf(kind)[i].name : i \in DOMAIN FieldsOf(kind)} \X {"missing", "odd"}
FaultSets(kind) == {{}} \cup {{f, g} : f, g \in Faults(kind)}

Reaction(field, faults) ==
  IF <<field.name, "missing">> \in faults THEN field.missing
  ELSE IF <<field.name, "odd">> \in faults THEN field.odd ELSE "fine"

\* The first field that does not read decides.
Parsed(kind, faults) ==
  LET reaction(i) == Reaction(FieldsOf(kind)[i], faults)
      first(i) == reaction(i) # "fine" /\ \A j \in 1..(i - 1) : reaction(j) = "fine"
  IN  IF \E i \in DOMAIN FieldsOf(kind) : first(i)
      THEN reaction(CHOOSE i \in DOMAIN FieldsOf(kind) : first(i)) ELSE "fine"

Kinds == {"open", "call", "amend"}

\* How the messages of a kind may come out, and whether there was something odd in them.
Readings ==
  [kind \in Kinds |->
     {[how |-> Parsed(kind, faults), odd |-> \E f \in faults : f[2] = "odd"] :
        faults \in FaultSets(kind)}]

=============================================================================
