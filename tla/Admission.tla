------------------------------- MODULE Admission -------------------------------
(***************************************************************************)
(* What the verification engine promises whoever issued a commitment, with *)
(* none of its steps: one account per session; a call is admitted in one   *)
(* step if its tool and its whole cost fit the account, and settled at     *)
(* most once, for what the tool reports instead of the estimate; ceilings  *)
(* only rise.  The serial engine implements it (VapEngineProperties), and  *)
(* so do the sessions of the demo's workflows (Disbursement).              *)
(***************************************************************************)
EXTENDS Integers

CONSTANTS
  Sids, Accounts, Tools, Meters,
  Costs,        \* tool -> what a call of it may cost, judge tokens included
  Corrections,  \* tool -> what its report may add to that
  Null, None

VARIABLES
  current,      \* session id -> its account, or Null
  account

vars == <<current, account>>

CallsLeft(a) == a.max_calls = None \/ a.made + 1 <= a.max_calls

Fits(a, cost) == \A m \in Meters : a.limits[m] = None \/ a.spent[m] + cost[m] <= a.limits[m]

Plus(spent, amounts) == [m \in Meters |-> spent[m] + amounts[m]]

Init ==
  /\ current = [sid \in Sids |-> Null]
  /\ \A a \in Accounts : ~account[a].open

\* A fresh account, under an id that may have had another before.
Open(sid, a) ==
  /\ current' = [current EXCEPT ![sid] = a]
  /\ ~account[a].open
  /\ account' = [account EXCEPT ![a] = account'[a]]
  /\ account'[a].open /\ account'[a].made = 0 /\ account'[a].due = {}
  /\ account'[a].spent = [m \in Meters |-> 0]

\* A call within scope and budget is charged, the next one not before its result is due
\* no more.
Admit(sid, tool) ==
  LET a == account[current[sid]]
  IN  /\ current[sid] # Null
      /\ tool \in a.tools /\ a.due = {} /\ CallsLeft(a)
      /\ \E cost \in Costs[tool] :
           /\ Fits(a, cost)
           /\ account' = [account EXCEPT ![current[sid]] =
                [a EXCEPT !.made = a.made + 1, !.spent = Plus(a.spent, cost), !.due = {tool}]]
      /\ UNCHANGED current

\* The result is in: the charge stands, or is corrected to what the tool reports.
Settle(sid, tool) ==
  LET a == account[current[sid]]
  IN  /\ current[sid] # Null
      /\ tool \in a.due
      /\ \E amounts \in Corrections[tool] \cup {[m \in Meters |-> 0]} :
           account' = [account EXCEPT ![current[sid]] =
             [a EXCEPT !.spent = Plus(a.spent, amounts), !.due = {}]]
      /\ UNCHANGED current

\* An amendment raises ceilings, or sets one where there was none; what was charged stays.
Amend(sid) ==
  LET a == account[current[sid]]
      b == account'[current[sid]]
  IN  /\ current[sid] # Null
      /\ account' = [account EXCEPT ![current[sid]] = b]
      /\ b = [a EXCEPT !.tools = b.tools, !.max_calls = b.max_calls, !.limits = b.limits]
      /\ IF a.max_calls = None THEN b.max_calls = None ELSE b.max_calls >= a.max_calls
      /\ \A m \in Meters : a.limits[m] # None => b.limits[m] >= a.limits[m]
      /\ UNCHANGED current

Next ==
  \E sid \in Sids :
    \/ Amend(sid)
    \/ \E tool \in Tools : Admit(sid, tool) \/ Settle(sid, tool)
    \/ \E a \in Accounts : Open(sid, a)

Spec == Init /\ [][Next]_vars

=============================================================================
