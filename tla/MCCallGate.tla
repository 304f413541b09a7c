------------------------------ MODULE MCCallGate ------------------------------
(***************************************************************************)
(* A session over the tools of the default configuration that change       *)
(* something, with the calls that take the gate down different paths.      *)
(***************************************************************************)
EXTENDS CallGate

MCEffect ==
  [refund |-> "writes_money", tickets_update |-> "writes_data", delete_user |-> "deletes"]

MCEstimate == [refund |-> 1, tickets_update |-> 0, delete_user |-> 0]

\* A refund may report more than its estimate.
MCCharges == [refund |-> {1, 3}, tickets_update |-> {0}, delete_user |-> {0}]

\* refund_cap, and a rule with a lower bound for every tool but one.
MCRules ==
  {[tools |-> {"refund"}, arg_max |-> 200, arg_min |-> Null, rationale_matches |-> TRUE],
   [tools |-> {"refund", "tickets_update"}, arg_max |-> Null, arg_min |-> 5,
    rationale_matches |-> FALSE]}

Refund(amount, form, sensitivity, ticket, grounded) ==
  [tool |-> "refund", amount |-> amount, form |-> form, sensitivity |-> sensitivity,
   ticket |-> ticket, grounded |-> grounded]

Plain(tool, sensitivity) ==
  [tool |-> tool, amount |-> 0, form |-> "absent", sensitivity |-> sensitivity,
   ticket |-> FALSE, grounded |-> FALSE]

MCCalls ==
  {Refund(25, "number", "writes_data", TRUE, TRUE),
   Refund(2, "number", "reads", TRUE, TRUE),
   Refund(30, "text", "reads", TRUE, TRUE),
   Refund(300, "number", "writes_money", TRUE, TRUE),
   Plain("tickets_update", "writes_data"),
   Plain("delete_user", "reads")}

=============================================================================
