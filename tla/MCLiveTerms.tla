----------------------------- MODULE MCLiveTerms -----------------------------
(***************************************************************************)
(* The instance of LiveTerms that TLC checks: a capped meter and one that  *)
(* an amendment adds, and amendments each with its own way to go wrong.    *)
(***************************************************************************)
EXTENDS LiveTerms, TLC

CONSTANTS all, refunds, lookups, oddp, refund, lookup, oddt

MCPatterns == {all, refunds, lookups, oddp}
MCCovers ==
  (all :> {refund, lookup}) @@ (refunds :> {refund}) @@ (lookups :> {lookup}) @@ (oddp :> {})
MCMeters == {"usd", "tokens"}
Limits(usd, tokens) == [m \in MCMeters |-> IF m = "usd" THEN usd ELSE tokens]

Plain == [allow |-> {lookups}, deny |-> {}, max_calls |-> 1, deadline |-> "ahead",
          limits |-> Limits(2, None)]
MCOpenings ==
  {Plain,
   [Plain EXCEPT !.allow = {all}, !.deny = {refunds}, !.deadline = "unparsed", !.max_calls = None],
   [Plain EXCEPT !.limits = Limits(Odd, 1)], [Plain EXCEPT !.max_calls = Odd]}

More == [signed |-> TRUE, allow |-> {}, deny |-> {}, add_calls |-> 1,
         add_limits |-> Limits(1, 1), extend_deadline |-> "keep", odd |-> {}]
MCAmendments ==
  {More, [More EXCEPT !.signed = FALSE],
   [More EXCEPT !.add_limits = Limits(1, Odd), !.deny = {lookups}],
   [More EXCEPT !.allow = {oddp}, !.add_limits = Limits(2, None), !.extend_deadline = "ahead"],
   [More EXCEPT !.allow = {refunds}, !.add_calls = -1, !.add_limits = Limits(-2, None)],
   [More EXCEPT !.add_calls = Odd], [More EXCEPT !.odd = {"tools_deny"}, !.allow = {refunds}],
   [More EXCEPT !.odd = {"add_limits"}, !.extend_deadline = "odd"]}

Handlers == Permutations(Threads)
=============================================================================
