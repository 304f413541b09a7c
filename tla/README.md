# VAP gateway: specification and verification

VAP ("verified agent proxy") puts a proxy between an agent and an MCP server. The agent opens
a session with a *scope commitment* (goal, allowed tools, budget), sends every tool call with
an *intent*, and may widen the commitment by a signed *amendment*. The proxy verifies each
message, answers it with a verdict (`served`, `clarify` or `denied`), records the decision in
a hash-chained audit log, and forwards the served calls.

This directory models that proxy, its clients and its log in TLA+. TLC checks the models on
small instances; TLAPS proves nearly all of what they show of safety for every value of the
constants.

## 1. The system

Paths are relative to `src/`.

| Component | State it keeps | Operations |
|---|---|---|
| Verification engine, `proxy/verification.py` | `sessions`: id -> `Session` (commitment, digest, `calls_made`, `consumed`, `used_tools`, `seen_calls`, `judge_cache`, `pending_costs`) | `open_session` (S1, S2), `verify_call` (C1 to C5 and the accounting), `reconcile_cost`, `record_result`, `amend` |
| Dispatch and HTTP server, `proxy/server.py` | `_session_counter`; one handler per request | `dispatch` for `initialize`, `tools/call`, `vap/amend` and the rest; `_forward`; FastAPI or threaded stdlib server |
| Audit log, `proxy/audit.py` | `_records`, `_prev_hash`, `_lock`, the JSONL file | `record`, `all`, `verify_chain` |
| Risk scorer, `proxy/risk_scorer.py` | a seeded generator | `call_key`, `score` |
| Judge, `proxy/semantic_judge.py` | none | `evaluate` of the mock and of the LLM judge |
| Operator policy, `PolicyRule` in the engine and `proxy/vap-gateway.yaml` | none | `check` |
| Upstream, `mcp-server/server.py` | none (canned data) | `handle_rpc` |
| Clients, `clients/python`, `clients/typescript` | session id, commitment digest | `open_session`, `call`, `amend`; `_post` with 3 attempts in Python, one in TypeScript |
| Messages, `proxy/models.py` | none | reading commitments, envelopes and amendments |
| Demo agent, `agent/` | the step of a workflow | `main`, `run_workflow`, four workflows |
| Configuration, `proxy/config.py` | none | read once at start |

How they interact. A client posts JSON-RPC to the proxy. `dispatch` calls the engine
synchronously; the engine calls scorer, policy and judge, appends to the audit log, and
answers with a verdict that refers to its record. If a call is served `dispatch` forwards it
upstream, then calls `reconcile_cost` with the cost the result reports and `record_result`.

Two deployments differ in one respect that matters. Under FastAPI (`server.py:174-181`) an
`async` handler calls the synchronous `dispatch`, so requests are handled one at a time. The
stdlib server (`server.py:186-230`) is a `ThreadingHTTPServer`: handlers run at once and share
the `Session` objects with no lock (`_lock`, `verification.py:245`, is taken in
`open_session` alone).

What is hard in it, and what makes each part correct:

* **Engine.** Check-then-act on counters over a judge call of up to 20 s and over upstream;
  costs billed in two parts, before and after the call; sessions replaced while calls are in
  flight; amendments applied before they are judged, in steps, to a commitment that other
  handlers are reading; handlers that an exception ends half way. Correct: counters stay under
  their ceilings, agree with the log, every served call is bound to an accepted commitment, and
  what is refused is not let through by a change that has nothing to do with it.
* **Audit log.** A lock-free reader over a list others append to, writes that fail half-way
  unnoticed, restarts. Correct: the chain is intact, the walk raises no false alarm, `record` is
  atomic to its callers, and a failed write costs the file no more than it must.
* **Gate (policy, score, judge).** Decisions that depend on the history of the session and on
  cached answers. Correct: repetition leads to the judge, failure of the judge is safe, one
  commitment has one answer per call, only served calls count.
* **Client, proxy and upstream.** Retries, late answers, timeouts on two hops, restarts.
  Correct: what was executed was billed and admitted; what the client is told is true.
* **Agent, down to the money.** A workflow is a list of steps, each of which may run more than
  once; its limit is on what tools report afterwards. Correct: meters agree with what ran, the
  money is bounded, and the workflow shows what it is there to show.

`PROJECT.json` lists the hazards at their lines, with the properties aimed at each.

## 2. Modules

| Module | Models | State and actions against the code |
|---|---|---|
| `VapEngine` | engine and dispatch, every request handler a thread | `sessions`, `heap` (the `Session` objects), `audit`; `pc` and `loc` are a handler's place and locals. An action is a stretch of the code with at most one access to state that other handlers reach, but for the comparisons of C3, which are one action (`CheckBudget`); `LiveTerms` has them apart |
| `VapEngineProperties` | what the engine promises, and what documents say of it | |
| `MCVapEngine` | the constants of its runs | |
| `VapEngineProofs`, `VapEngineBudgetProofs` | theorems about the engine: types, calls, cache, digests and threads; budgets, `Admission` and the ledger | |
| `Admission` | the abstract gatekeeper: a call is admitted, whole, within scope and budget, and settled at most once | implemented by the serial `VapEngine` (`AdmissionImplemented`) and by the sessions of `Disbursement` (`SessionAdmits`) |
| `Messages` | how `models.py` reads a message, field by field: it goes through, is malformed, or raises | operators only; used by `LiveTerms` |
| `LiveTerms` | the commitment of one session while calls read it (C2, C3) and amendments change it, and messages with fields missing or odd | `terms` is the commitment; each action is one read or one write of it; a handler may die where it is |
| `MCLiveTerms`, `LiveTermsProofs` | constants; theorems | |
| `AuditLog` | `record` (`Seal`, `Publish`, `WriteLine`), `verify_chain` (`StartVerify`, `VerifyNext`, `VerifyEnds`), `Restart` | a hash is the sequence of what it covers; the file is a sequence of pieces, each a line or the beginning of one |
| `AppendOnlyLog` | the abstract log: an atomic `Put` that answers with the place of the entry | implemented by `AuditLog` |
| `AuditLogProofs` | theorems about the log | |
| `CallGate` | budget, C4, score, trigger, judge and cache of one session, one action per way out of `verify_call` | `made`, `spent`, `used`, `seen`, `cache` are the session's fields, `log` its call records |
| `MCCallGate`, `CallGateProofs` | constants; theorems | |
| `Exchange` | clients with `_post`, `dispatch`, upstream; an attempt is a *flight* | `client`, `sessions`, `counter`, `objects`; lost answers, late upstream and restarts are actions |
| `MCExchange`, `ExchangeProofs` | constants; theorems | |
| `Disbursement` | the whole chain at work: the workflows of the demo agent, client, proxy and upstream, with the costs the tools report | `agent` is the step and attempt, `flights` the attempts made, `session` the counters and limits of the session the agent has |
| `DisbursementProofs` | theorems about it | |
| `SumProofs` | lemmas on the sums over finite sets by which the properties account for costs | |

The components are modelled at the grain at which their hazards are. `VapEngine` has every
access to the counters and leaves the decisions of policy, score and judge open (each possible
outcome is a step); `LiveTerms` has every access to the commitment and leaves the counters
open; `CallGate` opens the decisions and closes the interleaving; `Exchange` reduces the
verification to the call meter and opens the network; `Disbursement` fixes the calls and puts
engine, network and upstream together. `AuditLog` justifies that the other modules append to
the log atomically.

Abstractions, by module:

* `VapEngine`: a tool call has one argument shape; digests are what they hash; a deadline is
  ahead, past or none and passes by the action `DeadlinePasses`; meters are integers.
  History fields (`capped`, `agreed`, `obj`, the digest in a cache entry) are read by
  properties only. `used_tools` and `seen_calls` are left to `CallGate`. Messages are well
  formed; the others are in `LiveTerms`. Ceilings, estimates, reports and amendments are in
  natural numbers, here and in `Admission`, `Exchange` and `Disbursement`: the code checks no
  sign, and what `CallCeiling`, `BoundedOvershoot` and `AdmissionImplemented` say does not hold
  of negative ones. An `initialize` whose handshake with upstream fails (`server.py:90`) ends
  before the engine is reached and is left out here; `Exchange` has it (`OpenFails`). The call
  that is verified (`_meta.vap.intent.call`) and the one that is forwarded (the request's own
  `params`) are one: `server.py:119-130` never compares them, and the clients send both from
  the same arguments. That holds of `CallGate`, `Exchange` and `Disbursement` too.
* `LiveTerms`: a comparison with a ceiling may go either way. A field of a message is in order,
  missing, or odd (not of the type the code works with); at most two fields of one message are
  wrong. An odd value is met where the code first works with it; a null amount in an amendment is
  one. Of a list of patterns only the set is kept; if one pattern matches and another raises,
  either may come first. A text in place of a list of patterns is the list of its letters to the
  code, a case of a list. Amounts in amendments are integers of either sign, which stand for
  numbers; infinities and NaN, which compare with nothing, are left out.
* `CallGate`: scores in units of 1/10000 with the burn rate rounded down (the code computes in
  floating point); the seeded sample is a free choice; arguments are an amount, which is a
  number, a text or absent, and two facts about the texts. The LLM judge replies anything;
  `Parsed` is what the code makes of a reply. The meter of tokens is left out: whether the tokens
  of an answer still fit is a free choice (`RefuseByTokens`). The ceilings of cost and calls are
  positive, as the burn rate divides by them; the code leaves the signal out where they are not.
  With the default weights novelty never is the top signal of a score that fires.
* `Exchange`: a request of a flight is decided in one step, as in the serial deployment.
* `Disbursement`: operating costs are in cents, amounts are those of the demo; the mock judge finds
  the workflows' calls consistent, as it does in the repository's own test. A session that was
  made for an attempt at opening nobody waits for is not kept as state: it stays as it was opened,
  and `Account` says so.
* `AuditLog`: the timestamp that makes bodies differ is their place in the chain. A write is of
  one record under the lock; one that fails, at any point up to the closing of the file, or that
  the end of the process cuts short leaves nothing or the beginning of the line, whose length is
  abstracted, and the next line is glued to that. A line that is all there before the error counts
  as written.

## 3. Runs

Bounds are constants and named: `MaxRequests` (engine), `MaxRecords` and `MaxLines` (log),
`MaxDecisions` (gate), `MaxOps`, `MaxFlights` and `MaxRestarts` (exchange), `MaxFaults`
(disbursement). A bounded system
stops when its bound is used up, hence `CHECK_DEADLOCK FALSE` everywhere but in the `audit`
run, where a restart is always possible.

| Run | Question | Bounds, and why they are enough |
|---|---|---|
| `serial` | ceilings, counters against the log, digests, cache, refinement of `Admission`, one request at a time | 4 requests: an opening, then re-opening, amendments and calls in every order, with a ceiling of 2 calls and of 3 on a meter that a refund takes from 0 to 2 to 4; two handlers whose local variables survive; a commitment of each kind and an amendment of each outcome |
| `threaded` | what survives without locks, and whether every request is answered | 2 threads, 3 requests: an opening and two operations (re-openings among them) interleaved at every shared access; the judge always uses tokens; no symmetry, because of the liveness property |
| `audit` | chain, walk, file, what a failed write costs, refinement of `AppendOnlyLog` | 2 threads, 2 entries, 3 records, one piece, a line or a fragment, that a failed truncation keeps: two threads in `record` while the walk is between two records, a fragment between two records, then a new process |
| `gate` | repetition, failures, cache and counts, under the LLM judge, whose answers lead to every verdict the mock's do, with random samples | 4 decisions over 6 calls that take the different ways through C3, C4 and C5: the third call with the same arguments, at which looping peaks, is reached with another between, and three refunds at their highest charge use up the cost ceiling |
| `exchange` | retries, timeouts, restart, and whether every operation ends | a Python client of 2 attempts, which stand for the 3 of `_post` (one that is not the last, and the last), beside a TypeScript client of one, 2 operations each; commitments of 2 and of 1 call, so that a retry meets the ceiling or does not; one restart, after which both may hold one id; 4 flights, with room kept for the retries of what is under way, so that the bound never keeps a retry away |
| `terms` | commitment read and changed at once, odd messages | 2 threads, 4 requests: an opening and three more; a meter that is capped and one that an amendment adds; an amendment for each way it can go wrong and one with negative amounts, and openings with an odd value, a date that does not parse, no call ceiling |
| `disbursement` | meters, money, refusals and verdicts of the demo workflows, refinement of `Admission`, and whether they end | the 3 attempts of `_post`, 4 faults: a request whose attempts all fail, and one more elsewhere |

Every property of these runs has a mutant in `PROJECT.json`: a definition of the module changed
as a bug would change it, under which the run finds the property violated.

The other runs check one sentence each of the repository's documents that the code does not
keep; TLC finds the behaviour:

| Run | The code | The sentence |
|---|---|---|
| `threaded_ceiling` | two threads pass C3 on the same counter and both are served | C3 denies when any meter would be exceeded |
| `doc_original_stands` | an amendment is applied before S2 judges it and stays applied when refused | the original commitment stands |
| `doc_judge_tokens` | tokens spent on a call that is then refused are not billed | judge tokens are billed |
| `doc_chained_amendments` | `prev_commitment_digest` is not compared, so a retried amendment applies twice | amendments form a chain |
| `doc_cumulative_limit` | C3 projects with an estimate that is 0 for `disbursed_usd`: at 240 of 250 a refund of 120 is served | a limit is the maximum cumulative value |

Other places where code and documents part, seen while modelling. The modules do what the code
does, and no run is spent on them:

* a second `initialize` under the same id starts a fresh budget (`verification.py:278`); the
  draft, 264-265, has amendments alone widen a budget;
* the cache key has no part of the rationale (`verification.py:403`), so a grounded refund's
  answer serves an ungrounded one; `README.md:343` has it caught;
* session ids start over with the process (`server.py:46`), so a client from before a restart
  and a new one share a session; the draft, 201: ids are unique;
* a judge's reply whose `consistent` is the text `"false"` is taken for true
  (`semantic_judge.py:221`);
* `add_limits` on a meter without a ceiling sets one (`verification.py:590`), which narrows the
  budget, and negative amounts lower a ceiling (`verification.py:585`, `590`), as nothing checks
  them; the amendment schema, line 20, says amendments only widen, and lines 33 and 39 require
  positive amounts. `CeilingsExplained` accounts for both. An amendment with an empty
  `add_scope` passes the schema and is refused, and `new_plan_digest` is not used;
* an amendment widens `tools_allow` before `tools_deny` (`verification.py:572-577`): a call
  checked between the two is served although both lists name its tool. Two amendments at once
  may lose one of their increases (`verification.py:585-592`);
* an odd value in a commitment is taken as it is and raises in every later check, and a handler
  that raises leaves the client without an answer (`server.py:215`). `DiesOnlyOf` says when;
* a malformed amendment is denied without a record (`verification.py:537`), and `record` passes
  over a failed write (`audit.py:65-66`), which may leave the beginning of a line that the next
  record is appended to, so that neither can be read; `audit.py:3-4` says every decision is a
  line. `LossExplained` says what is lost;
* a new process truncates the file (`audit.py:28`, on purpose); `README.md:87`: append-only;
* looping adds 0.3 at most, below the default threshold for a read (`risk_scorer.py:105`);
  `README.md:346` says repetition trips the scorer. `LoopsJudged` says for which tools it does;
* `arg_max` is compared with numbers only (`verification.py:122`); `vap-gateway.yaml:66-67` says
  a rule denies unless all its conditions hold;
* a call that its judge's tokens take over budget is denied, and the answer is cached all the
  same (`verification.py:408-421`): the call, made again, is judged by that answer and its tokens
  are billed to nobody;
* a cached answer is `semantic_invoked` (`verification.py:393`); the verdict schema, line 57,
  says the field tells a fresh judgement from a cached one;
* money that upstream moves after the proxy stopped waiting is billed at its estimate, which is
  nothing (`server.py:63`): `MoneyBounded` is about the rest;
* a client may be told `denied` of a call that ran: by the second attempt of an admitted one, or
  by an upstream error (`vap_client.py:153`).

## 4. Fairness

Safety needs none. `Answered` (run `threaded`) assumes weak fairness of each handler's steps: a
thread is scheduled by the operating system, and the two things it waits for end, the LLM
judge by its timeout of 20 s and upstream by that of `_forward` (`server.py:63`). Nothing is
assumed of requests arriving. `OperationEnds` (run `exchange`) assumes weak fairness of the
Python client going on, and of nothing else: an attempt ends by its answer or by the 20 s of
`_post`. The TypeScript client's `fetch` has no timeout, so nothing is promised of it, and it
takes part with no fairness. `WorkflowEnds` (run `disbursement`) assumes weak fairness of the
agent, of the proxy working on the request that is waited for, and of the calls under way; faults
need not happen, and an attempt that nobody waits for need never arrive.

## 5. Proofs

Proved by TLAPS for every value of the constants that satisfies the named assumptions of the
module (`SerialAssumption`, `BoundAssumption`, `ToolAssumption`, `MessageAssumption` and
`NullAssumption` of `VapEngine`, `AuditAssumption`, `GateAssumption`, `TermsAssumption`,
`ExchangeAssumption`, `DisbursementAssumption`). TLC evaluates these assumptions in every run. The
theorems about the serial deployment assume `Serial`; `ChargesAreEarned` assumes that the threads
are finitely many.

Engine:

* `BoundCorrect`, `TypeCorrect`, in both deployments. `TypeOK` alone is not inductive: a handler
  indexes `heap` by its `loc.obj`, which has to be an object. `TypeInv` adds `Bound`, which says
  so at the program points where it is used.
* `CallCeilingHolds`: the argument is the window between the check (`CheckBudget`) and the
  charge (`StoreCalls`). `SerialInv` says that one handler at most is busy and that its session
  is the one the table has (`Alone`, `Current`); `CeilingInv` then carries `RoomKept`: from the
  check to the charge there is a call left, and the value loaded is the current one. Under
  threads `Alone` fails, and `threaded_ceiling` shows the theorem with it.
* `CachesAreFresh`: from the question to the judge until its answer is cached the digest is
  the one asked under (`Asked`).
* `ServedUnderAnnounced`: `Registered` says that a session is in the table under one id, and that
  its digest is announced by a record under that id, or about to be.
* `OvershootBounded`: `BudgetInv` carries, along the steps of a call, what the handler has
  checked and still holds of the session (`Known`): scope, a call left, and room for the
  charge on every meter, or on those not billed yet. The report is billed without a check, on a
  meter that is within its ceiling.
* `AdmissionIsImplemented`: the accounts of `Admission` are the sessions, with what a handler has
  still to bill counted as spent, and with a call due from its charge to its result. `Readable`
  says what an account is while one handler is busy. `StoreCalls` implements `Admit`, and
  `Known` is its guard; the end of `forward` or `reconcile` implements `Settle`, the two
  parts of an amendment are an `Amend` each, `OpenSession` is `Open`, and all else stutters.
* `LedgerIsExact`: between requests there is nothing to relate while a request is handled, so
  `LedgerInv` says at every step what the counters and the log do not agree on yet: the call that
  is counted before its record is logged, the part of its cost still to be billed (`Pending`),
  and the correction that is billed before the result is logged (`Unlogged`). `Named` says that
  the records have the session they are about. When no handler is at a session nothing is left
  of these, and `LedgerExact` is what remains. It rests on `BudgetInv` for the handler's share,
  and on one result a call.
* `ResultsNameTheirCalls`, in both deployments: a handler past `RecordServed` holds the place
  of its own served record, and no other handler the same (`Awaited`).
* `ChargesAreEarned`: `Earned` bounds each value loaded and not yet stored by the score of its
  session (`Score`: calls served, and calls charged that are not yet logged). A store of an
  old value can only lower the count.

Commitment under change (`LiveTerms`): `ChecksComplete`, `RefusalsStand`, `DeathsExplained`,
`CeilingsAreExplained`.
An amendment never takes a meter away, so a check that has compared as many meters as there are has
compared all of them; it never takes a denied pattern away, so a tool that was refused for one
is refused still. What a check found is related to the terms now by these monotonicities, and
a deadline set in between is noted. A pattern that allows a tool may be added: `AllowInv` says that
every pattern added since a call was bound is of an amendment that adds to `tools_allow` and that
the log, a handler or a dead one has. So `RefusalsStand` covers each list of the scope, and the
deadline: a denied tool stays refused, one that was not allowed passes only by an amendment that
allows it. No field of a message makes its reader raise by being
absent (`OddRaises`), and every other exception is met over an odd value or a grown iteration.
For the ceilings, `CeilInv` bounds the ceiling and each value that a handler has read and not yet
stored from above by the positive and from below by the negative amounts of the amendments that have
added to it: those in the log, those of the handlers past it (`PastCalls`, `PastMeter`) and those of
the dead that count. A handler joins them in the step in which it stores, so what it adds to an old
value is covered once, however many updates are lost; and it leaves them for the log or for the dead
with its amount.

Gate. `LoopsAreJudged`: for every threshold, cost table, judge and sampling, a call whose tier
reaches the threshold together with *n* repeats is served at most *n* times unjudged with the same
arguments; `Counted` makes it inductive (`seen` is at least the number of unjudged serves in the
log). `OneAnswer` and `FailuresAreSafe` share `Kept`: each record for which the judge was asked or
its answer found agrees with the cache. `CountsAreServed` and `BlameIsTrue` rest on `Exact`, by
which every counter is that of the served records, and on a lemma that the top signal is the
largest.

Audit log: `ChainIsIntact`, `NoAlarmIsFalse`, `LogIsImplemented`. The inductive invariant
`IInv` is the conjunction of `TypeOK`; `Holder` (who is inside `record` holds the lock);
`Chain` (each record is chained to the one before); `Tip` (`_prev_hash` is the last hash, of
a sealed record too that is not published yet); `Written` (what a caller is at, or was
answered, is a record); `Walk` (the reader's hash is that of the record it has come to). The
refinement maps the list to its entries and an answer to the length of the hash it refers to;
`Publish` is the step that implements `Put`, every other one but `Restart` stutters.
`FileIsFaithful`: the pieces in the file are of published records in increasing places
(`FileInv`), whole or not. `LossIsBounded`: `Ending` says that the file ends with a newline if the
last write that is over did not fail, or where the process found it; so a line that is written
then is not glued to anything, and it is `Kept` by what is appended later.

Exchange: `CeilingHolds`, `AttemptsBoundExecutions`, `ServedWasExecuted`. `Billed` counts the
flights admitted under a session object and equates them with its counter, whichever clients
sent them (after a restart two may share an object); `Attempted` bounds the flights of one
operation by the attempts made; `Truthful` relates what a client was told to the flight that told it.

Disbursement, for any number of attempts and faults (the workflows and their amounts are
fixed):

* `MetersAreTrue`, `MoneyIsBounded`, `RefusedNeverRun`. `Flown` says of every attempt at a call
  that what reaches upstream passed scope and policy, and that one request is being forwarded at
  most; `Bounded` that the money on the meter is over its limit by the refund cap at most, and
  not at all while a call is forwarded, which passed the comparison with the limit, and only
  reports when it returns. The refunds that reported are a part of the sum on the meter
  (`MetersTrue`), and the one that has not is within the cap.
* `WorkflowsShow`. The invariant `OnCourse` is about the behaviours in which nothing has failed
  yet: each step has one attempt, those before the present one are answered, and the disbursed
  meter and its limit are at the place in the workflow's tables (`SpentAfter`, `LimitAfter`)
  that the answered steps lead to. The lemma `Script` says that a verdict announced by the
  comments is what scope, policy and these tables make of the call. The other meters need a bound
  only: one cent and 200 tokens a step keep them far from their limits.
* `SessionsAdmit`. Every attempt at opening that is answered makes a session, an account of
  `Admission`; the agent has that of the last attempt, the others stay unused. For this to be a
  refinement the accounts have to suffice, and a late answer to an opening must not change the
  session in use: `Tracked` says that the attempts at opening are the faults and one at most, and
  that the session, if there is one, is as it was opened while the agent is at its first step, so
  that the account left unused when one more attempt is sent does not change by it. `Forward`
  implements `Admit`; `Return` is `Settle` with the report, `Drop` is `Settle` with nothing, since
  a call whose answer the proxy gave up on stays charged at its estimate; `Open` and `Amend` are
  themselves; the agent, refusals and upstream stutter. That one request is handled at a time is
  used for `Admit`, which asks that nothing be due.

Sums. `LedgerExact`, `CeilingsExplained`, `MetersTrue` and `MoneyBounded` add up over the log, the
handlers or the attempts with `SumFunction` of the community modules, a recursion over finite sets.
`SumProofs` proves that this recursion has one solution, by the least number or the smallest subset
for which it would not (the library's induction theorems take a predicate, which the provers cannot
instantiate), and what the theorems need of it: what one more summand, or one that changes, does to
a sum, that a sum depends on its summands only, and that a part of a sum of natural numbers is not
larger.

Model-checked only: liveness (`Answered`, `OperationEnds`, `WorkflowEnds`), which is out of the
prover's reach. Every other property of the passing runs has a theorem.

## 6. Not modelled

* The reading of `vap-gateway.yaml` and the environment (`config.py`): read once at start, the
  values are constants of the modules. Prompts and HTTP of the judge, and signing: no state
  depends on how they are done, and their outcomes are inputs.
* `tools/list`, `ping` and unknown methods (forwarded, no state); `initialize` without a
  commitment (no session).
* A TypeScript client with several operations at once: its `Promise`s share the digest that an
  amendment replaces.
* `Exchange` over threaded handlers. The races of the engine are in `VapEngine` and
  `LiveTerms`, those of the network in `Exchange`, where a request is decided in one step.
* The "threshold proximity" signal of the repository's README: the scorer has none.

## 7. Plan

Done: every component that decides or keeps state, its abstract specifications (`Admission`,
`AppendOnlyLog`), and the theorems of section 5. Left:

1. Several operations of one TypeScript client at once in `Exchange`.
2. `Exchange` over threaded handlers, with the check and the charge apart.
