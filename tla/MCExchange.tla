------------------------------ MODULE MCExchange ------------------------------
(***************************************************************************)
(* A Python client, which retries, and a TypeScript client, which does not.*)
(***************************************************************************)
EXTENDS Exchange

CONSTANTS py, ts

\* Two attempts stand for the three of _post: an attempt that is not the last, and the last.
MCAttempts == [c \in Clients |-> IF c = py THEN 2 ELSE 1]

\* A call and its repetition fit under the one commitment, and not under the other.
MCCeilings == [c \in Clients |-> IF c = py THEN {2} ELSE {1}]

=============================================================================
