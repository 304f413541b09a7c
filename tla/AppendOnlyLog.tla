---------------------------- MODULE AppendOnlyLog ----------------------------
(***************************************************************************)
(* What AuditLog promises the engine: while the process lives, a log that  *)
(* records are only added to, one at a time, each caller being answered    *)
(* with the position of its own record.                                    *)
(***************************************************************************)
EXTENDS Naturals, Sequences

CONSTANTS Callers, Entries

VARIABLES
  log,      \* the entries recorded since the process started
  answer    \* caller -> position of the record it made last; 0 before any

Init == log = <<>> /\ answer = [c \in Callers |-> 0]

Put(c, e) ==
  /\ log' = Append(log, e)
  /\ answer' = [answer EXCEPT ![c] = Len(log')]

\* The process dies and another starts.
Restart == log' = <<>> /\ answer' = [c \in Callers |-> 0]

Next == Restart \/ \E c \in Callers, e \in Entries : Put(c, e)

Spec == Init /\ [][Next]_<<log, answer>>

=============================================================================
