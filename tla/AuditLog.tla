------------------------------- MODULE AuditLog -------------------------------
(***************************************************************************)
(* The audit log of the proxy (src/proxy/audit.py): request threads record *)
(* decisions under a lock, GET /audit walks the chain without it, lines go *)
(* to a file whose errors are swallowed, and a new process starts anew.    *)
(*                                                                         *)
(* A write that fails, or that the death of the process cuts short, may    *)
(* leave the beginning of its line: the next line is then glued to it, and *)
(* a reader of the file can make out neither.                              *)
(*                                                                         *)
(* A hash stands for what is hashed: record_hash is the sequence of the    *)
(* entries chained so far.  The HMAC of a body is its entry; a body's      *)
(* timestamp makes equal entries differ, which the position in the         *)
(* sequence does here.                                                     *)
(***************************************************************************)
EXTENDS Naturals, Sequences

CONSTANTS
  Callers,     \* request threads
  Entries,     \* what is recorded: the fields of a body other than prev_hash
  MaxRecords,  \* bound on the records of one process
  MaxLines,    \* bound on the pieces of lines a failed truncation keeps
  Null

ASSUME AuditAssumption ==
  /\ Null \notin Callers
  /\ MaxRecords \in Nat /\ MaxLines \in Nat

Hash == Seq(Entries)
Line == [entry : Entries, prev_hash : Hash, record_hash : Hash]

\* What one write puts in the file: a line with its newline, or the beginning of one.
Piece == [line : Line, whole : BOOLEAN]

VARIABLES
  lock,       \* the caller that holds _lock
  pc, work,   \* per caller: next step of record(), the record it is making
  ref,        \* per caller: the audit_ref it was answered last
  records, prev_hash,
  file,       \* the pieces the JSONL file consists of
  stale,      \* history: how many of them are of an earlier process
  failed,     \* history: the positions in the chain whose line was not written whole
  verifying, at, prev, intact   \* verify_chain: under way, where, last hash, result

caller == <<lock, pc, work, ref>>
reader == <<verifying, at, prev, intact>>
disk == <<file, stale, failed>>
vars == <<caller, records, prev_hash, disk, reader>>

Genesis == <<>>    \* "0" * 64

Idle == [c \in Callers |-> "idle"]
NoWork == [c \in Callers |-> Null]
NoRef == [c \in Callers |-> Genesis]

Init ==
  /\ lock = Null /\ pc = Idle /\ work = NoWork /\ ref = NoRef
  /\ records = <<>> /\ prev_hash = Genesis
  /\ file = <<>> /\ stale = 0 /\ failed = {}
  /\ verifying = FALSE /\ at = 0 /\ prev = Genesis /\ intact = TRUE

-----------------------------------------------------------------------------
(* record *)

Sealed(e) ==
  [entry |-> e, prev_hash |-> prev_hash, record_hash |-> Append(prev_hash, e)]

\* Mutant: nobody waits for the lock.
LockIgnored == TRUE

LockFree == lock = Null

\* With the lock, the record is chained to the last one.
Seal(c, e) ==
  /\ pc[c] = "idle" /\ Len(records) < MaxRecords
  /\ LockFree
  /\ lock' = c
  /\ work' = [work EXCEPT ![c] = Sealed(e)]
  /\ pc' = [pc EXCEPT ![c] = "publish"]
  /\ prev_hash' = Append(prev_hash, e)
  /\ UNCHANGED <<ref, records, disk, reader>>

Publish(c) ==
  /\ pc[c] = "publish"
  /\ records' = Append(records, work[c])
  /\ pc' = [pc EXCEPT ![c] = "write"]
  /\ UNCHANGED <<lock, work, ref, prev_hash, disk, reader>>

\* Mutant: the line is written again after a write that went well.
OutputTwice(c) == <<[line |-> work[c], whole |-> TRUE], [line |-> work[c], whole |-> TRUE]>>

\* Mutant: the newline is written before the next line instead.
OutputOpen(c) == <<[line |-> work[c], whole |-> FALSE]>>

Output(c) == <<[line |-> work[c], whole |-> TRUE]>>

\* What a write may leave that does not come to its end.
Remains(c) == {<<>>, <<[line |-> work[c], whole |-> FALSE]>>}

\* Mutant: the reference is taken from the hash the record is chained to.
PrevReference(c) == work[c].prev_hash

Reference(c) == work[c].record_hash

\* The line is written, or the error is passed over and whatever got through stays;
\* either way the caller gets its reference and the lock is released.
WriteLine(c) ==
  /\ pc[c] = "write"
  /\ \/ file' = file \o Output(c) /\ failed' = failed
     \/ /\ \E rest \in Remains(c) : file' = file \o rest
        /\ failed' = failed \cup {Len(work[c].record_hash)}
  /\ ref' = [ref EXCEPT ![c] = Reference(c)]
  /\ lock' = Null
  /\ pc' = [pc EXCEPT ![c] = "idle"]
  /\ UNCHANGED <<work, records, prev_hash, stale, reader>>

-----------------------------------------------------------------------------
(* verify_chain *)

StartVerify ==
  /\ ~verifying
  /\ verifying' = TRUE /\ at' = 0 /\ prev' = Genesis
  /\ UNCHANGED <<caller, records, prev_hash, disk, intact>>

\* Mutant: every record is checked against the start of the chain.
CarryNothing(r) == Genesis

Carry(r) == r.record_hash

\* The loop iterates over the live list: it sees what is appended meanwhile.
VerifyNext ==
  /\ verifying /\ at < Len(records)
  /\ LET r == records[at + 1]
     IN  IF r.record_hash = Append(prev, r.entry)
         THEN at' = at + 1 /\ prev' = Carry(r) /\ UNCHANGED <<verifying, intact>>
         ELSE verifying' = FALSE /\ intact' = FALSE /\ UNCHANGED <<at, prev>>
  /\ UNCHANGED <<caller, records, prev_hash, disk>>

VerifyEnds ==
  /\ verifying /\ at = Len(records)
  /\ verifying' = FALSE /\ intact' = TRUE
  /\ UNCHANGED <<caller, records, prev_hash, disk, at, prev>>

-----------------------------------------------------------------------------
\* What the file may end with when the process dies: one thread may be writing.
Left ==
  {file} \cup {file \o rest : rest \in UNION {Remains(c) \cup {Output(c)} :
                                            c \in {d \in Callers : pc[d] = "write"}}}

\* The process dies, wherever its threads are.  The next one truncates the file,
\* unless that fails.
Restart ==
  /\ lock' = Null /\ pc' = Idle /\ work' = NoWork /\ ref' = NoRef
  /\ records' = <<>> /\ prev_hash' = Genesis
  /\ verifying' = FALSE /\ at' = 0 /\ prev' = Genesis /\ intact' = TRUE
  /\ \/ file' = <<>> /\ stale' = 0
     \/ file' \in Left /\ Len(file') <= MaxLines /\ stale' = Len(file')
  /\ failed' = {}

Record(c) == (\E e \in Entries : Seal(c, e)) \/ Publish(c) \/ WriteLine(c)
Verify == StartVerify \/ VerifyNext \/ VerifyEnds

Next == Verify \/ Restart \/ \E c \in Callers : Record(c)

Spec == Init /\ [][Next]_vars

-----------------------------------------------------------------------------
(* Properties *)

\* Every record is chained to the one before it, whoever made them (record).
ChainIntact ==
  \A i \in DOMAIN records :
    LET before == IF i = 1 THEN Genesis ELSE records[i - 1].record_hash
    IN  /\ records[i].prev_hash = before
        /\ records[i].record_hash = Append(before, records[i].entry)

\* verify_chain raises no false alarm: it finds the chain intact although it takes no
\* lock and threads append while it walks.
NoFalseAlarm == intact

\* What this process has put in the file is of its records, in their order and of none
\* twice, whatever writes fail (record).
FileFollows ==
  LET pieces == SubSeq(file, stale + 1, Len(file))
  IN  /\ \A i \in DOMAIN pieces : \E k \in DOMAIN records : pieces[i].line = records[k]
      /\ \A i, j \in DOMAIN pieces :
           i < j => Len(pieces[i].line.record_hash) < Len(pieces[j].line.record_hash)

\* A line that is all there, and that is not glued to the remains of another.
Readable(i) == file[i].whole /\ (i = 1 \/ file[i - 1].whole)

\* The write of record k is over, and so well was the one before it.
Over(k) == \A c \in Callers : pc[c] = "write" => k < Len(records)
Begins(k) == IF k = 1 THEN stale = 0 \/ file[stale].whole ELSE k - 1 \notin failed

\* A write that fails costs the file its own record and at most the next one: every other
\* record can be read in it (record).
LossExplained ==
  \A k \in DOMAIN records : Over(k) /\ k \notin failed /\ Begins(k) =>
    \E i \in (stale + 1)..Len(file) : file[i].line = records[k] /\ Readable(i)

\* The log the engine relies on.  A caller's record counts once it is published.
Log == INSTANCE AppendOnlyLog WITH
         log <- [i \in DOMAIN records |-> records[i].entry],
         answer <- [c \in Callers |-> IF pc[c] = "write" THEN Len(work[c].record_hash)
                                      ELSE Len(ref[c])]

\* record, with its steps and its lock, is one atomic append that answers each caller
\* with the position of its own record.
LogImplemented == Log!Spec

=============================================================================
