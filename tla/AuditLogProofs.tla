---------------------------- MODULE AuditLogProofs ----------------------------
(***************************************************************************)
(* For any callers, entries and bounds: the chain of the audit log is      *)
(* intact, walking it without the lock raises no false alarm, and the log  *)
(* implements the append-only log the engine relies on; and whatever       *)
(* writes fail, the file has the records in order, and of each that can be *)
(* expected in it a line that can be read.                                 *)
(*                                                                         *)
(* Whoever holds the lock is alone between sealing and writing, so the     *)
(* last hash is that of the last record except while a sealed record waits *)
(* to be published, when it is the hash of that record (Tip).              *)
(***************************************************************************)
EXTENDS AuditLog, TLAPS

TypeOK ==
  /\ lock \in Callers \cup {Null}
  /\ pc \in [Callers -> {"idle", "publish", "write"}]
  /\ work \in [Callers -> Line \cup {Null}]
  /\ ref \in [Callers -> Hash]
  /\ records \in Seq(Line)
  /\ prev_hash \in Hash
  /\ verifying \in BOOLEAN /\ at \in Nat /\ prev \in Hash /\ intact \in BOOLEAN

\* The hash after the first i records.
HashAt(i) == IF i = 0 THEN Genesis ELSE records[i].record_hash

\* A record chained to hash h.
ChainedTo(r, h) == r.prev_hash = h /\ r.record_hash = Append(h, r.entry)

\* Only the holder of the lock is inside record().
Holder == \A c \in Callers : pc[c] # "idle" <=> lock = c

Chain ==
  \A i \in 1..Len(records) :
    /\ ChainedTo(records[i], HashAt(i - 1))
    /\ Len(records[i].record_hash) = i

Tip ==
  \/ /\ \A c \in Callers : pc[c] # "publish"
     /\ prev_hash = HashAt(Len(records))
  \/ \E c \in Callers :
       /\ pc[c] = "publish" /\ work[c] \in Line
       /\ ChainedTo(work[c], HashAt(Len(records)))
       /\ prev_hash = work[c].record_hash

\* The caller that writes holds the last record.
Written ==
  \A c \in Callers : pc[c] = "write" =>
    /\ work[c] \in Line /\ Len(records) > 0
    /\ work[c] = records[Len(records)]

\* The walk has checked a prefix of the records.
Walk ==
  /\ intact
  /\ verifying => at \in 0..Len(records) /\ prev = HashAt(at)

IInv == TypeOK /\ Holder /\ Chain /\ Tip /\ Written /\ Walk

-----------------------------------------------------------------------------
\* Appending a record leaves the earlier hashes as they were and adds its own.
LEMMA HashKept ==
  ASSUME records \in Seq(Line), NEW r \in Line, records' = Append(records, r)
  PROVE  /\ records' \in Seq(Line) /\ Len(records') = Len(records) + 1
         /\ \A i \in 1..Len(records) : records'[i] = records[i]
         /\ records'[Len(records) + 1] = r
         /\ \A i \in 0..Len(records) : HashAt(i)' = HashAt(i)
         /\ HashAt(Len(records))' = r.record_hash
<1>1. /\ records' \in Seq(Line) /\ Len(records') = Len(records) + 1
      /\ \A i \in 1..Len(records) : records'[i] = records[i]
      /\ records'[Len(records) + 1] = r
  OBVIOUS
<1>2. \A i \in 0..Len(records) : HashAt(i)' = HashAt(i)
  BY <1>1 DEF HashAt
<1>3. HashAt(Len(records))' = r.record_hash
  BY <1>1 DEF HashAt
<1> QED BY <1>1, <1>2, <1>3

\* The hash after any number of records is a hash.
LEMMA HashTyped ==
  ASSUME records \in Seq(Line)
  PROVE  \A i \in 0..Len(records) : HashAt(i) \in Hash
<1>1. ASSUME NEW i \in 1..Len(records) PROVE records[i].record_hash \in Hash
  <2>1. records[i] \in Line
    OBVIOUS
  <2> QED BY <2>1 DEF Line
<1>2. Genesis \in Hash
  BY DEF Genesis, Hash
<1> QED BY <1>1, <1>2 DEF HashAt

\* The values a process starts with have the types of the variables.
LEMMA StartTyped ==
  /\ Idle \in [Callers -> {"idle", "publish", "write"}]
  /\ NoWork \in [Callers -> Line \cup {Null}]
  /\ NoRef \in [Callers -> Hash] /\ Genesis \in Hash
  /\ <<>> \in Seq(Line) /\ 0 \in Nat
<1>1. Genesis \in Hash
  BY DEF Genesis, Hash
<1> QED BY <1>1 DEF Idle, NoWork, NoRef

\* The new log of a process satisfies the invariant.
LEMMA InitIInv == Init => IInv
<1> SUFFICES ASSUME Init PROVE IInv
  OBVIOUS
<1> USE DEF Init
<1>2. TypeOK
  BY StartTyped DEF TypeOK
<1>3. Holder /\ Written
  BY AuditAssumption DEF Holder, Written, Idle
<1>4. Chain
  BY DEF Chain
<1>5. Tip
  BY DEF Tip, HashAt, Idle
<1>6. Walk
  BY DEF Walk
<1> QED BY <1>2, <1>3, <1>4, <1>5, <1>6 DEF IInv

\* Every step of a process and its restart keep the invariant.
LEMMA NextIInv == IInv /\ [Next]_vars => IInv'
<1> SUFFICES ASSUME IInv, [Next]_vars PROVE IInv'
  OBVIOUS
<1> USE DEF IInv
<1>0. HashAt(Len(records)) \in Hash /\ Len(records) \in Nat
  BY HashTyped DEF TypeOK
<1>1. ASSUME NEW c \in Callers, NEW e \in Entries, Seal(c, e) PROVE IInv'
  <2> USE <1>1 DEF Seal, LockFree, reader
  <2>1. \A d \in Callers : pc[d] = "idle"
    BY AuditAssumption DEF Holder
  <2>2. prev_hash = HashAt(Len(records))
    BY <2>1 DEF Tip
  <2>3. Sealed(e) \in Line /\ ChainedTo(Sealed(e), prev_hash)
        /\ Sealed(e).record_hash = Append(prev_hash, e) /\ Append(prev_hash, e) \in Hash
    BY DEF Sealed, Line, Hash, ChainedTo, TypeOK
  <2>4. TypeOK'
    BY <2>3 DEF TypeOK
  <2>5. Holder'
    BY <2>1, AuditAssumption DEF Holder, TypeOK
  <2>6. HashAt(Len(records))' = HashAt(Len(records)) /\ \A i : HashAt(i)' = HashAt(i)
    BY DEF HashAt
  <2>7. Chain'
    BY <2>6 DEF Chain
  <2>8. pc'[c] = "publish" /\ work'[c] = Sealed(e)
    BY DEF TypeOK
  <2>9. Tip'
    BY <2>2, <2>3, <2>6, <2>8 DEF Tip, ChainedTo
  <2>10. Written'
    BY <2>1 DEF Written, TypeOK
  <2>11. Walk'
    BY <2>6 DEF Walk
  <2> QED BY <2>4, <2>5, <2>7, <2>9, <2>10, <2>11
<1>2. ASSUME NEW c \in Callers, Publish(c) PROVE IInv'
  <2> USE <1>2 DEF Publish, reader
  <2>1. lock = c /\ \A d \in Callers : d # c => pc[d] = "idle"
    BY DEF Holder
  <2>2. /\ work[c] \in Line /\ ChainedTo(work[c], HashAt(Len(records)))
        /\ prev_hash = work[c].record_hash
    BY <2>1 DEF Tip
  <2>3. /\ records' \in Seq(Line) /\ Len(records') = Len(records) + 1
        /\ \A i \in 1..Len(records) : records'[i] = records[i]
        /\ records'[Len(records) + 1] = work[c]
        /\ \A i \in 0..Len(records) : HashAt(i)' = HashAt(i)
        /\ HashAt(Len(records))' = work[c].record_hash
    BY <2>2, HashKept DEF TypeOK
  <2>4. TypeOK'
    BY <2>3 DEF TypeOK
  <2>5. Holder'
    BY <2>1 DEF Holder, TypeOK
  <2>6. Len(work[c].record_hash) = Len(records) + 1
    <3>1. Len(HashAt(Len(records))) = Len(records)
      BY <1>0 DEF HashAt, Chain, Genesis
    <3> QED BY <3>1, <2>2, <1>0 DEF ChainedTo, Hash, Line
  <2>7. Chain'
    <3>1. ASSUME NEW i \in 1..Len(records)'
          PROVE  ChainedTo(records'[i], HashAt(i - 1)') /\ Len(records'[i].record_hash) = i
      <4>1. CASE i = Len(records) + 1
        BY <4>1, <2>2, <2>3, <2>6, <1>0
      <4>2. CASE i \in 1..Len(records)
        <5>1. i - 1 \in 0..Len(records)
          BY <4>2, <1>0
        <5>2. HashAt(i - 1)' = HashAt(i - 1)
          BY <5>1, <2>3
        <5> QED BY <4>2, <5>2, <2>3 DEF Chain
      <4> QED BY <4>1, <4>2, <2>3, <1>0
    <3> QED BY <3>1 DEF Chain, ChainedTo
  <2>8. Tip'
    <3>1. \A d \in Callers : pc'[d] # "publish"
      BY <2>1 DEF TypeOK
    <3> QED BY <3>1, <2>2, <2>3 DEF Tip
  <2>9. Written'
    BY <2>1, <2>2, <2>3, <1>0 DEF Written, TypeOK
  <2>10. Walk'
    BY <2>3, <1>0 DEF Walk
  <2> QED BY <2>4, <2>5, <2>7, <2>8, <2>9, <2>10
<1>3. ASSUME NEW c \in Callers, WriteLine(c) PROVE IInv'
  <2> USE <1>3 DEF WriteLine, Output, Reference, reader
  <2>1. lock = c /\ \A d \in Callers : d # c => pc[d] = "idle"
    BY DEF Holder
  <2>2. work[c] \in Line /\ work[c].record_hash \in Hash
    BY DEF Written, Line
  <2>3. TypeOK'
    BY <2>2 DEF TypeOK
  <2>4. Holder'
    BY <2>1, AuditAssumption DEF Holder, TypeOK
  <2>5. \A i : HashAt(i)' = HashAt(i)
    BY DEF HashAt
  <2>6. Chain'
    BY <2>5 DEF Chain
  <2>7. prev_hash = HashAt(Len(records))
    BY <2>1 DEF Tip
  <2>8. \A d \in Callers : pc'[d] = "idle"
    BY <2>1 DEF TypeOK
  <2>9. Tip'
    BY <2>5, <2>7, <2>8 DEF Tip
  <2>10. Written'
    BY <2>8 DEF Written
  <2>11. Walk'
    BY <2>5 DEF Walk
  <2> QED BY <2>3, <2>4, <2>6, <2>9, <2>10, <2>11
<1>4. ASSUME Verify PROVE IInv'
  <2>0. /\ UNCHANGED <<caller, records, prev_hash, disk>>
    BY <1>4 DEF Verify, StartVerify, VerifyNext, VerifyEnds
  <2>1. \A i : HashAt(i)' = HashAt(i)
    BY <2>0 DEF HashAt
  <2>2. Holder' /\ Chain' /\ Tip' /\ Written'
    BY <2>0, <2>1 DEF Holder, Chain, Tip, Written, caller, ChainedTo
  <2>3. CASE StartVerify
    <3>1. Genesis \in Hash /\ HashAt(0) = Genesis
      BY DEF Genesis, Hash, HashAt
    <3>2. TypeOK'
      BY <2>0, <2>3, <3>1 DEF TypeOK, caller, StartVerify
    <3>3. Walk'
      BY <2>0, <2>1, <2>3, <3>1, <1>0 DEF Walk, StartVerify
    <3> QED BY <2>2, <3>2, <3>3
  <2>4. CASE VerifyNext
    <3> USE <2>4 DEF VerifyNext, Carry
    <3>1. at \in 0..Len(records) /\ prev = HashAt(at) /\ at + 1 \in 1..Len(records)
      BY <1>0 DEF Walk
    <3>2. at + 1 - 1 = at
      BY <3>1
    <3>3. ChainedTo(records[at + 1], HashAt(at))
      BY <3>1, <3>2 DEF Chain
    <3>4. at' = at + 1 /\ prev' = records[at + 1].record_hash /\ UNCHANGED <<verifying, intact>>
      BY <3>1, <3>3 DEF ChainedTo
    <3>5. HashAt(at + 1) = records[at + 1].record_hash /\ HashAt(at + 1) \in Hash
      BY <3>1, HashTyped DEF HashAt, TypeOK
    <3>6. TypeOK'
      BY <2>0, <3>1, <3>4, <3>5 DEF TypeOK, caller
    <3>7. HashAt(at)' = HashAt(at + 1)
      BY <2>0, <3>4 DEF HashAt
    <3>8. Walk'
      BY <2>0, <3>1, <3>4, <3>5, <3>7 DEF Walk
    <3> QED BY <2>2, <3>6, <3>8
  <2>5. CASE VerifyEnds
    <3>1. TypeOK' /\ Walk'
      BY <2>0, <2>5 DEF TypeOK, caller, VerifyEnds, Walk
    <3> QED BY <2>2, <3>1
  <2> QED BY <1>4, <2>3, <2>4, <2>5 DEF Verify
<1>5. ASSUME Restart PROVE IInv'
  <2> USE <1>5 DEF Restart
  <2>2. TypeOK'
    BY StartTyped DEF TypeOK
  <2>3. Holder' /\ Written'
    BY AuditAssumption DEF Holder, Written, Idle
  <2>4. Chain'
    BY DEF Chain
  <2>5. Tip'
    BY DEF Tip, HashAt, Idle
  <2>6. Walk'
    BY DEF Walk
  <2> QED BY <2>2, <2>3, <2>4, <2>5, <2>6
<1>6. ASSUME UNCHANGED vars PROVE IInv'
  <2> USE <1>6 DEF vars, caller, reader
  <2>1. \A i : HashAt(i)' = HashAt(i)
    BY DEF HashAt
  <2>2. TypeOK' /\ Holder' /\ Chain' /\ Written' /\ Walk'
    BY <2>1 DEF TypeOK, Holder, Chain, Written, Walk, ChainedTo
  <2>3. Tip'
    BY <2>1 DEF Tip, ChainedTo
  <2> QED BY <2>2, <2>3
<1> QED BY <1>1, <1>2, <1>3, <1>4, <1>5, <1>6 DEF Next, Record

\* The invariant of the audit log.
THEOREM Invariant == Spec => []IInv
<1> QED BY InitIInv, NextIInv, PTL DEF Spec

\* Every record is chained to the one before it, whatever the threads that made them.
THEOREM ChainIsIntact == Spec => []ChainIntact
<1>1. IInv => ChainIntact
  <2> SUFFICES ASSUME IInv, NEW i \in DOMAIN records
               PROVE  LET before == IF i = 1 THEN Genesis ELSE records[i - 1].record_hash
                      IN  /\ records[i].prev_hash = before
                          /\ records[i].record_hash = Append(before, records[i].entry)
    BY DEF ChainIntact
  <2>1. i \in 1..Len(records)
    BY DEF IInv, TypeOK
  <2>2. HashAt(i - 1) = IF i = 1 THEN Genesis ELSE records[i - 1].record_hash
    BY <2>1 DEF HashAt
  <2> QED BY <2>1, <2>2 DEF IInv, Chain, ChainedTo
<1> QED BY <1>1, Invariant, PTL

\* The walk of GET /audit, which takes no lock, never reports a broken chain.
THEOREM NoAlarmIsFalse == Spec => []NoFalseAlarm
<1>1. IInv => NoFalseAlarm
  BY DEF IInv, Walk, NoFalseAlarm
<1> QED BY <1>1, Invariant, PTL

-----------------------------------------------------------------------------
(* The file *)

Lines == (stale + 1)..Len(file)

\* What this process put in the file is of its records, in order; the record being written
\* is after them.
FileInv ==
  /\ file \in Seq(Piece) /\ stale \in Nat /\ stale <= Len(file)
  /\ \A i \in Lines : \E k \in 1..Len(records) :
       file[i].line = records[k] /\ \A c \in Callers : pc[c] = "write" => k < Len(records)
  /\ \A i, j \in Lines : i < j => Len(file[i].line.record_hash) < Len(file[j].line.record_hash)

\* After the write of record n, or before the first, the file ends with a newline if all
\* went well with it, or where the process found it.
EndsAt(n) == IF n = 0 THEN Len(file) = stale ELSE n \notin failed => file[Len(file)].whole

Ending ==
  /\ (\A c \in Callers : pc[c] # "write") => EndsAt(Len(records))
  /\ \A c \in Callers : pc[c] = "write" => EndsAt(Len(records) - 1)

\* A record whose write is over and did not fail has its line, which can be read if that
\* of the one before it did not fail either.
Kept(k) ==
  Over(k) /\ k \notin failed =>
    \E i \in Lines : file[i].line = records[k] /\ file[i].whole /\ (Begins(k) => Readable(i))

LossInv == Ending /\ \A k \in 1..Len(records) : Kept(k)

\* Nothing that concerns the file changes.
LEMMA FileStays ==
  ASSUME FileInv, LossInv, UNCHANGED <<file, stale, failed, records>>,
         \A c \in Callers : pc'[c] = "write" <=> pc[c] = "write"
  PROVE  FileInv' /\ LossInv'
<1>1. FileInv'
  BY DEF FileInv, Lines
<1>2. Ending'
  BY DEF LossInv, Ending, EndsAt
<1>3. ASSUME NEW k \in 1..Len(records) PROVE Kept(k)'
  BY DEF LossInv, Kept, Over, Begins, Readable, Lines
<1> QED BY <1>1, <1>2, <1>3 DEF LossInv

\* A record that is published comes after every line, and its write is not over.
LEMMA PublishedLast ==
  ASSUME IInv, FileInv, LossInv, NEW c \in Callers, Publish(c)
  PROVE  FileInv' /\ LossInv'
<1>1. /\ work[c] \in Line /\ UNCHANGED <<file, stale, failed>>
      /\ records' = Append(records, work[c]) /\ pc' = [pc EXCEPT ![c] = "write"]
  BY DEF Publish, IInv, Tip, Holder, disk
<1>2. /\ Len(records) \in Nat /\ Len(records') = Len(records) + 1
      /\ \A i \in 1..Len(records) : records'[i] = records[i]
  BY <1>1, HashKept DEF IInv, TypeOK
<1>3. ASSUME NEW i \in Lines
      PROVE  \E k \in 1..Len(records') :
               file[i].line = records'[k]
               /\ \A d \in Callers : pc'[d] = "write" => k < Len(records')
  <2>1. PICK k \in 1..Len(records) : file[i].line = records[k]
    BY DEF FileInv
  <2>2. k \in 1..Len(records') /\ k < Len(records') /\ file[i].line = records'[k]
    BY <1>2, <2>1
  <2> QED BY <2>2
<1>4. FileInv'
  BY <1>1, <1>3 DEF FileInv, Lines
<1>5. pc'[c] = "write" /\ \A d \in Callers : pc[d] # "write"
  BY <1>1 DEF Publish, IInv, Holder, TypeOK
<1>6. Ending'
  BY <1>1, <1>2, <1>5 DEF LossInv, Ending, EndsAt
<1>7. ASSUME NEW k \in 1..Len(records') PROVE Kept(k)'
  <2>1. CASE k = Len(records')
    BY <1>5, <2>1 DEF Kept, Over
  <2>2. CASE k \in 1..Len(records)
    <3>1. Kept(k) /\ Over(k)
      BY <1>5, <2>2 DEF LossInv, Over
    <3> QED BY <1>1, <1>2, <2>2, <3>1 DEF Kept, Begins, Readable, Lines
  <2> QED BY <1>2, <2>1, <2>2
<1> QED BY <1>4, <1>6, <1>7 DEF LossInv

\* The record being written is the last, and every line is of an earlier one.
LEMMA WritesLast ==
  ASSUME IInv, FileInv, NEW c \in Callers, pc[c] = "write"
  PROVE  /\ work[c] \in Line /\ Len(records) \in Nat /\ Len(records) > 0
         /\ work[c] = records[Len(records)] /\ Len(work[c].record_hash) = Len(records)
         /\ \A i \in Lines : \E k \in 1..(Len(records) - 1) :
              file[i].line = records[k] /\ Len(file[i].line.record_hash) = k
<1>1. /\ work[c] \in Line /\ Len(records) \in Nat /\ Len(records) > 0
      /\ work[c] = records[Len(records)]
  BY DEF IInv, Written, TypeOK
<1>2. Len(work[c].record_hash) = Len(records)
  BY <1>1 DEF IInv, Chain
<1>3. ASSUME NEW i \in Lines
      PROVE  \E k \in 1..(Len(records) - 1) :
               file[i].line = records[k] /\ Len(file[i].line.record_hash) = k
  <2>1. PICK k \in 1..Len(records) : file[i].line = records[k] /\ k < Len(records)
    BY DEF FileInv
  <2> QED BY <1>1, <2>1 DEF IInv, Chain
<1> QED BY <1>1, <1>2, <1>3

\* What a write puts in the file, or leaves there, comes after every line.
LEMMA PieceLast ==
  ASSUME IInv, FileInv, NEW c \in Callers, pc[c] = "write", pc' = [pc EXCEPT ![c] = "idle"],
         UNCHANGED <<stale, records>>, NEW w \in BOOLEAN,
         file' = file \o <<[line |-> work[c], whole |-> w]>>
  PROVE  /\ FileInv' /\ Len(file) \in Nat /\ Len(file') = Len(file) + 1
         /\ \A i \in 1..Len(file) : file'[i] = file[i]
         /\ file'[Len(file) + 1] = [line |-> work[c], whole |-> w]
<1> DEFINE p == [line |-> work[c], whole |-> w]
<1>1. /\ work[c] \in Line /\ Len(records) \in Nat /\ Len(records) > 0
      /\ work[c] = records[Len(records)] /\ Len(work[c].record_hash) = Len(records)
      /\ \A i \in Lines : \E k \in 1..(Len(records) - 1) :
           file[i].line = records[k] /\ Len(file[i].line.record_hash) = k
  BY WritesLast
<1>2. /\ file \in Seq(Piece) /\ Len(file) \in Nat /\ stale \in Nat /\ stale <= Len(file)
      /\ Len(records) \in Nat /\ Len(records) > 0
  BY <1>1 DEF FileInv
<1>3. p \in Piece /\ p.line = work[c]
  BY <1>1 DEF Piece
<1>4. file' = file \o <<p>>
  OBVIOUS
<1> HIDE DEF p
<1>5. /\ file' \in Seq(Piece) /\ Len(file') = Len(file) + 1
      /\ \A i \in 1..Len(file) : file'[i] = file[i]
      /\ file'[Len(file) + 1] = p
  BY <1>2, <1>3, <1>4
<1>6. \A d \in Callers : pc'[d] # "write"
  BY DEF IInv, TypeOK, Holder
<1>7. \A i \in Lines' : i \in Lines \/ i = Len(file) + 1
  BY <1>2, <1>5 DEF Lines
<1>8. \A i \in Lines : file'[i] = file[i]
  BY <1>2, <1>5 DEF Lines
<1>9. ASSUME NEW i \in Lines' PROVE \E k \in 1..Len(records) : file'[i].line = records[k]
  <2>1. CASE i \in Lines
    <3>1. PICK k \in 1..(Len(records) - 1) : file[i].line = records[k]
      BY <1>1, <2>1
    <3>2. k \in 1..Len(records)
      BY <1>2
    <3>3. file'[i].line = records[k]
      BY <1>8, <2>1, <3>1
    <3> QED BY <3>2, <3>3
  <2>2. CASE i = Len(file) + 1
    <3>1. file'[i].line = records[Len(records)]
      BY <1>1, <1>3, <1>5, <2>2
    <3>2. Len(records) \in 1..Len(records)
      BY <1>2
    <3> QED BY <3>1, <3>2
  <2> QED BY <1>7, <2>1, <2>2
<1>10. ASSUME NEW i \in Lines', NEW j \in Lines', i < j
       PROVE  Len(file'[i].line.record_hash) < Len(file'[j].line.record_hash)
  <2>1. i \in Lines
    BY <1>2, <1>5, <1>7, <1>10 DEF Lines
  <2>2. CASE j \in Lines
    BY <1>8, <1>10, <2>1, <2>2 DEF FileInv
  <2>3. CASE j = Len(file) + 1
    <3>1. PICK k \in 1..(Len(records) - 1) : Len(file[i].line.record_hash) = k
      BY <1>1, <2>1
    <3>2. Len(file'[i].line.record_hash) = k
      BY <1>8, <2>1, <3>1
    <3>3. Len(file'[j].line.record_hash) = Len(records)
      BY <1>1, <1>3, <1>5, <2>3
    <3>4. k < Len(records)
      BY <1>2
    <3> QED BY <3>2, <3>3, <3>4
  <2> QED BY <1>7, <2>2, <2>3
<1>11. FileInv'
  <2>1. file' \in Seq(Piece) /\ stale' \in Nat /\ stale' <= Len(file')
    BY <1>2, <1>5
  <2>2. \A i \in Lines' : \E k \in 1..Len(records') :
          file'[i].line = records'[k] /\ \A d \in Callers : pc'[d] = "write" => k < Len(records')
    BY <1>6, <1>9
  <2>3. \A i, j \in Lines' :
          i < j => Len(file'[i].line.record_hash) < Len(file'[j].line.record_hash)
    BY <1>10
  <2> QED BY <2>1, <2>2, <2>3 DEF FileInv
<1> QED BY <1>2, <1>5, <1>11 DEF p

\* A line that was there can be read as before.
LEMMA KeptBefore ==
  ASSUME FileInv, Len(file) \in Nat, Len(file') \in Nat, Len(file) <= Len(file'),
         \A i \in 1..Len(file) : file'[i] = file[i],
         UNCHANGED <<stale, records>>, NEW k \in 1..(Len(records) - 1), Len(records) \in Nat,
         Kept(k), Over(k), k \in failed => k \in failed',
         k - 1 \in failed => k - 1 \in failed'
  PROVE  Kept(k)'
<1>1. stale \in Nat /\ stale <= Len(file)
  BY DEF FileInv
<1> SUFFICES ASSUME k \notin failed'
             PROVE  \E i \in Lines' : /\ file'[i].line = records[k] /\ file'[i].whole
                                      /\ Begins(k)' => Readable(i)'
  BY DEF Kept
<1>2. PICK i \in Lines : file[i].line = records[k] /\ file[i].whole /\ (Begins(k) => Readable(i))
  BY DEF Kept
<1>3. i \in Lines' /\ i \in 1..Len(file) /\ (i = 1 \/ i - 1 \in 1..Len(file))
  BY <1>1, <1>2 DEF Lines
<1>4. Begins(k)' => Begins(k)
  <2>1. CASE k = 1
    BY <1>1, <2>1 DEF Begins
  <2>2. CASE k # 1
    BY <2>2 DEF Begins
  <2> QED BY <2>1, <2>2
<1>5. Readable(i) => Readable(i)'
  BY <1>3 DEF Readable
<1> QED BY <1>2, <1>3, <1>4, <1>5

\* A line that is written can be read, if the one before it was; what a write leaves that
\* fails is not counted on.
LEMMA WrittenLast ==
  ASSUME IInv, FileInv, LossInv, NEW c \in Callers, WriteLine(c)
  PROVE  FileInv' /\ LossInv'
<1>1. /\ pc[c] = "write" /\ pc' = [pc EXCEPT ![c] = "idle"] /\ UNCHANGED <<stale, records>>
  BY DEF WriteLine
<1>2. /\ work[c] \in Line /\ Len(records) \in Nat /\ Len(records) > 0
      /\ work[c] = records[Len(records)] /\ Len(work[c].record_hash) = Len(records)
  BY <1>1, WritesLast
<1>3. /\ \A d \in Callers : pc'[d] # "write"
      /\ \A d \in Callers : pc[d] = "write" => d = c
  BY <1>1 DEF IInv, TypeOK, Holder
<1>4. /\ \A k \in 1..(Len(records) - 1) : Kept(k) /\ Over(k)
      /\ EndsAt(Len(records) - 1)
  BY <1>1, <1>2 DEF LossInv, Ending, Over
<1>5. Len(file) \in Nat /\ stale \in Nat /\ stale <= Len(file)
  BY DEF FileInv
<1>6. ASSUME Len(file') \in Nat, Len(file) <= Len(file'),
             \A i \in 1..Len(file) : file'[i] = file[i], FileInv',
             failed' = failed \cup {Len(records)}
      PROVE  FileInv' /\ LossInv'
  <2>1. ASSUME NEW k \in 1..Len(records) PROVE Kept(k)'
    <3>1. CASE k = Len(records)
      BY <1>6, <3>1 DEF Kept
    <3>2. CASE k \in 1..(Len(records) - 1)
      BY <1>1, <1>2, <1>4, <1>5, <1>6, <3>2, KeptBefore
    <3> QED BY <1>2, <3>1, <3>2
  <2>2. Ending'
    BY <1>1, <1>2, <1>3, <1>6 DEF Ending, EndsAt
  <2> QED BY <1>1, <1>6, <2>1, <2>2 DEF LossInv
<1>7. CASE file' = file /\ failed' = failed \cup {Len(work[c].record_hash)}
  <2>1. FileInv'
    BY <1>1, <1>3, <1>7 DEF FileInv, Lines
  <2> QED BY <1>2, <1>5, <1>6, <1>7, <2>1
<1>8. CASE /\ file' = file \o <<[line |-> work[c], whole |-> FALSE]>>
           /\ failed' = failed \cup {Len(work[c].record_hash)}
  <2>1. /\ FileInv' /\ Len(file') = Len(file) + 1
        /\ \A i \in 1..Len(file) : file'[i] = file[i]
    BY <1>1, <1>8, PieceLast
  <2> QED BY <1>2, <1>5, <1>6, <1>8, <2>1
<1>9. CASE file' = file \o Output(c) /\ failed' = failed
  <2>1. /\ FileInv' /\ Len(file') = Len(file) + 1
        /\ \A i \in 1..Len(file) : file'[i] = file[i]
        /\ file'[Len(file) + 1] = [line |-> work[c], whole |-> TRUE]
    BY <1>1, <1>9, PieceLast DEF Output
  <2>2. Ending'
    BY <1>1, <1>2, <1>3, <1>5, <2>1 DEF Ending, EndsAt
  <2>3. PICK n \in Nat : n = Len(records) /\ n > 0
    BY <1>2
  <2>4. Begins(n) => Len(file) = 0 \/ file[Len(file)].whole
    <3>1. EndsAt(n - 1)
      BY <1>4, <2>3
    <3>2. CASE n = 1
      BY <1>5, <3>1, <3>2 DEF Begins, EndsAt
    <3>3. CASE n # 1
      BY <2>3, <3>1, <3>3 DEF Begins, EndsAt
    <3> QED BY <3>2, <3>3
  <2>5. Begins(n)' => Begins(n)
    <3>1. CASE stale = 0
      BY <1>1, <1>9, <3>1 DEF Begins
    <3>2. CASE stale # 0
      <4>1. stale \in 1..Len(file)
        BY <1>5, <3>2
      <4>2. file'[stale'] = file[stale]
        BY <1>1, <2>1, <4>1
      <4> QED BY <1>1, <1>9, <4>2 DEF Begins
    <3> QED BY <3>1, <3>2
  <2>6. Kept(n)'
    <3>1. PICK m \in Nat : m = Len(file) + 1
      BY <1>5
    <3>2. m \in Lines'
      BY <1>1, <1>5, <2>1, <3>1 DEF Lines
    <3>3. file'[m].line = records'[n] /\ file'[m].whole
      BY <1>1, <1>2, <2>1, <2>3, <3>1
    <3>4. ASSUME Begins(n)' PROVE Readable(m)'
      <4>1. Len(file) = 0 \/ file[Len(file)].whole
        BY <2>4, <2>5, <3>4
      <4>2. m = 1 \/ file'[m - 1].whole
        BY <1>5, <2>1, <3>1, <4>1
      <4> QED BY <3>3, <4>2 DEF Readable
    <3> QED BY <3>2, <3>3, <3>4 DEF Kept
  <2>7. ASSUME NEW k \in 1..(n - 1) PROVE Kept(k)'
    BY <1>1, <1>2, <1>4, <1>5, <1>9, <2>1, <2>3, KeptBefore
  <2>8. \A k \in 1..n : Kept(k)'
    BY <2>3, <2>6, <2>7
  <2> QED BY <1>1, <2>1, <2>2, <2>3, <2>8 DEF LossInv
<1>10. PICK rest : \/ file' = file \o Output(c) /\ failed' = failed
                  \/ /\ rest \in Remains(c) /\ file' = file \o rest
                     /\ failed' = failed \cup {Len(work[c].record_hash)}
  BY DEF WriteLine
<1>11. rest = <<>> => file \o rest = file
  BY DEF FileInv
<1> QED BY <1>7, <1>8, <1>9, <1>10, <1>11 DEF Remains

\* The next process starts with the file it could empty, or with what it found.
LEMMA FoundAtStart ==
  ASSUME IInv, FileInv, Restart
  PROVE  FileInv' /\ LossInv'
<1>1. records' = <<>> /\ pc' = Idle /\ failed' = {}
  BY DEF Restart
<1>2. file' \in Seq(Piece)
  <2>1. ASSUME NEW c \in Callers, pc[c] = "write", NEW w \in BOOLEAN
        PROVE  file \o <<[line |-> work[c], whole |-> w]>> \in Seq(Piece)
    <3>1. [line |-> work[c], whole |-> w] \in Piece
      BY <2>1, WritesLast DEF Piece
    <3>2. file \in Seq(Piece)
      BY DEF FileInv
    <3> QED BY <3>1, <3>2
  <2>2. file \in Seq(Piece) /\ file \o <<>> = file
    BY DEF FileInv
  <2>3. ASSUME NEW c \in Callers, pc[c] = "write", NEW rest \in Remains(c) \cup {Output(c)}
        PROVE  file \o rest \in Seq(Piece)
    <3>1. \/ rest = <<>>
          \/ \E w \in BOOLEAN : rest = <<[line |-> work[c], whole |-> w]>>
      BY <2>3 DEF Remains, Output
    <3> QED BY <2>1, <2>2, <2>3, <3>1
  <2>4. file' \in Left => file' \in Seq(Piece)
    BY <2>2, <2>3 DEF Left
  <2>5. file' = <<>> \/ file' \in Left
    BY DEF Restart
  <2>6. <<>> \in Seq(Piece)
    OBVIOUS
  <2> QED BY <2>4, <2>5, <2>6
<1>3. stale' = Len(file') /\ stale' \in Nat
  BY <1>2 DEF Restart
<1>4. FileInv'
  BY <1>2, <1>3 DEF FileInv, Lines
<1>5. LossInv'
  BY <1>1, <1>3 DEF LossInv, Ending, EndsAt, Idle
<1> QED BY <1>4, <1>5

\* Every step of a process and its restart keep the lines in order, and readable.
LEMMA NextFileInv == IInv /\ FileInv /\ LossInv /\ [Next]_vars => FileInv' /\ LossInv'
<1> SUFFICES ASSUME IInv, FileInv, LossInv, [Next]_vars PROVE FileInv' /\ LossInv'
  OBVIOUS
<1>1. ASSUME NEW c \in Callers, NEW e \in Entries, Seal(c, e) PROVE FileInv' /\ LossInv'
  <2>1. \A d \in Callers : pc'[d] = "write" <=> pc[d] = "write"
    BY <1>1 DEF Seal, IInv, TypeOK
  <2> QED BY <1>1, <2>1, FileStays DEF Seal, disk
<1>2. ASSUME NEW c \in Callers, Publish(c) PROVE FileInv' /\ LossInv'
  BY <1>2, PublishedLast
<1>3. ASSUME NEW c \in Callers, WriteLine(c) PROVE FileInv' /\ LossInv'
  BY <1>3, WrittenLast
<1>4. CASE Verify
  BY <1>4, FileStays DEF Verify, StartVerify, VerifyNext, VerifyEnds, caller, disk
<1>5. CASE Restart
  BY <1>5, FoundAtStart
<1>6. CASE UNCHANGED vars
  BY <1>6, FileStays DEF vars, caller, disk
<1> QED BY <1>1, <1>2, <1>3, <1>4, <1>5, <1>6 DEF Next, Record

LEMMA InitFileInv == Init => FileInv /\ LossInv
BY DEF Init, FileInv, LossInv, Lines, Ending, EndsAt, Idle

\* For any callers, and whatever writes fail and leave in the file, what a process puts
\* there is of its records, in order and of none twice.
THEOREM FileIsFaithful == Spec => []FileFollows
<1>1. IInv /\ FileInv => FileFollows
  <2> SUFFICES ASSUME IInv, FileInv PROVE FileFollows
    OBVIOUS
  <2> DEFINE pieces == SubSeq(file, stale + 1, Len(file))
  <2>1. /\ file \in Seq(Piece) /\ Len(file) \in Nat /\ stale \in Nat /\ stale <= Len(file)
    BY DEF FileInv
  <2>2. /\ DOMAIN pieces = 1..(Len(file) - stale)
        /\ \A i \in 1..(Len(file) - stale) : pieces[i] = file[stale + i] /\ stale + i \in Lines
    BY <2>1 DEF Lines
  <2>3. DOMAIN records = 1..Len(records)
    BY DEF IInv, TypeOK
  <2>4. ASSUME NEW i \in DOMAIN pieces
        PROVE  \E k \in DOMAIN records : pieces[i].line = records[k]
    <3>1. stale + i \in Lines /\ pieces[i] = file[stale + i]
      BY <2>2
    <3>2. \E k \in 1..Len(records) : file[stale + i].line = records[k]
      BY <3>1 DEF FileInv
    <3> QED BY <2>3, <3>1, <3>2
  <2>5. ASSUME NEW i \in DOMAIN pieces, NEW j \in DOMAIN pieces, i < j
        PROVE  Len(pieces[i].line.record_hash) < Len(pieces[j].line.record_hash)
    <3>1. stale + i \in Lines /\ stale + j \in Lines /\ stale + i < stale + j
      BY <2>1, <2>2, <2>5
    <3> QED BY <2>2, <3>1 DEF FileInv
  <2> QED BY <2>4, <2>5 DEF FileFollows
<1> QED BY <1>1, InitFileInv, NextFileInv, Invariant, PTL DEF Spec

\* For any callers, whatever writes fail and whatever they leave: a record whose write did
\* not fail can be read in the file, unless the one before it did.
THEOREM LossIsBounded == Spec => []LossExplained
<1>1. IInv /\ LossInv => LossExplained
  <2> SUFFICES ASSUME IInv, LossInv, NEW k \in DOMAIN records, Over(k), k \notin failed, Begins(k)
               PROVE  \E i \in (stale + 1)..Len(file) : file[i].line = records[k] /\ Readable(i)
    BY DEF LossExplained
  <2>1. k \in 1..Len(records)
    BY DEF IInv, TypeOK
  <2> QED BY <2>1 DEF LossInv, Kept, Lines
<1> QED BY <1>1, InitFileInv, NextFileInv, Invariant, PTL DEF Spec

-----------------------------------------------------------------------------
(* Refinement of AppendOnlyLog *)

entries == [i \in DOMAIN records |-> records[i].entry]

answers ==
  [c \in Callers |-> IF pc[c] = "write" THEN Len(work[c].record_hash) ELSE Len(ref[c])]

\* A published record is one entry more, and its hash gives the new length.
LEMMA PublishPuts ==
  ASSUME IInv, NEW c \in Callers, Publish(c)
  PROVE  /\ work[c].entry \in Entries
         /\ entries' = Append(entries, work[c].entry)
         /\ answers' = [answers EXCEPT ![c] = Len(entries')]
<1> USE DEF Publish, IInv
<1>1. lock = c /\ \A d \in Callers : d # c => pc[d] = "idle"
  BY DEF Holder
<1>2. work[c] \in Line /\ ChainedTo(work[c], HashAt(Len(records)))
  BY <1>1 DEF Tip
<1>3. Len(records) \in Nat /\ HashAt(Len(records)) \in Hash
  BY HashTyped DEF TypeOK
<1>4. Len(HashAt(Len(records))) = Len(records)
  BY <1>3 DEF HashAt, Chain, Genesis
<1>5. Len(work[c].record_hash) = Len(records) + 1
  BY <1>2, <1>3, <1>4 DEF ChainedTo, Hash, Line
<1>6. /\ records' \in Seq(Line) /\ Len(records') = Len(records) + 1
      /\ \A i \in 1..Len(records) : records'[i] = records[i]
      /\ records'[Len(records) + 1] = work[c]
  BY <1>2, HashKept DEF TypeOK
<1>7. work[c].entry \in Entries
  BY <1>2 DEF Line
<1>8. /\ DOMAIN records = 1..Len(records) /\ DOMAIN records' = 1..(Len(records) + 1)
  BY <1>6 DEF TypeOK
<1>9. entries \in Seq(Entries) /\ Len(entries) = Len(records)
  <2>1. ASSUME NEW i \in 1..Len(records) PROVE records[i].entry \in Entries
    <3>1. records[i] \in Line
      BY DEF TypeOK
    <3> QED BY <3>1 DEF Line
  <2>2. entries \in [1..Len(records) -> Entries]
    BY <2>1, <1>8 DEF entries
  <2> QED BY <2>2, <1>3
<1>10. entries' = [i \in 1..(Len(records) + 1) |-> records'[i].entry]
  BY <1>8 DEF entries
<1>11. entries' = Append(entries, work[c].entry) /\ Len(entries') = Len(records) + 1
  <2> DEFINE more == Append(entries, work[c].entry)
  <2>1. /\ more \in Seq(Entries) /\ Len(more) = Len(records) + 1
        /\ \A i \in 1..Len(records) : more[i] = entries[i]
        /\ more[Len(records) + 1] = work[c].entry
    BY <1>7, <1>9
  <2>2. more = [i \in 1..(Len(records) + 1) |-> more[i]]
    BY <2>1
  <2>3. \A i \in 1..Len(records) : entries[i] = records[i].entry
    BY <1>8 DEF entries
  <2>4. \A i \in 1..(Len(records) + 1) : more[i] = records'[i].entry
    BY <2>1, <2>3, <1>3, <1>6
  <2>5. entries' = more
    BY <2>2, <2>4, <1>10
  <2> QED BY <2>1, <2>5
<1>12. answers' = [answers EXCEPT ![c] = Len(entries')]
  <2>1. \A d \in Callers : pc'[d] = IF d = c THEN "write" ELSE pc[d]
    BY DEF TypeOK
  <2> QED BY <2>1, <1>5, <1>11 DEF answers
<1> QED BY <1>7, <1>11, <1>12

\* record(), with its lock and its steps, and a new process implement the append-only
\* log: one append at a time, each caller answered with the place of its own record.
THEOREM LogIsImplemented == Spec => LogImplemented
<1> USE DEF entries, answers
<1>1. Init => Log!Init
  BY DEF Init, Log!Init, Idle, NoRef, Genesis
<1>2. IInv /\ [Next]_vars => [Log!Next]_<<entries, answers>>
  <2> SUFFICES ASSUME IInv, [Next]_vars PROVE [Log!Next]_<<entries, answers>>
    OBVIOUS
  <2>1. ASSUME NEW c \in Callers, NEW e \in Entries, Seal(c, e)
        PROVE  UNCHANGED <<entries, answers>>
    BY <2>1 DEF Seal, LockFree, IInv, TypeOK
  <2>2. ASSUME NEW c \in Callers, Publish(c) PROVE Log!Next
    BY <2>2, PublishPuts DEF Log!Next, Log!Put
  <2>3. ASSUME NEW c \in Callers, WriteLine(c) PROVE UNCHANGED <<entries, answers>>
    <3>1. /\ ref' = [ref EXCEPT ![c] = work[c].record_hash] /\ pc[c] = "write"
          /\ pc' = [pc EXCEPT ![c] = "idle"] /\ UNCHANGED <<work, records>>
      BY <2>3 DEF WriteLine, Reference
    <3> QED BY <3>1 DEF IInv, TypeOK
  <2>4. ASSUME Verify PROVE UNCHANGED <<entries, answers>>
    BY <2>4 DEF Verify, StartVerify, VerifyNext, VerifyEnds, caller
  <2>5. ASSUME Restart PROVE Log!Next
    <3>1. entries' = <<>>
      BY <2>5 DEF Restart
    <3>2. answers' = [c \in Callers |-> 0]
      BY <2>5 DEF Restart, Idle, NoRef, Genesis
    <3> QED BY <3>1, <3>2 DEF Log!Next, Log!Restart
  <2>6. ASSUME UNCHANGED vars PROVE UNCHANGED <<entries, answers>>
    BY <2>6 DEF vars, caller
  <2> QED BY <2>1, <2>2, <2>3, <2>4, <2>5, <2>6 DEF Next, Record
<1> QED BY <1>1, <1>2, Invariant, PTL DEF LogImplemented, Log!Spec, Spec

=============================================================================
