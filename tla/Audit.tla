--------------------------------- MODULE Audit ---------------------------------
(***************************************************************************)
(* The audit trail of ObraCerta: rows chained by a hash of their           *)
(* predecessor's hash and their own content, appended by every service,    *)
(* each append in a transaction that first takes an advisory lock.         *)
(*                                                                         *)
(* A hash stands for what is hashed: the contents of the row and of those  *)
(* before it (no collisions).  A null hashPrev is the empty sequence, as   *)
(* it is the empty string in what is hashed.  The trail is the set of its  *)
(* committed rows; a worker's row is its own until its commit.             *)
(***************************************************************************)
EXTENDS Integers, Sequences, FiniteSets

CONSTANTS
  Workers,      \* names for the calls in progress
  Entries,      \* what services record: an action, its actor, its entity, its data
  NoEntry,
  NoWorker,     \* nobody holds the lock
  MaxSeq,       \* bound: values of the serial column
  MaxFailures   \* bound: transactions that fail

ASSUME AuditAssumption ==
  /\ NoWorker \notin Workers
  /\ MaxSeq \in Nat /\ MaxFailures \in Nat

VARIABLES
  audit_log,   \* the committed rows
  lastSeq,     \* the serial column: a value is never given twice, not even after a rollback
  lock,        \* the holder of AUDIT_LOCK_KEY
  call,        \* of each worker: step, entry, hashPrev and the row inserted
  failures

audit == <<audit_log, lastSeq, lock>>

NoRow == [seq |-> 0, entry |-> NoEntry, hashPrev |-> <<>>, hash |-> <<>>]
Calling(step, entry) == [step |-> step, entry |-> entry, hashPrev |-> <<>>, row |-> NoRow]
Idle == Calling("idle", NoEntry)

AuditInit ==
  /\ audit_log = {} /\ lastSeq = 0 /\ lock = NoWorker
  /\ call = [w \in Workers |-> Idle]
  /\ failures = 0

At(w, step) == call[w].step = step
Goto(w, step) == call' = [call EXCEPT ![w].step = step]
Finish(w) == call' = [call EXCEPT ![w] = Idle]

--------------------------------------------------------------------------------
(* The chain *)

computeHash(hashPrev, entry) == Append(hashPrev, entry)

\* The row before an instant of the serial column, when there is one.
Before(rows, seq) == {r \in rows : r.seq < seq}
LastOf(rows) == CHOOSE r \in rows : \A q \in rows : q.seq <= r.seq
lastHash(rows) == IF rows = {} THEN <<>> ELSE LastOf(rows).hash

\* verifyChain over listOrdered: the rows by seq, each one against the one before it.
verifyChain(rows) ==
  \A r \in rows :
    /\ r.hashPrev = lastHash(Before(rows, r.seq))
    /\ r.hash = computeHash(r.hashPrev, r.entry)

--------------------------------------------------------------------------------
(* append, one action per statement of its transaction *)

\* Mutated: the appends are not serialised.
LockNothing(w) ==
  /\ At(w, "lock")
  /\ Goto(w, "read")
  /\ UNCHANGED <<audit_log, lastSeq, lock, failures>>

\* pg_advisory_xact_lock
Lock(w) ==
  /\ At(w, "lock") /\ lock = NoWorker
  /\ lock' = w
  /\ Goto(w, "read")
  /\ UNCHANGED <<audit_log, lastSeq, failures>>

ReadLast(w) ==
  /\ At(w, "read")
  /\ call' = [call EXCEPT ![w] = [step |-> "insert", entry |-> call[w].entry,
                                  hashPrev |-> lastHash(audit_log), row |-> NoRow]]
  /\ UNCHANGED <<audit, failures>>

\* The row, not yet visible to others; a second first row waits for nobody and is
\* refused (audit_single_genesis_idx).
InsertRow(w) ==
  /\ At(w, "insert") /\ lastSeq < MaxSeq
  /\ lastSeq' = lastSeq + 1
  /\ IF call[w].hashPrev = <<>> /\ (\E r \in audit_log : r.hashPrev = <<>>)
       THEN /\ Finish(w)
            /\ lock' = IF lock = w THEN NoWorker ELSE lock
       ELSE /\ call' = [call EXCEPT ![w] =
                 [step |-> "commit", entry |-> call[w].entry, hashPrev |-> call[w].hashPrev,
                  row |-> [seq |-> lastSeq + 1, entry |-> call[w].entry,
                           hashPrev |-> call[w].hashPrev,
                           hash |-> computeHash(call[w].hashPrev, call[w].entry)]]]
            /\ UNCHANGED lock
  /\ UNCHANGED <<audit_log, failures>>

\* The commit, which releases the lock.
Commit(w) ==
  /\ At(w, "commit")
  /\ audit_log' = audit_log \cup {call[w].row}
  /\ lock' = IF lock = w THEN NoWorker ELSE lock
  /\ Finish(w)
  /\ UNCHANGED <<lastSeq, failures>>

\* A statement throws, or the process dies: the transaction is rolled back, and what
\* the service did before it stays.
Rollback(w) ==
  /\ ~At(w, "idle")
  /\ failures < MaxFailures /\ failures' = failures + 1
  /\ Finish(w)
  /\ lock' = IF lock = w THEN NoWorker ELSE lock
  /\ UNCHANGED <<audit_log, lastSeq>>

AppendStep(w) == Lock(w) \/ ReadLast(w) \/ InsertRow(w) \/ Commit(w)

--------------------------------------------------------------------------------
(* Properties *)

\* "serializa appends concorrentes (cadeia linear, sem ramificação)": the chain
\* verifies in every state, whatever the interleaving of the appends and whichever of
\* them fail.
ChainIsLinear == verifyChain(audit_log)

\* "Trilha de auditoria imutável [...] APPEND-ONLY", and "seq dá ordem total": the
\* trail keeps its rows, and a row that appears comes after all that were there.
AppendOnly ==
  [][/\ audit_log \subseteq audit_log'
     /\ \A r \in audit_log' \ audit_log : \A q \in audit_log : q.seq < r.seq]_audit_log

================================================================================
