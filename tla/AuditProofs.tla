------------------------------ MODULE AuditProofs ------------------------------
(***************************************************************************)
(* Proofs about the audit trail for any number of workers, entries,        *)
(* acceptances and failures.  A transaction that holds the lock knows the  *)
(* end of the trail until it commits, because nobody else appends; hence   *)
(* AuditInv is inductive, the chain stays linear and grows at its end.     *)
(***************************************************************************)
EXTENDS Terms, FiniteSetTheorems, TLAPS

\* The shape of what a worker remembers.
Shape ==
  call = [w \in Workers |-> [step |-> call[w].step, entry |-> call[w].entry,
                             hashPrev |-> call[w].hashPrev, row |-> call[w].row]]

\* What the holder of the lock has read and inserted extends the trail as it is.
HolderExtends(w) ==
  /\ At(w, "insert") => call[w].hashPrev = lastHash(audit_log)
  /\ At(w, "commit") =>
       /\ call[w].row.seq \in 1 .. lastSeq
       /\ \A q \in audit_log : q.seq < call[w].row.seq
       /\ call[w].row.entry = call[w].entry
       /\ call[w].row.hashPrev = lastHash(audit_log)
       /\ call[w].row.hash = computeHash(call[w].row.hashPrev, call[w].row.entry)

\* The inductive invariant.
AuditInv ==
  /\ TypeOK /\ Shape
  /\ \A w \in Workers : HolderExtends(w)
  /\ ChainIsLinear

\* A row after all the others sees the whole trail before it, and is before none.
LEMMA AppendedLast ==
  ASSUME NEW rows, NEW r, \A q \in rows : q.seq \in Int /\ q.seq < r.seq, r.seq \in Int
  PROVE  /\ Before(rows \cup {r}, r.seq) = rows
         /\ \A q \in rows : Before(rows \cup {r}, q.seq) = Before(rows, q.seq)
BY DEF Before

\* So the chain with that row verifies when the row continues it.
LEMMA ChainExtended ==
  ASSUME NEW rows, NEW r, \A q \in rows : q.seq \in Int /\ q.seq < r.seq, r.seq \in Int,
         verifyChain(rows),
         r.hashPrev = lastHash(rows), r.hash = computeHash(r.hashPrev, r.entry)
  PROVE  verifyChain(rows \cup {r})
<1> SUFFICES ASSUME NEW q \in rows \cup {r}
             PROVE /\ q.hashPrev = lastHash(Before(rows \cup {r}, q.seq))
                   /\ q.hash = computeHash(q.hashPrev, q.entry)
  BY DEF verifyChain
<1>1. CASE q = r
  BY <1>1, AppendedLast
<1>2. CASE q \in rows
  BY <1>2, AppendedLast DEF verifyChain
<1> QED
  BY <1>1, <1>2

\* A worker's move changes the call of that worker alone, and keeps its shape.
OthersWait(w) == \A v \in Workers \ {w} : call'[v] = call[v]

LEMMA Moves ==
  ASSUME Shape, NEW w \in Workers
  PROVE  /\ \A step : Goto(w, step) =>
              Shape' /\ OthersWait(w)
              /\ call'[w].step = step /\ call'[w].entry = call[w].entry
         /\ Finish(w) => Shape' /\ OthersWait(w) /\ call'[w] = Idle
         /\ \A step, e : Begin(w, step, e) =>
              Shape' /\ OthersWait(w) /\ call'[w].step = step /\ call'[w].entry = e
<1>1. ASSUME NEW step, Goto(w, step)
      PROVE Shape' /\ OthersWait(w)
            /\ call'[w].step = step /\ call'[w].entry = call[w].entry
  BY <1>1, SMTT(30) DEF Shape, Goto, OthersWait
<1>2. ASSUME Finish(w) PROVE Shape' /\ OthersWait(w) /\ call'[w] = Idle
  BY <1>2 DEF Shape, Finish, Idle, Calling, OthersWait
<1>3. ASSUME NEW step, NEW e, Begin(w, step, e)
      PROVE Shape' /\ OthersWait(w) /\ call'[w].step = step /\ call'[w].entry = e
  BY <1>3 DEF Shape, Begin, Calling, OthersWait
<1> QED
  BY <1>1, <1>2, <1>3

\* A worker that is outside the transaction and stays outside leaves the trail, its
\* serial column and its lock alone, and with them what the holder knows.
LEMMA OutsideTheLock ==
  ASSUME AuditInv, UNCHANGED audit,
         NEW w \in Workers, Shape', OthersWait(w),
         call[w].step \notin {"read", "insert", "commit"},
         call'[w].step \in {"idle", "find", "accept", "lock"},
         call'[w].step # "idle" => call'[w].entry \in Entries,
         call'[w].step \in {"find", "accept"} => call'[w].entry \in Aceites,
         failures' \in 0 .. MaxFailures,
         terms_acceptances' \subseteq Aceites
  PROVE AuditInv'
<1>1. audit_log' = audit_log /\ lastSeq' = lastSeq /\ lock' = lock
  BY DEF audit
<1>2. TypeOK'
  BY <1>1 DEF AuditInv, TypeOK, At, Steps, OthersWait
<1>3. \A v \in Workers : HolderExtends(v)'
  BY <1>1 DEF AuditInv, HolderExtends, At, OthersWait
<1>4. ChainIsLinear'
  BY <1>1 DEF AuditInv, ChainIsLinear
<1> QED
  BY <1>2, <1>3, <1>4 DEF AuditInv

LEMMA InitEstablishes == Init => AuditInv
<1> SUFFICES ASSUME Init PROVE AuditInv
  OBVIOUS
<1>1. call = [w \in Workers |-> Idle] /\ audit_log = {} /\ lastSeq = 0 /\ lock = NoWorker
      /\ failures = 0 /\ terms_acceptances = {}
  BY DEF Init, AuditInit
<1>2. TypeOK
  BY <1>1, AuditAssumption DEF TypeOK, At, Idle, Calling, Steps
<1>3. Shape /\ (\A w \in Workers : HolderExtends(w))
  BY <1>1 DEF Shape, Idle, Calling, HolderExtends, At
<1>4. ChainIsLinear
  BY <1>1 DEF ChainIsLinear, verifyChain
<1> QED
  BY <1>2, <1>3, <1>4 DEF AuditInv

\* The steps outside the transaction.
LEMMA ServiceStep ==
  ASSUME AuditInv, NEW w \in Workers,
         \/ \E a \in Aceites : Accept(w, a)
         \/ FindAcceptance(w) \/ InsertAcceptance(w)
         \/ \E e \in Entries \ Aceites : Record(w, e)
  PROVE AuditInv'
<1> USE Moves DEF At
<1>0. /\ Shape
      /\ failures \in 0 .. MaxFailures /\ terms_acceptances \subseteq Aceites
      /\ call[w].step # "idle" => call[w].entry \in Entries
      /\ call[w].step \in {"find", "accept"} => call[w].entry \in Aceites
  BY DEF AuditInv, TypeOK
<1>1. CASE \E a \in Aceites : Accept(w, a)
  BY <1>0, <1>1, OutsideTheLock, TermsAssumption DEF Accept
<1>2. CASE FindAcceptance(w)
  BY <1>0, <1>2, OutsideTheLock DEF FindAcceptance, Idle, Calling
<1>3. CASE InsertAcceptance(w)
  <2>1. terms_acceptances' \subseteq Aceites
    BY <1>0, <1>3 DEF InsertAcceptance
  <2> QED
    BY <1>0, <1>3, <2>1, OutsideTheLock DEF InsertAcceptance, Idle, Calling
<1>4. CASE \E e \in Entries \ Aceites : Record(w, e)
  BY <1>0, <1>4, OutsideTheLock DEF Record
<1> QED
  BY <1>1, <1>2, <1>3, <1>4

\* The steps of the transaction.
LEMMA LockStep == ASSUME AuditInv, NEW w \in Workers, Lock(w), UNCHANGED terms_acceptances
                  PROVE AuditInv'
<1> USE DEF At, OthersWait
<1>0. /\ Shape /\ TypeOK /\ ChainIsLinear /\ \A v \in Workers : HolderExtends(v)
      /\ At(w, "lock") /\ lock = NoWorker /\ lock' = w
      /\ Shape' /\ OthersWait(w) /\ call'[w].step = "read" /\ call'[w].entry = call[w].entry
      /\ UNCHANGED <<audit_log, lastSeq, failures, terms_acceptances>>
  BY Moves DEF AuditInv, Lock
<1>1. TypeOK'
  BY <1>0, AuditAssumption DEF TypeOK, Steps
<1>2. \A v \in Workers : HolderExtends(v)'
  BY <1>0 DEF HolderExtends
<1>3. ChainIsLinear'
  BY <1>0 DEF ChainIsLinear
<1> QED
  BY <1>0, <1>1, <1>2, <1>3 DEF AuditInv

LEMMA ReadStep == ASSUME AuditInv, NEW w \in Workers, ReadLast(w), UNCHANGED terms_acceptances
                  PROVE AuditInv'
<1> USE DEF At, OthersWait
<1>0. /\ Shape /\ TypeOK /\ ChainIsLinear /\ \A v \in Workers : HolderExtends(v)
      /\ At(w, "read")
      /\ call' = [call EXCEPT ![w] = [step |-> "insert", entry |-> call[w].entry,
                                      hashPrev |-> lastHash(audit_log), row |-> NoRow]]
      /\ UNCHANGED <<audit_log, lastSeq, lock, failures, terms_acceptances>>
  BY DEF AuditInv, ReadLast, audit
<1>1. /\ Shape' /\ OthersWait(w) /\ call'[w].step = "insert"
      /\ call'[w].entry = call[w].entry /\ call'[w].hashPrev = lastHash(audit_log)
  BY <1>0 DEF Shape
<1>2. TypeOK'
  BY <1>0, <1>1 DEF TypeOK, Steps
<1>3. \A v \in Workers : HolderExtends(v)'
  BY <1>0, <1>1 DEF HolderExtends
<1>4. ChainIsLinear'
  BY <1>0 DEF ChainIsLinear
<1> QED
  BY <1>1, <1>2, <1>3, <1>4 DEF AuditInv

LEMMA InsertStep == ASSUME AuditInv, NEW w \in Workers, InsertRow(w), UNCHANGED terms_acceptances
                    PROVE AuditInv'
<1> USE DEF At, OthersWait
<1>0. /\ Shape /\ TypeOK /\ ChainIsLinear /\ \A v \in Workers : HolderExtends(v)
      /\ At(w, "insert") /\ lock = w /\ call[w].hashPrev = lastHash(audit_log)
      /\ call[w].entry \in Entries
      /\ lastSeq \in Nat /\ lastSeq' = lastSeq + 1 /\ lastSeq' \in 0 .. MaxSeq
      /\ \A v \in Workers \ {w} : call[v].step \notin {"read", "insert", "commit"}
      /\ UNCHANGED <<audit_log, failures, terms_acceptances>>
  BY AuditAssumption DEF AuditInv, TypeOK, InsertRow, HolderExtends
<1>1. \A r \in audit_log : r.seq \in 1 .. lastSeq' /\ r.seq < lastSeq + 1 /\ r.entry \in Entries
  BY <1>0 DEF TypeOK
<1>2. CASE Finish(w) /\ lock' = IF lock = w THEN NoWorker ELSE lock
  <2>1. /\ Shape' /\ OthersWait(w) /\ call'[w].step = "idle" /\ lock' = NoWorker
    BY <1>0, <1>2, Moves DEF Idle, Calling
  <2>2. TypeOK'
    BY <1>0, <1>1, <2>1, AuditAssumption DEF TypeOK, Steps
  <2>3. \A v \in Workers : HolderExtends(v)'
    BY <1>0, <2>1 DEF HolderExtends
  <2>4. ChainIsLinear'
    BY <1>0 DEF ChainIsLinear
  <2> QED
    BY <2>1, <2>2, <2>3, <2>4 DEF AuditInv
<1>3. CASE /\ call' = [call EXCEPT ![w] =
                 [step |-> "commit", entry |-> call[w].entry, hashPrev |-> call[w].hashPrev,
                  row |-> [seq |-> lastSeq + 1, entry |-> call[w].entry,
                           hashPrev |-> call[w].hashPrev,
                           hash |-> computeHash(call[w].hashPrev, call[w].entry)]]]
           /\ UNCHANGED lock
  <2>1. /\ Shape' /\ OthersWait(w)
        /\ call'[w].step = "commit" /\ call'[w].entry = call[w].entry
        /\ call'[w].row = [seq |-> lastSeq + 1, entry |-> call[w].entry,
                           hashPrev |-> call[w].hashPrev,
                           hash |-> computeHash(call[w].hashPrev, call[w].entry)]
    BY <1>0, <1>3 DEF Shape
  <2>2. TypeOK'
    BY <1>0, <1>1, <1>3, <2>1 DEF TypeOK, Steps
  <2>3. HolderExtends(w)'
    <3>1. lastSeq + 1 \in 1 .. lastSeq'
      BY <1>0
    <3> QED
      BY <1>0, <1>1, <2>1, <3>1 DEF HolderExtends
  <2>4. \A v \in Workers \ {w} : HolderExtends(v)'
    BY <1>0, <2>1 DEF HolderExtends
  <2>5. ChainIsLinear'
    BY <1>0 DEF ChainIsLinear
  <2> QED
    BY <2>1, <2>2, <2>3, <2>4, <2>5 DEF AuditInv
<1> QED
  BY <1>2, <1>3 DEF InsertRow

LEMMA CommitStep == ASSUME AuditInv, NEW w \in Workers, Commit(w), UNCHANGED terms_acceptances
                    PROVE  /\ AuditInv'
                           /\ audit_log \subseteq audit_log'
                           /\ \A r \in audit_log' \ audit_log : \A q \in audit_log : q.seq < r.seq
<1> USE DEF At, OthersWait
<1> DEFINE row == call[w].row
<1>0. /\ Shape /\ TypeOK /\ ChainIsLinear
      /\ At(w, "commit") /\ lock = w /\ lock' = NoWorker
      /\ audit_log' = audit_log \cup {row}
      /\ \A v \in Workers \ {w} : call[v].step \notin {"read", "insert", "commit"}
      /\ UNCHANGED <<lastSeq, failures, terms_acceptances>>
  BY DEF AuditInv, TypeOK, Commit
<1>1. /\ row.seq \in 1 .. lastSeq /\ row.entry \in Entries
      /\ \A q \in audit_log : q.seq \in 1 .. lastSeq /\ q.seq < row.seq /\ q.entry \in Entries
      /\ row.hashPrev = lastHash(audit_log)
      /\ row.hash = computeHash(row.hashPrev, row.entry)
  BY <1>0 DEF AuditInv, HolderExtends, TypeOK
<1>2. lastSeq \in Int
  BY <1>0 DEF TypeOK
<1>3. /\ Shape' /\ OthersWait(w) /\ call'[w].step = "idle"
  BY <1>0, Moves DEF Commit, Idle, Calling
<1>4. TypeOK'
  BY <1>0, <1>1, <1>3, AuditAssumption DEF TypeOK, Steps
<1>5. \A v \in Workers : HolderExtends(v)'
  BY <1>0, <1>3 DEF HolderExtends
<1>6. ChainIsLinear'
  <2>1. verifyChain(audit_log \cup {row})
    <3>1. row.seq \in Int /\ \A q \in audit_log : q.seq \in Int /\ q.seq < row.seq
      BY <1>1, <1>2
    <3>2. verifyChain(audit_log)
      BY <1>0 DEF ChainIsLinear
    <3> HIDE DEF row
    <3> QED
      BY <1>1, <3>1, <3>2, ChainExtended
  <2> QED
    BY <1>0, <2>1 DEF ChainIsLinear
<1> QED
  BY <1>0, <1>1, <1>3, <1>4, <1>5, <1>6 DEF AuditInv

LEMMA RollbackStep == ASSUME AuditInv, NEW w \in Workers, Rollback(w), UNCHANGED terms_acceptances
                      PROVE AuditInv'
<1> USE DEF At, OthersWait
<1>0. /\ Shape /\ TypeOK /\ ChainIsLinear /\ \A v \in Workers : HolderExtends(v)
      /\ failures' \in 0 .. MaxFailures
      /\ lock' = IF lock = w THEN NoWorker ELSE lock
      /\ Shape' /\ OthersWait(w) /\ call'[w].step = "idle"
      /\ UNCHANGED <<audit_log, lastSeq, terms_acceptances>>
  BY Moves, AuditAssumption DEF AuditInv, TypeOK, Rollback, Idle, Calling
<1>1. TypeOK'
  BY <1>0, AuditAssumption DEF TypeOK, Steps
<1>2. \A v \in Workers : HolderExtends(v)'
  BY <1>0 DEF HolderExtends
<1>3. ChainIsLinear'
  BY <1>0 DEF ChainIsLinear
<1> QED
  BY <1>0, <1>1, <1>2, <1>3 DEF AuditInv

--------------------------------------------------------------------------------

LEMMA StepKeepsInv == AuditInv /\ [Next]_vars => AuditInv'
<1> SUFFICES ASSUME AuditInv, [Next]_vars PROVE AuditInv'
  OBVIOUS
<1>1. CASE Next
  <2>1. PICK w \in Workers :
          \/ AppendStep(w) /\ UNCHANGED terms_acceptances
          \/ Rollback(w) /\ UNCHANGED terms_acceptances
          \/ \E a \in Aceites : Accept(w, a)
          \/ FindAcceptance(w) \/ InsertAcceptance(w)
          \/ \E e \in Entries \ Aceites : Record(w, e)
    BY <1>1 DEF Next
  <2> QED
    BY <2>1, LockStep, ReadStep, InsertStep, CommitStep, RollbackStep, ServiceStep
       DEF AppendStep
<1>2. CASE UNCHANGED vars
  <2>1. UNCHANGED <<audit_log, lastSeq, lock, call, failures, terms_acceptances>>
    BY <1>2 DEF vars, audit
  <2> QED
    BY <2>1 DEF AuditInv, TypeOK, Shape, HolderExtends, ChainIsLinear, At
<1> QED
  BY <1>1, <1>2

LEMMA AuditInvariance == Spec => []AuditInv
BY InitEstablishes, StepKeepsInv, PTL DEF Spec

\* The lock has at most one holder, and the transaction nobody outside it
\* (pg_advisory_xact_lock); what services accept and record is well formed.
THEOREM TermsTypeCorrect == Spec => []TypeOK
<1>1. AuditInv => TypeOK
  BY DEF AuditInv
<1> QED
  BY <1>1, AuditInvariance, PTL

\* The chain verifies after every step, for any number of concurrent appends and
\* failures (append, verifyChain).
THEOREM TrailIsLinear == Spec => []ChainIsLinear
<1>1. AuditInv => ChainIsLinear
  BY DEF AuditInv
<1> QED
  BY <1>1, AuditInvariance, PTL

\* Only a commit changes the trail, and it appends (append, schema/audit-log.ts).
LEMMA OnlyCommitAppends ==
  ASSUME AuditInv, [Next]_vars
  PROVE  [/\ audit_log \subseteq audit_log'
          /\ \A r \in audit_log' \ audit_log : \A q \in audit_log : q.seq < r.seq]_audit_log
<1>1. CASE \E w \in Workers : Commit(w) /\ UNCHANGED terms_acceptances
  BY <1>1, CommitStep
<1>2. CASE ~\E w \in Workers : Commit(w) /\ UNCHANGED terms_acceptances
  <2>1. audit_log' = audit_log
    BY <1>2 DEF Next, vars, audit, AppendStep, Lock, ReadLast, InsertRow, Rollback, Accept,
                FindAcceptance, InsertAcceptance, Record
  <2> QED
    BY <2>1
<1> QED
  BY <1>1, <1>2

\* The trail keeps its rows and grows at its end.
THEOREM TrailIsAppendOnly == Spec => AppendOnly
<1>1. AuditInv /\ [Next]_vars =>
        [/\ audit_log \subseteq audit_log'
         /\ \A r \in audit_log' \ audit_log : \A q \in audit_log : q.seq < r.seq]_audit_log
  BY OnlyCommitAppends
<1> QED
  BY <1>1, AuditInvariance, PTL DEF Spec, AppendOnly

--------------------------------------------------------------------------------
(* An acceptance is recorded once *)

Appending(w, a) ==
  call[w].step \in {"lock", "read", "insert", "commit"} /\ call[w].entry = a

\* The trail has a last row; an accepted pair is in the trail or on its way there in
\* one call, unless a call failed, and never both.
RecordInv ==
  /\ audit_log # {} => \E r \in audit_log : \A q \in audit_log : q.seq <= r.seq
  /\ \A a \in Aceites :
       /\ \A r \in audit_log : r.entry = a => a \in terms_acceptances
       /\ \A r, q \in audit_log : r.entry = a /\ q.entry = a => r = q
       /\ \A w \in Workers : Appending(w, a) =>
            /\ a \in terms_acceptances
            /\ \A r \in audit_log : r.entry # a
            /\ \A v \in Workers : Appending(v, a) => v = w
       /\ failures = 0 /\ a \in terms_acceptances =>
            (\E r \in audit_log : r.entry = a) \/ (\E w \in Workers : Appending(w, a))

\* The trail and what is on its way there are as they were.
LEMMA NothingAppended ==
  ASSUME RecordInv, UNCHANGED <<audit_log, terms_acceptances>>, failures' = 0 => failures = 0,
         \A v \in Workers, a \in Aceites : Appending(v, a)' => Appending(v, a),
         failures' = 0 => \A v \in Workers, a \in Aceites : Appending(v, a) => Appending(v, a)'
  PROVE  RecordInv'
BY DEF RecordInv

\* A row that continues a trail that is not empty has a predecessor to point at, so
\* the insert is never refused.
LEMMA NeverRefused ==
  ASSUME AuditInv, RecordInv, audit_log # {}
  PROVE  lastHash(audit_log) # <<>>
<1>1. LastOf(audit_log) \in audit_log
  BY DEF RecordInv, LastOf
<1>2. \A h, e : computeHash(h, e) = Append(h, e)
  BY DEF computeHash
<1>3. lastHash(audit_log) = LastOf(audit_log).hash
  BY DEF lastHash
<1> QED
  BY <1>1, <1>2, <1>3 DEF AuditInv, ChainIsLinear, verifyChain

\* The entry of a call does not change before the call ends.
LEMMA RecordLock ==
  ASSUME AuditInv, RecordInv, NEW w \in Workers, Lock(w) \/ ReadLast(w),
         UNCHANGED terms_acceptances
  PROVE  RecordInv'
<1>1. /\ OthersWait(w) /\ call[w].step \in {"lock", "read"}
      /\ call'[w].step \in {"read", "insert"} /\ call'[w].entry = call[w].entry
      /\ UNCHANGED <<audit_log, failures>>
  <2>1. CASE Lock(w)
    BY <2>1, Moves DEF AuditInv, Lock, At
  <2>2. CASE ReadLast(w)
    BY <2>2 DEF AuditInv, Shape, ReadLast, At, audit, OthersWait
  <2> QED
    BY <2>1, <2>2
<1>2. \A v \in Workers, a \in Aceites : Appending(v, a)' <=> Appending(v, a)
  BY <1>1 DEF Appending, OthersWait
<1> QED
  BY <1>1, <1>2, NothingAppended

LEMMA RecordInsert ==
  ASSUME AuditInv, RecordInv, NEW w \in Workers, InsertRow(w), UNCHANGED terms_acceptances
  PROVE  RecordInv'
<1>1. ~(call[w].hashPrev = <<>> /\ \E r \in audit_log : r.hashPrev = <<>>)
  <2>1. At(w, "insert") => call[w].hashPrev = lastHash(audit_log)
    BY DEF AuditInv, HolderExtends
  <2> QED
    BY <2>1, NeverRefused DEF InsertRow
<1>2. /\ OthersWait(w) /\ call[w].step = "insert"
      /\ call'[w].step = "commit" /\ call'[w].entry = call[w].entry
      /\ UNCHANGED <<audit_log, failures>>
  BY <1>1 DEF AuditInv, Shape, InsertRow, At, OthersWait
<1>3. \A v \in Workers, a \in Aceites : Appending(v, a)' <=> Appending(v, a)
  BY <1>2 DEF Appending, OthersWait
<1> QED
  BY <1>2, <1>3, NothingAppended

LEMMA RecordCommit ==
  ASSUME AuditInv, RecordInv, NEW w \in Workers, Commit(w), UNCHANGED terms_acceptances
  PROVE  RecordInv'
<1> DEFINE row == call[w].row
<1>1. /\ audit_log' = audit_log \cup {row} /\ failures' = failures
      /\ \A q \in audit_log : q.seq < row.seq /\ q.seq \in Int /\ q.entry \in Entries
      /\ row.seq \in Int /\ row.entry = call[w].entry
      /\ At(w, "commit")
  BY DEF Commit, AuditInv, HolderExtends, TypeOK
<1>2. OthersWait(w) /\ call'[w].step = "idle"
  BY Moves DEF AuditInv, Commit, Idle, Calling
<1>3. \A v \in Workers, a \in Aceites :
        Appending(v, a)' <=> Appending(v, a) /\ v # w
  BY <1>2 DEF Appending, OthersWait
<1>4. \A a \in Aceites : Appending(w, a) <=> row.entry = a
  BY <1>1 DEF Appending, At
<1> HIDE DEF row
<1>5. \A q \in audit_log' : q.seq <= row.seq
  BY <1>1
<1> QED
  BY <1>1, <1>3, <1>4, <1>5 DEF RecordInv

LEMMA RecordRollback ==
  ASSUME AuditInv, RecordInv, NEW w \in Workers, Rollback(w), UNCHANGED terms_acceptances
  PROVE  RecordInv'
<1>1. OthersWait(w) /\ call'[w].step = "idle"
      /\ UNCHANGED audit_log /\ failures' # 0
  BY Moves, AuditAssumption DEF AuditInv, TypeOK, Rollback, Idle, Calling
<1>2. \A v \in Workers, a \in Aceites : Appending(v, a)' => Appending(v, a)
  BY <1>1 DEF Appending, OthersWait
<1> QED
  BY <1>1, <1>2, NothingAppended

LEMMA RecordService ==
  ASSUME AuditInv, RecordInv, NEW w \in Workers,
         \/ \E a \in Aceites : Accept(w, a)
         \/ FindAcceptance(w)
         \/ \E e \in Entries \ Aceites : Record(w, e)
  PROVE  RecordInv'
<1>1. /\ OthersWait(w) /\ call[w].step \in {"idle", "find"}
      /\ call'[w].step \in {"idle", "find", "accept", "lock"}
      /\ call'[w].step = "lock" => call'[w].entry \in Entries \ Aceites
      /\ UNCHANGED <<audit_log, failures, terms_acceptances>>
  BY Moves DEF AuditInv, Accept, FindAcceptance, Record, At, Idle, Calling, audit
<1>2. \A v \in Workers, a \in Aceites : Appending(v, a)' <=> Appending(v, a)
  BY <1>1 DEF Appending, OthersWait
<1> QED
  BY <1>1, <1>2, NothingAppended

LEMMA RecordAcceptance ==
  ASSUME AuditInv, RecordInv, NEW w \in Workers, InsertAcceptance(w)
  PROVE  RecordInv'
<1> DEFINE new == call[w].entry
<1>1. /\ OthersWait(w) /\ call[w].step = "accept" /\ new \in Aceites
      /\ terms_acceptances' = terms_acceptances \cup {new}
      /\ UNCHANGED <<audit_log, failures>>
      /\ IF new \in terms_acceptances THEN call'[w].step = "idle"
         ELSE call'[w].step = "lock" /\ call'[w].entry = new
  BY Moves DEF AuditInv, TypeOK, InsertAcceptance, At, Idle, Calling, audit
<1>2. CASE new \in terms_acceptances
  <2>1. \A v \in Workers, a \in Aceites : Appending(v, a)' <=> Appending(v, a)
    BY <1>1, <1>2 DEF Appending, OthersWait
  <2>2. terms_acceptances' = terms_acceptances
    BY <1>1, <1>2
  <2> QED
    BY <1>1, <2>1, <2>2, NothingAppended
<1>3. CASE new \notin terms_acceptances
  <2>1. \A v \in Workers, a \in Aceites :
          Appending(v, a)' <=> Appending(v, a) \/ (v = w /\ a = new)
    BY <1>1, <1>3 DEF Appending, OthersWait
  <2> HIDE DEF new
  <2> QED
    BY <1>1, <1>3, <2>1 DEF RecordInv
<1> QED
  BY <1>2, <1>3

LEMMA RecordInvariance == Spec => [](AuditInv /\ RecordInv)
<1>1. Init => AuditInv /\ RecordInv
  <2>1. Init => RecordInv
    BY DEF Init, AuditInit, RecordInv, Appending, Idle, Calling
  <2> QED
    BY <2>1, InitEstablishes
<1>2. (AuditInv /\ RecordInv) /\ [Next]_vars => (AuditInv /\ RecordInv)'
  <2> SUFFICES ASSUME AuditInv, RecordInv, [Next]_vars PROVE RecordInv'
    BY StepKeepsInv
  <2>1. CASE Next
    <3>1. PICK w \in Workers :
            \/ AppendStep(w) /\ UNCHANGED terms_acceptances
            \/ Rollback(w) /\ UNCHANGED terms_acceptances
            \/ \E a \in Aceites : Accept(w, a)
            \/ FindAcceptance(w) \/ InsertAcceptance(w)
            \/ \E e \in Entries \ Aceites : Record(w, e)
      BY <2>1 DEF Next
    <3> QED
      BY <3>1, RecordLock, RecordInsert, RecordCommit, RecordRollback, RecordService,
         RecordAcceptance DEF AppendStep
  <2>2. CASE UNCHANGED vars
    <3>1. UNCHANGED <<audit_log, call, failures, terms_acceptances>>
      BY <2>2 DEF vars, audit
    <3> QED
      BY <3>1 DEF RecordInv, Appending
  <2> QED
    BY <2>1, <2>2
<1> QED
  BY <1>1, <1>2, PTL DEF Spec

\* An acceptance enters the trail at most once, only if it was accepted, and when
\* nothing failed always (accept and its unique index, append).
THEOREM AcceptanceRecordedOnce == Spec => []RecordedOnce
<1>1. ASSUME RecordInv, NEW a \in Aceites
      PROVE  /\ Cardinality(RowsOf(a)) <= 1
             /\ RowsOf(a) # {} => a \in terms_acceptances
             /\ Quiet /\ failures = 0 /\ a \in terms_acceptances => RowsOf(a) # {}
  <2>1. CASE RowsOf(a) = {}
    <3>1. Cardinality(RowsOf(a)) = 0
      BY <2>1, FS_EmptySet
    <3>2. Quiet => ~\E w \in Workers : Appending(w, a)
      BY DEF Quiet, At, Appending
    <3> QED
      BY <1>1, <2>1, <3>1, <3>2 DEF RecordInv, RowsOf
  <2>2. CASE RowsOf(a) # {}
    <3>1. PICK r \in RowsOf(a) : TRUE
      BY <2>2
    <3>2. RowsOf(a) = {r}
      BY <1>1, <3>1 DEF RecordInv, RowsOf
    <3>3. Cardinality(RowsOf(a)) = 1
      BY <3>2, FS_Singleton
    <3> QED
      BY <1>1, <2>2, <3>1, <3>3 DEF RecordInv, RowsOf
  <2> QED
    BY <2>1, <2>2
<1>2. RecordInv => RecordedOnce
  BY <1>1 DEF RecordedOnce
<1> QED
  BY <1>2, RecordInvariance, PTL

===============================================================================
