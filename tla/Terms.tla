--------------------------------- MODULE Terms ---------------------------------
(***************************************************************************)
(* The acceptance of a booking's terms, a service over Audit: it asks for  *)
(* the acceptance, inserts it under a unique index and records it in the   *)
(* trail, in three steps and no common transaction.  The other services    *)
(* that record enter as their appends alone.                               *)
(***************************************************************************)
EXTENDS Audit

CONSTANT Aceites   \* a booking and one of its two participants

ASSUME TermsAssumption == Aceites \subseteq Entries

VARIABLE terms_acceptances

vars == <<audit, call, failures, terms_acceptances>>

Steps == {"idle", "find", "accept", "lock", "read", "insert", "commit"}

TypeOK ==
  /\ lastSeq \in 0 .. MaxSeq /\ failures \in 0 .. MaxFailures
  /\ lock \in Workers \cup {NoWorker}
  /\ \A r \in audit_log : r.seq \in 1 .. lastSeq /\ r.entry \in Entries
  /\ \A w \in Workers :
       /\ call[w].step \in Steps
       /\ ~At(w, "idle") => call[w].entry \in Entries
       /\ call[w].step \in {"find", "accept"} => call[w].entry \in Aceites
       /\ lock = w <=> call[w].step \in {"read", "insert", "commit"}
  /\ terms_acceptances \subseteq Aceites

Init == AuditInit /\ terms_acceptances = {}

Begin(w, step, e) == call' = [call EXCEPT ![w] = Calling(step, e)]

--------------------------------------------------------------------------------

\* accept, by a participant of the booking.
Accept(w, a) ==
  /\ At(w, "idle")
  /\ Begin(w, "find", a)
  /\ UNCHANGED <<audit, failures, terms_acceptances>>

FindAcceptance(w) ==
  /\ At(w, "find")
  /\ IF call[w].entry \in terms_acceptances THEN Finish(w) ELSE Goto(w, "accept")
  /\ UNCHANGED <<audit, failures, terms_acceptances>>

\* Mutated: the insert does not look at the unique index.
InsertAcceptanceAnyway(w) ==
  /\ At(w, "accept")
  /\ terms_acceptances' = terms_acceptances \cup {call[w].entry}
  /\ Goto(w, "lock")
  /\ UNCHANGED <<audit, failures>>

\* The insert: the unique index on booking and user refuses the second.
InsertAcceptance(w) ==
  /\ At(w, "accept")
  /\ IF call[w].entry \in terms_acceptances THEN Finish(w) ELSE Goto(w, "lock")
  /\ terms_acceptances' = terms_acceptances \cup {call[w].entry}
  /\ UNCHANGED <<audit, failures>>

\* record, called by another service.
Record(w, e) ==
  /\ At(w, "idle")
  /\ Begin(w, "lock", e)
  /\ UNCHANGED <<audit, failures, terms_acceptances>>

Next ==
  \E w \in Workers :
    \/ AppendStep(w) /\ UNCHANGED terms_acceptances
    \/ Rollback(w) /\ UNCHANGED terms_acceptances
    \/ \E a \in Aceites : Accept(w, a)
    \/ FindAcceptance(w) \/ InsertAcceptance(w)
    \/ \E e \in Entries \ Aceites : Record(w, e)

Spec == Init /\ [][Next]_vars

--------------------------------------------------------------------------------
(* Properties *)

RowsOf(a) == {r \in audit_log : r.entry = a}
Quiet == \A w \in Workers : At(w, "idle")

\* "Append-only + idempotente (UNIQUE booking+user) e gera o evento na trilha":
\* however often the acceptance is sent, it is in the trail at most once and only if
\* it was accepted, and when nothing failed it is there once the calls have ended.
RecordedOnce ==
  \A a \in Aceites :
    /\ Cardinality(RowsOf(a)) <= 1
    /\ RowsOf(a) # {} => a \in terms_acceptances
    /\ Quiet /\ failures = 0 /\ a \in terms_acceptances => RowsOf(a) # {}

--------------------------------------------------------------------------------
(* What the documentation says and the code does not keep *)

\* "Registra o aceite [...] e gera o evento na trilha de auditoria" (terms.service.ts):
\* an acceptance is in the trail once the calls have ended.
AcceptedIsRecorded ==
  Quiet => \A a \in terms_acceptances : RowsOf(a) # {}

================================================================================
