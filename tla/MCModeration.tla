------------------------------ MODULE MCModeration ------------------------------
(***************************************************************************)
(* Instances of Moderation for TLC.  A window, a suspension and a          *)
(* precaution last a day.                                                  *)
(***************************************************************************)
EXTENDS Moderation, TLC

CONSTANTS c1, c2, p1, nobody, w1, w2, m1, m2

TwoBookings == {<<c1, p1>>, <<c2, p1>>}
TwoWorkers == {w1, w2}
TwoModerators == {m1, m2}

NoReports == \A i \in ReportIds : reports[i].status = "AUSENTE"
NoReviews == \A r \in ReviewIds : reviews[r].status = "AUSENTE"
OneReport == \A i \in ReportIds \ {1} : reports[i].status = "AUSENTE"
OneHandler ==
  Cardinality({w \in Workers : ~Free(w)}) + Cardinality({m \in Moderators : ~Available(m)}) <= 1
NoSuspension == \A s \in SuspensionIds : suspensions[s].status = "AUSENTE"

OneBooking == \A r \in ReviewIds : r[1] = <<c1, p1>> \/ reviews[r].status = "AUSENTE"
TopMarks == \A r \in ReviewIds : reviews[r].nota \in {0, 5}

\* What is explored: one booking without reports; two bookings of the professional on
\* the day they were completed, whose badges are granted and revoked by two handlers
\* at a time; reports without reviews; and one report among the reviews, one handler
\* at a time and before any suspension.
Scenario ==
  \/ NoReports /\ OneBooking /\ TopMarks
  \/ NoReports /\ failures = 0 /\ now = 0 /\ responses = {}
  \/ NoReviews /\ ReputationQuiet
  \/ OneReport /\ OneHandler /\ NoSuspension /\ OneBooking /\ TopMarks

StaffSymmetry == Permutations(Workers) \cup Permutations(Moderators)

================================================================================
