------------------------------- MODULE MCBooking -------------------------------
(***************************************************************************)
(* Instances of Booking for TLC.  Windows last two hours, so of the dates  *)
(* 1, 2 and 3 the neighbours overlap and the others do not; the expiry is  *)
(* scaled down to an hour.  Scenario is the constraint of the safety run:  *)
(* TLC goes no further than the states of one of two stories.              *)
(***************************************************************************)
EXTENDS Booking, TLC

CONSTANTS prof, cont, nobody, w1, w2

TwoWorkers == {w1, w2}
ThreeDates == {1, 2, 3}

WorkersSymmetry == Permutations(Workers)

Reserved == {b \in BookingIds : bookings[b].status # "AUSENTE"} \cup {task[w].booking : w \in Workers}
DatesAsked == {bookings[b].dataServico : b \in BookingIds} \cup {task[w].date : w \in Workers}

\* Two bookings on any dates within the hour; when a new date is asked for, the
\* third date is left out or nothing fails.
Agenda ==
  /\ now = 0 /\ Reserved \subseteq 0 .. 2
  /\ propostas = <<>> \/ failures = 0 \/ DatesAsked \subseteq 0 .. 2

\* Three requests for one date, answered, cancelled or expired; a failure only
\* while there are two.
Answers ==
  /\ DatesAsked \subseteq {0, 1} /\ propostas = <<>>
  /\ failures = 0 \/ Reserved \subseteq 0 .. 2

Scenario == Agenda \/ Answers

================================================================================
