------------------------------- MODULE Reputation -------------------------------
(***************************************************************************)
(* Double-blind reviews of ObraCerta: after a booking is completed each    *)
(* party may review the other; the reviews are revealed together once both *)
(* are written, or when the window closes.  A revealed review counts for   *)
(* the rating and the badges of its target, who may answer it once.        *)
(*                                                                         *)
(* A booking is named by its two parties and was completed on day 0.       *)
(* Workers run handlers one awaited call at a time, as in Booking; the     *)
(* trail of events and the audit log are left out.                         *)
(***************************************************************************)
EXTENDS JobQueue, Sequences, FiniteSets, FiniteSetsExt

CONSTANTS
  Contractors, Professionals, NoUser,
  Bookings,                \* completed bookings: <<contractor, professional>>
  Notas,                   \* ratings, from 1 to 5
  Workers,
  REVIEW_WINDOW_DAYS, RESPONSE_WINDOW_DAYS,
  BEM_AVALIADO_MIN_TOTAL, VETERANO_MIN_TOTAL,
  MaxTime, MaxFailures     \* bounds

ASSUME ReputationAssumption ==
  /\ Bookings \subseteq Contractors \X Professionals
  /\ Contractors \cap Professionals = {} /\ NoUser \notin Contractors \cup Professionals
  /\ Notas \subseteq 1 .. 5
  /\ REVIEW_WINDOW_DAYS \in Nat /\ RESPONSE_WINDOW_DAYS \in Nat
  /\ BEM_AVALIADO_MIN_TOTAL \in Nat /\ VETERANO_MIN_TOTAL \in Nat
  /\ MaxTime \in Nat /\ MaxFailures \in Nat

Users == Contractors \cup Professionals
BadgeCode == {"BEM_AVALIADO", "VETERANO"}

\* A review is named by its booking and its author: one for each.
ReviewIds == {r \in Bookings \X Users : r[2] \in {r[1][1], r[1][2]}}
ReviewsOf(b) == {r \in ReviewIds : r[1] = b}

\* reviewParticipant: each party reviews the other.
alvoOf(r) == IF r[2] = r[1][1] THEN r[1][2] ELSE r[1][1]

VARIABLES
  reviews,     \* status "AUSENTE" is no row
  responses,   \* reviews that were answered
  badges,      \* the active badges of each user
  revealJobs,  \* the queue review-reveal, by booking
  task,        \* the handler each worker runs
  now, failures

reputation == <<reviews, responses, badges, revealJobs, task>>
vars == <<reputation, now, failures>>

Review == [status : {"AUSENTE", "PENDENTE", "REVELADA", "OCULTA"}, nota : Notas \cup {0},
           reveladaEm : Nat]
NoBooking == <<NoUser, NoUser>>
Task ==
  [step : {"idle", "create", "count", "reveal", "ratings", "active", "apply", "schedule",
           "completeJob", "respond"},
   job : BOOLEAN, booking : Bookings \cup {NoBooking}, autor : Users \cup {NoUser},
   nota : Notas \cup {0}, alvos : SUBSET Users, earned : SUBSET BadgeCode,
   toGrant : SUBSET BadgeCode, toRevoke : SUBSET BadgeCode]

ReputationTypeOK ==
  /\ reviews \in [ReviewIds -> Review]
  /\ responses \subseteq ReviewIds
  /\ badges \in [Users -> SUBSET BadgeCode]
  /\ revealJobs \in Queue(Bookings)
  /\ task \in [Workers -> Task]
  /\ now \in Nat /\ failures \in Nat

Idle == [step |-> "idle", job |-> FALSE, booking |-> NoBooking, autor |-> NoUser, nota |-> 0,
         alvos |-> {}, earned |-> {}, toGrant |-> {}, toRevoke |-> {}]

ReputationInit ==
  /\ reviews = [r \in ReviewIds |-> [status |-> "AUSENTE", nota |-> 0, reveladaEm |-> 0]]
  /\ responses = {}
  /\ badges = [u \in Users |-> {}]
  /\ revealJobs = EmptyQueue(Bookings)
  /\ task = [w \in Workers |-> Idle]
  /\ now = 0 /\ failures = 0

--------------------------------------------------------------------------------
(* Rules of the domain *)

Written(b) == {r \in ReviewsOf(b) : reviews[r].status # "AUSENTE"}
Pending(b) == {r \in ReviewsOf(b) : reviews[r].status = "PENDENTE"}

shouldReveal(total) == total >= 2

\* Ratings that count for a user: the revealed ones.
RatingsOf(u) == {r \in ReviewIds : alvoOf(r) = u /\ reviews[r].status = "REVELADA"}

\* averageRating, in hundredths.
averageRating(R) ==
  IF R = {} THEN 0
  ELSE (200 * MapThenSumSet(LAMBDA r : reviews[r].nota, R) + Cardinality(R))
         \div (2 * Cardinality(R))

computeBadges(total, media) ==
  {c \in BadgeCode : CASE c = "BEM_AVALIADO" -> total >= BEM_AVALIADO_MIN_TOTAL /\ media >= 450
                       [] c = "VETERANO" -> total >= VETERANO_MIN_TOTAL}

\* What moderation does to a review; elsewhere there is nothing to change.
hide(r) ==
  IF reviews[r].status = "REVELADA" THEN [reviews EXCEPT ![r].status = "OCULTA"] ELSE reviews

\* Mutated: what is not visible is restored, hidden or not.
restoreAny(r) ==
  IF reviews[r].status \in {"OCULTA", "PENDENTE"}
    THEN [reviews EXCEPT ![r].status = "REVELADA"] ELSE reviews

restore(r) ==
  IF reviews[r].status = "OCULTA" THEN [reviews EXCEPT ![r].status = "REVELADA"] ELSE reviews

At(w, step) == task[w].step = step
Free(w) == task[w] = Idle
Goto(w, step) == task' = [task EXCEPT ![w].step = step]
Finish(w) == task' = [task EXCEPT ![w] = Idle]

--------------------------------------------------------------------------------
(* Writing a review *)

\* createReview, up to its insert.  Nothing asks whether the window is closed.
CreateReview(w, r, nota) ==
  /\ Free(w)
  /\ reviews[r].status = "AUSENTE"
  /\ task' = [task EXCEPT ![w] =
       [Idle EXCEPT !.step = "create", !.booking = r[1], !.autor = r[2], !.nota = nota]]
  /\ UNCHANGED <<reviews, responses, badges, revealJobs, now, failures>>

\* The insert; the unique constraint refuses a second review of the author.
InsertReview(w) ==
  LET r == <<task[w].booking, task[w].autor>> IN
  /\ At(w, "create")
  /\ IF reviews[r].status = "AUSENTE"
       THEN /\ reviews' = [reviews EXCEPT ![r].status = "PENDENTE", ![r].nota = task[w].nota]
            /\ Goto(w, "count")
       ELSE Finish(w) /\ UNCHANGED reviews
  /\ UNCHANGED <<responses, badges, revealJobs, now, failures>>

\* countForBooking
CountReviews(w) ==
  /\ At(w, "count")
  /\ Goto(w, IF shouldReveal(Cardinality(Written(task[w].booking))) THEN "reveal" ELSE "schedule")
  /\ UNCHANGED <<reviews, responses, badges, revealJobs, now, failures>>

\* Mutated: only one pending review is revealed at a time.
RevealPendingOne(w) ==
  LET R == Pending(task[w].booking) IN
  /\ At(w, "reveal")
  /\ \E r \in R : reviews' = [reviews EXCEPT ![r].status = "REVELADA", ![r].reveladaEm = now]
  /\ task' = [task EXCEPT ![w].step = "ratings", ![w].alvos = {}]
  /\ UNCHANGED <<responses, badges, revealJobs, now, failures>>

\* revealPending, one UPDATE; its result says whose badges are recomputed.
RevealPending(w) ==
  LET R == Pending(task[w].booking) IN
  /\ At(w, "reveal")
  /\ reviews' = [r \in ReviewIds |->
       IF r \in R THEN [reviews[r] EXCEPT !.status = "REVELADA", !.reveladaEm = now]
                  ELSE reviews[r]]
  /\ task' = [task EXCEPT ![w].step = "ratings", ![w].alvos = {alvoOf(r) : r \in R}]
  /\ UNCHANGED <<responses, badges, revealJobs, now, failures>>

\* recomputeBadges, of one target after the other: the ratings are read ...
ReadRatings(w) ==
  /\ At(w, "ratings")
  /\ IF task[w].alvos = {}
       THEN Goto(w, IF task[w].job THEN "completeJob" ELSE "schedule")
       ELSE \E u \in task[w].alvos :
              task' = [task EXCEPT ![w].step = "active", ![w].autor = u,
                ![w].earned = computeBadges(Cardinality(RatingsOf(u)), averageRating(RatingsOf(u)))]
  /\ UNCHANGED <<reviews, responses, badges, revealJobs, now, failures>>

\* ... then the active badges (reconcileBadges) ...
ReadActive(w) ==
  LET u == task[w].autor IN
  /\ At(w, "active")
  /\ task' = [task EXCEPT ![w].step = "apply", ![w].earned = {},
       ![w].toGrant = task[w].earned \ badges[u], ![w].toRevoke = badges[u] \ task[w].earned]
  /\ UNCHANGED <<reviews, responses, badges, revealJobs, now, failures>>

\* ... and the badges are granted one by one, then revoked one by one, and the next
\* target follows.  The unique index on the active badges refuses one that another
\* handler granted: this handler throws.  To revoke one that is gone does nothing.
ApplyBadges(w) ==
  LET u == task[w].autor IN
  /\ At(w, "apply")
  /\ \/ \E c \in task[w].toGrant \ badges[u] :
          /\ badges' = [badges EXCEPT ![u] = @ \cup {c}]
          /\ task' = [task EXCEPT ![w].toGrant = @ \ {c}]
          /\ UNCHANGED revealJobs
     \/ /\ task[w].toGrant \cap badges[u] # {}
        /\ revealJobs' = IF task[w].job THEN Fail(revealJobs, task[w].booking) ELSE revealJobs
        /\ Finish(w)
        /\ UNCHANGED badges
     \/ /\ task[w].toGrant = {}
        /\ \E c \in task[w].toRevoke :
             /\ badges' = [badges EXCEPT ![u] = @ \ {c}]
             /\ task' = [task EXCEPT ![w].toRevoke = @ \ {c}]
        /\ UNCHANGED revealJobs
     \/ /\ task[w].toGrant = {} /\ task[w].toRevoke = {}
        /\ task' = [task EXCEPT ![w].step = "ratings", ![w].autor = NoUser, ![w].alvos = @ \ {u}]
        /\ UNCHANGED <<badges, revealJobs>>
  /\ UNCHANGED <<reviews, responses, now, failures>>

\* Mutated: the reveal is scheduled a window from now, and only by the second.
ScheduleRevealSecond(w) ==
  /\ At(w, "schedule")
  /\ revealJobs' = IF Cardinality(Written(task[w].booking)) = 2
                     THEN Add(revealJobs, task[w].booking, now + REVIEW_WINDOW_DAYS)
                     ELSE revealJobs
  /\ Finish(w)
  /\ UNCHANGED <<reviews, responses, badges, now, failures>>

\* scheduleReveal: when the window closes, or now if it is closed.
ScheduleReveal(w) ==
  /\ At(w, "schedule")
  /\ revealJobs' = Add(revealJobs, task[w].booking, REVIEW_WINDOW_DAYS)
  /\ Finish(w)
  /\ UNCHANGED <<reviews, responses, badges, now, failures>>

\* The job review-reveal: revealForBooking.
StartReveal(w, b) ==
  /\ Free(w)
  /\ Due(revealJobs, b, now)
  /\ revealJobs' = Take(revealJobs, b)
  /\ task' = [task EXCEPT ![w] = [Idle EXCEPT !.step = "reveal", !.job = TRUE, !.booking = b]]
  /\ UNCHANGED <<reviews, responses, badges, now, failures>>

CompleteReveal(w) ==
  /\ At(w, "completeJob")
  /\ revealJobs' = Complete(revealJobs, task[w].booking)
  /\ Finish(w)
  /\ UNCHANGED <<reviews, responses, badges, now, failures>>

--------------------------------------------------------------------------------
(* Answering a review *)

\* respondToReview, up to its insert: checkCanRespond.
Respond(w, r) ==
  /\ Free(w)
  /\ reviews[r].status = "REVELADA" /\ r \notin responses
  /\ now <= reviews[r].reveladaEm + RESPONSE_WINDOW_DAYS
  /\ task' = [task EXCEPT ![w] =
       [Idle EXCEPT !.step = "respond", !.booking = r[1], !.autor = r[2]]]
  /\ UNCHANGED <<reviews, responses, badges, revealJobs, now, failures>>

\* The unique constraint refuses a second answer.
InsertResponse(w) ==
  /\ At(w, "respond")
  /\ responses' = responses \cup {<<task[w].booking, task[w].autor>>}
  /\ Finish(w)
  /\ UNCHANGED <<reviews, badges, revealJobs, now, failures>>

--------------------------------------------------------------------------------
(* The environment *)

\* An awaited call throws, or the process dies and its job is run again.
ReputationFailure(w) ==
  /\ ~Free(w)
  /\ failures < MaxFailures
  /\ failures' = failures + 1
  /\ revealJobs' \in
       IF task[w].job
         THEN {Fail(revealJobs, task[w].booking), Stall(revealJobs, task[w].booking)}
         ELSE {revealJobs}
  /\ Finish(w)
  /\ UNCHANGED <<reviews, responses, badges, now>>

ReputationStep(w) ==
  \/ InsertReview(w) \/ CountReviews(w) \/ RevealPending(w)
  \/ ReadRatings(w) \/ ReadActive(w) \/ ApplyBadges(w)
  \/ ScheduleReveal(w) \/ CompleteReveal(w) \/ InsertResponse(w)

ReputationNext ==
  \E w \in Workers :
    \/ ReputationStep(w) \/ ReputationFailure(w)
    \/ \E r \in ReviewIds, nota \in Notas : CreateReview(w, r, nota) \/ Respond(w, r)
    \/ \E b \in Bookings : StartReveal(w, b)

--------------------------------------------------------------------------------
(* Properties *)

ReputationQuiet == \A w \in Workers : Free(w)

\* Double blind: a review comes out only once its pair is written or the window
\* has closed, whatever moderation does to it in between (shouldReveal, restore).
RevealedBlindly ==
  \A r \in ReviewIds : reviews[r].status \in {"REVELADA", "OCULTA"} =>
    now >= REVIEW_WINDOW_DAYS \/ Cardinality(Written(r[1])) = 2

\* "Revelação simultânea": when the handlers are done, no review of a booking is
\* out while the other one is still pending, though each handler counts only
\* after its own insert.
RevealedTogether ==
  ReputationQuiet /\ failures = 0 =>
    \A b \in Bookings : Pending(b) # {} => Cardinality(Written(b)) = 1

\* A pending review is revealed some day: its job waits or runs, or a handler of
\* the booking is still going to reveal it or to schedule the job.  A process
\* that dies between the insert and the schedule is the exception.
PendingIsScheduled ==
  failures = 0 =>
    \A b \in Bookings : Pending(b) # {} =>
      \/ revealJobs[b].state = "delayed"
      \/ \E w \in Workers : /\ task[w].booking = b
                            /\ task[w].step \in {"count", "reveal", "schedule"}

--------------------------------------------------------------------------------
(* What the documentation says and the code does not keep *)

\* "Janela (em dias) para avaliar após a conclusão da obra" (review-rules.ts:10),
\* "ficam ocultas (anti-retaliação)" (review-rules.ts:52): who has seen what the
\* other party wrote does not get to review it any more.
NoReviewAfterReveal ==
  [][\A r, s \in ReviewIds :
       r # s /\ r[1] = s[1] /\ reviews[s].status = "REVELADA" =>
         (reviews[r].status = "AUSENTE" => reviews'[r].status = "AUSENTE")]_vars

================================================================================
