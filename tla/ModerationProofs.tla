---------------------------- MODULE ModerationProofs ----------------------------
(***************************************************************************)
(* Proofs about Moderation and the Reputation it extends, for any number   *)
(* of users, bookings, handlers, reports and suspensions.                  *)
(*                                                                         *)
(* The two halves share the reviews only, which moderation hides and shows *)
(* but neither writes nor reveals.  In each of them the invariant says     *)
(* which handler still has in hand what a row is waiting for: to reveal a  *)
(* pending review or to schedule that, to schedule or to run the end of a  *)
(* suspension.                                                             *)
(***************************************************************************)
EXTENDS Moderation, FiniteSetTheorems, TLAPS

\* Of a booking: both reviews are written, one is, one came out.
Both(b) == \A r \in ReviewsOf(b) : reviews[r].status # "AUSENTE"
Some(b) == \E r \in ReviewsOf(b) : reviews[r].status # "AUSENTE"
Out(b) == \E r \in ReviewsOf(b) : reviews[r].status \in {"REVELADA", "OCULTA"}

AfterReveal == {"ratings", "active", "apply", "completeJob"}
Running == {"reveal"} \cup AfterReveal

\* What a handler of a review may count on, whatever the others do meanwhile.
TaskOK(k) ==
  /\ k.step # "idle" => k.booking \in Bookings
  /\ k.step \in {"create", "respond"} => <<k.booking, k.autor>> \in ReviewIds
  /\ k.step \in {"active", "apply"} => k.autor \in Users
  /\ k.step \in Running \cup {"count", "schedule"} => Some(k.booking)
  /\ k.step = "reveal" => Both(k.booking) \/ now >= REVIEW_WINDOW_DAYS
  /\ k.step \in AfterReveal => Out(k.booking)
  /\ k.job => k.step \in Running /\ revealJobs[k.booking].state = "active"
  /\ k.step = "completeJob" => k.job

\* A reveal is scheduled for the end of the window, of a review that is written; its
\* job runs in a handler, and failed only after it revealed.
RevealJobOK(b) ==
  /\ revealJobs[b].state # "absent" => revealJobs[b].at = REVIEW_WINDOW_DAYS /\ Some(b)
  /\ failures = 0 =>
       /\ revealJobs[b].state = "active" =>
            \E w \in Workers : task[w].job /\ task[w].booking = b
       /\ revealJobs[b].state = "failed" => Out(b)

\* One handler runs the job of a booking.
RunnersOK ==
  \A w, v \in Workers : w # v /\ task[w].job /\ task[v].job => task[w].booking # task[v].booking

BlindOK ==
  \A r \in ReviewIds : reviews[r].status \in {"REVELADA", "OCULTA"} =>
    now >= REVIEW_WINDOW_DAYS \/ Both(r[1])

\* Whoever wrote the second review of a booking is going to reveal both.
TogetherOK ==
  failures = 0 =>
    \A r \in ReviewIds : reviews[r].status = "PENDENTE" /\ Both(r[1]) =>
      \E w \in Workers : task[w].booking = r[1] /\ task[w].step \in {"count", "reveal"}

ScheduledOK ==
  failures = 0 =>
    \A r \in ReviewIds : reviews[r].status = "PENDENTE" =>
      \/ revealJobs[r[1]].state = "delayed"
      \/ \E w \in Workers : /\ task[w].booking = r[1]
                            /\ task[w].step \in {"count", "reveal", "schedule"}

ReputationInv ==
  /\ ReputationTypeOK
  /\ \A w \in Workers : TaskOK(task[w])
  /\ \A b \in Bookings : RevealJobOK(b)
  /\ RunnersOK
  /\ BlindOK
  /\ TogetherOK
  /\ ScheduledOK

ModerationTypeOK ==
  /\ reports \in [ReportIds -> Report]
  /\ suspensions \in [SuspensionIds -> Suspension]
  /\ accounts \in [Users -> {"ATIVO", "SUSPENSO"}]
  /\ restoreJobs \in Queue(ReportIds)
  /\ liftJobs \in Queue(SuspensionIds)
  /\ caso \in [Moderators -> Caso]

Opening == {"setSuspenso", "scheduleLift"}

\* What a handler of moderation may count on.
CasoOK(k) ==
  /\ k.op \in {"denunciar", "resolve", "lift"} =>
       k.report \in ReportIds /\ reports[k.report].status # "AUSENTE"
  /\ k.op \in {"appeal", "expire"} \/ k.step \in Opening =>
       k.suspension \in SuspensionIds /\ suspensions[k.suspension].status # "AUSENTE"
  /\ k.step \in Opening => k.op = "resolve"
  /\ k.step = "reactivate" => k.op \in {"appeal", "expire"}
  /\ k.step \in {"expire", "checkOther"} => k.op = "expire"
  /\ k.op = "appeal" => suspensions[k.suspension].apelada
  \* A suspension that is being put in force is in force, unless it was appealed.
  /\ k.step = "setSuspenso" =>
       suspensions[k.suspension].apelada \/ suspensions[k.suspension].status = "ATIVA"
  \* Its job is not there yet; the job that runs is there.
  /\ k.step \in Opening => liftJobs[k.suspension].state = "absent"
  /\ k.op = "expire" => liftJobs[k.suspension].state = "active"

RowsOK ==
  /\ \A i \in ReportIds :
       /\ reports[i].status # "AUSENTE" => reports[i].alvo \in Targets
       /\ restoreJobs[i].state # "absent" => reports[i].status # "AUSENTE"
  /\ \A s \in SuspensionIds :
       /\ suspensions[s].status # "AUSENTE" => suspensions[s].userId \in Users
       /\ suspensions[s].status = "APELADA" => suspensions[s].apelada
       /\ suspensions[s].apelada => suspensions[s].status # "AUSENTE"
       /\ liftJobs[s].state # "absent" =>
            suspensions[s].status # "AUSENTE" /\ liftJobs[s].at = suspensions[s].fimEm

\* One handler puts a suspension in force, and no job lifts it meanwhile.
HoldersOK ==
  \A m, n \in Moderators : m # n /\ caso[m].suspension = caso[n].suspension =>
    /\ caso[m].step \in Opening => caso[n].step \notin Opening /\ caso[n].op # "expire"
    /\ caso[m].op = "expire" => caso[n].op # "expire"

ClosedOK ==
  failures = 0 /\ (\A s \in SuspensionIds : ~suspensions[s].apelada) =>
    \A u \in Users : accounts[u] = "SUSPENSO" =>
      \/ ActiveFor(u) # {}
      \/ \E m \in Moderators : /\ caso[m].step \in {"checkOther", "reactivate"}
                               /\ suspensions[caso[m].suspension].userId = u

ModeratorsInv ==
  /\ ModerationTypeOK
  /\ \A m \in Moderators : CasoOK(caso[m])
  /\ RowsOK
  /\ HoldersOK
  /\ SuspensionHasLiftJob
  /\ ClosedOK

\* The inductive invariant.
ModerationInv == ReputationInv /\ ModeratorsInv

--------------------------------------------------------------------------------
(* The operators of a queue: each changes one job *)

OneJob(q, p, Ids, id) == \A j \in Ids \ {id} : p[j] = q[j]

LEMMA QueueEntry ==
  ASSUME NEW Ids, NEW q \in Queue(Ids), NEW id \in Ids, NEW j \in Job
  PROVE  /\ [q EXCEPT ![id] = j] \in Queue(Ids) /\ [q EXCEPT ![id] = j][id] = j
         /\ OneJob(q, [q EXCEPT ![id] = j], Ids, id)
BY DEF Queue, OneJob

LEMMA QueueState ==
  ASSUME NEW Ids, NEW q \in Queue(Ids), NEW id \in Ids, NEW state \in JobStates
  PROVE  LET p == [q EXCEPT ![id].state = state] IN
         /\ p \in Queue(Ids) /\ OneJob(q, p, Ids, id)
         /\ p[id].state = state /\ p[id].at = q[id].at
<1> DEFINE j == [q[id] EXCEPT !.state = state]
<1>1. j \in Job /\ j.state = state /\ j.at = q[id].at
  BY DEF Queue, Job
<1>2. [q EXCEPT ![id].state = state] = [q EXCEPT ![id] = j]
  BY DEF Queue
<1> HIDE DEF j
<1> QED
  BY <1>1, <1>2, QueueEntry

LEMMA QueueAdd ==
  ASSUME NEW Ids, NEW q \in Queue(Ids), NEW id \in Ids, NEW t \in Nat
  PROVE  /\ Add(q, id, t) \in Queue(Ids) /\ OneJob(q, Add(q, id, t), Ids, id)
         /\ q[id].state = "absent" =>
              Add(q, id, t)[id].state = "delayed" /\ Add(q, id, t)[id].at = t
         /\ q[id].state # "absent" => Add(q, id, t) = q
<1> DEFINE j == [state |-> "delayed", at |-> t]
<1>1. j \in Job /\ j.state = "delayed" /\ j.at = t
  BY DEF Job, JobStates
<1>2. Add(q, id, t) = IF q[id].state = "absent" THEN [q EXCEPT ![id] = j] ELSE q
  BY DEF Add
<1> HIDE DEF j
<1> QED
  BY <1>1, <1>2, QueueEntry DEF OneJob

LEMMA QueueTake ==
  ASSUME NEW Ids, NEW q \in Queue(Ids), NEW id \in Ids
  PROVE  /\ Take(q, id) \in Queue(Ids) /\ OneJob(q, Take(q, id), Ids, id)
         /\ Take(q, id)[id].state = "active" /\ Take(q, id)[id].at = q[id].at
<1>1. "active" \in JobStates
  BY DEF JobStates
<1> QED
  BY <1>1, QueueState DEF Take

LEMMA QueueFail ==
  ASSUME NEW Ids, NEW q \in Queue(Ids), NEW id \in Ids
  PROVE  /\ Fail(q, id) \in Queue(Ids) /\ OneJob(q, Fail(q, id), Ids, id)
         /\ Fail(q, id)[id].state = "failed" /\ Fail(q, id)[id].at = q[id].at
         /\ Stall(q, id) \in Queue(Ids) /\ OneJob(q, Stall(q, id), Ids, id)
         /\ Stall(q, id)[id].state = "delayed" /\ Stall(q, id)[id].at = q[id].at
<1>1. "failed" \in JobStates /\ "delayed" \in JobStates
  BY DEF JobStates
<1>2. /\ Fail(q, id) \in Queue(Ids) /\ OneJob(q, Fail(q, id), Ids, id)
      /\ Fail(q, id)[id].state = "failed" /\ Fail(q, id)[id].at = q[id].at
  BY <1>1, QueueState DEF Fail
<1>3. /\ Stall(q, id) \in Queue(Ids) /\ OneJob(q, Stall(q, id), Ids, id)
      /\ Stall(q, id)[id].state = "delayed" /\ Stall(q, id)[id].at = q[id].at
  BY <1>1, QueueState DEF Stall
<1> QED
  BY <1>2, <1>3

LEMMA QueueComplete ==
  ASSUME NEW Ids, NEW q \in Queue(Ids), NEW id \in Ids
  PROVE  /\ Complete(q, id) \in Queue(Ids) /\ OneJob(q, Complete(q, id), Ids, id)
         /\ Complete(q, id)[id].state = "absent"
<1>1. NoJob \in Job /\ NoJob.state = "absent"
  BY DEF NoJob, Job, JobStates
<1> QED
  BY <1>1, QueueEntry DEF Complete

--------------------------------------------------------------------------------
(* The two reviews of a booking *)

LEMMA TwoReviews ==
  ASSUME NEW b \in Bookings
  PROVE  /\ ReviewsOf(b) = {<<b, b[1]>>, <<b, b[2]>>} /\ b[1] # b[2]
         /\ b[1] \in Users /\ b[2] \in Users
<1>1. b[1] \in Contractors /\ b[2] \in Professionals
  BY ReputationAssumption
<1>2. b[1] \in Users /\ b[2] \in Users /\ b[1] # b[2]
  BY <1>1, ReputationAssumption DEF Users
<1>3. \A r \in ReviewsOf(b) : r = <<b, b[1]>> \/ r = <<b, b[2]>>
  BY DEF ReviewsOf, ReviewIds
<1>4. <<b, b[1]>> \in ReviewIds /\ <<b, b[2]>> \in ReviewIds
  BY <1>2 DEF ReviewIds
<1> QED
  BY <1>2, <1>3, <1>4 DEF ReviewsOf

LEMMA ReviewParts ==
  ASSUME NEW r \in ReviewIds
  PROVE  /\ r[1] \in Bookings /\ r[2] \in Users /\ r = <<r[1], r[2]>>
         /\ r \in ReviewsOf(r[1]) /\ alvoOf(r) \in Users
<1>1. r[1] \in Bookings /\ r[2] \in Users /\ r = <<r[1], r[2]>> /\ r \in ReviewsOf(r[1])
  BY DEF ReviewIds, ReviewsOf
<1> QED
  BY <1>1, TwoReviews DEF alvoOf

\* How the code counts, and what it means.
LEMMA WrittenCount ==
  ASSUME NEW b \in Bookings
  PROVE  /\ Both(b) <=> Cardinality(Written(b)) = 2
         /\ shouldReveal(Cardinality(Written(b))) <=> Both(b)
         /\ Some(b) /\ ~Both(b) => Cardinality(Written(b)) = 1
<1> DEFINE x == <<b, b[1]>>
           y == <<b, b[2]>>
<1>1. ReviewsOf(b) = {x, y} /\ x # y
  BY TwoReviews
<1> HIDE DEF x, y
<1>2. /\ IsFiniteSet({x}) /\ Cardinality({x}) = 1 /\ Cardinality({y}) = 1
      /\ Cardinality({}) = 0
  BY FS_Singleton, FS_EmptySet
<1>3. Cardinality({x, y}) = 2
  <2>1. Cardinality({x} \cup {y}) = 2
    BY <1>1, <1>2, FS_AddElement
  <2>2. {x} \cup {y} = {x, y}
    OBVIOUS
  <2> QED
    BY <2>1, <2>2
<1>4. CASE reviews[x].status # "AUSENTE" /\ reviews[y].status # "AUSENTE"
  <2>1. Written(b) = {x, y} /\ Both(b)
    BY <1>1, <1>4 DEF Written, Both
  <2> QED
    BY <1>3, <2>1 DEF shouldReveal
<1>5. CASE reviews[x].status # "AUSENTE" /\ reviews[y].status = "AUSENTE"
  <2>1. Written(b) = {x} /\ ~Both(b)
    BY <1>1, <1>5 DEF Written, Both
  <2> QED
    BY <1>2, <2>1 DEF shouldReveal
<1>6. CASE reviews[x].status = "AUSENTE" /\ reviews[y].status # "AUSENTE"
  <2>1. Written(b) = {y} /\ ~Both(b)
    BY <1>1, <1>6 DEF Written, Both
  <2> QED
    BY <1>2, <2>1 DEF shouldReveal
<1>7. CASE reviews[x].status = "AUSENTE" /\ reviews[y].status = "AUSENTE"
  <2>1. Written(b) = {} /\ ~Both(b) /\ ~Some(b)
    BY <1>1, <1>7 DEF Written, Both, Some
  <2> QED
    BY <1>2, <2>1 DEF shouldReveal
<1> QED
  BY <1>4, <1>5, <1>6, <1>7

\* If one review came out and another is pending, both are written.
LEMMA OutAndPending ==
  ASSUME NEW b \in Bookings, Out(b), NEW r \in ReviewsOf(b), reviews[r].status = "PENDENTE"
  PROVE  Both(b)
BY TwoReviews DEF Out, Both

--------------------------------------------------------------------------------
(* What a step leaves as it was *)

OthersWait(w) == \A v \in Workers \ {w} : task'[v] = task[v]

\* A review that is written stays, and one that came out does not go back.
Forward ==
  \A r \in ReviewIds :
    /\ reviews[r].status # "AUSENTE" => reviews'[r].status # "AUSENTE"
    /\ reviews[r].status \in {"REVELADA", "OCULTA"} => reviews'[r].status \in {"REVELADA", "OCULTA"}

LEMMA ForwardBooking ==
  ASSUME Forward, NEW b
  PROVE  /\ Both(b) => Both(b)'
         /\ Some(b) => Some(b)'
         /\ Out(b) => Out(b)'
BY DEF Forward, Both, Some, Out, ReviewsOf

LEMMA Moves ==
  ASSUME ReputationTypeOK, NEW w \in Workers, NEW k \in Task, task' = [task EXCEPT ![w] = k]
  PROVE  task' \in [Workers -> Task] /\ OthersWait(w) /\ task'[w] = k
BY DEF ReputationTypeOK, OthersWait

LEMMA IdleTask == Idle \in Task /\ TaskOK(Idle) /\ Idle.step = "idle" /\ Idle.job = FALSE
BY DEF Idle, Task, TaskOK, Running, AfterReveal

LEMMA MovesTo ==
  ASSUME ReputationTypeOK, NEW w \in Workers,
         NEW step \in {"count", "reveal", "ratings", "active", "apply", "schedule", "completeJob"},
         Goto(w, step)
  PROVE  /\ task' \in [Workers -> Task] /\ OthersWait(w)
         /\ task'[w].step = step /\ task'[w].job = task[w].job
         /\ task'[w].booking = task[w].booking /\ task'[w].autor = task[w].autor
<1>1. task[w] \in Task
  BY DEF ReputationTypeOK
<1> DEFINE k == [task[w] EXCEPT !.step = step]
<1>2. /\ k \in Task /\ k.step = step /\ k.job = task[w].job
      /\ k.booking = task[w].booking /\ k.autor = task[w].autor
  BY <1>1 DEF Task
<1>3. task' = [task EXCEPT ![w] = k]
  BY DEF Goto
<1> HIDE DEF k
<1>4. task' \in [Workers -> Task] /\ OthersWait(w) /\ task'[w] = k
  BY <1>2, <1>3, Moves
<1> QED
  BY <1>2, <1>4

LEMMA Ends ==
  ASSUME ReputationTypeOK, NEW w \in Workers, Finish(w)
  PROVE  /\ task' \in [Workers -> Task] /\ OthersWait(w) /\ task'[w] = Idle
         /\ task'[w].step = "idle" /\ task'[w].job = FALSE /\ TaskOK(task[w])'
<1>1. task' \in [Workers -> Task] /\ OthersWait(w) /\ task'[w] = Idle
  BY IdleTask, Moves DEF Finish
<1> QED
  BY <1>1, IdleTask DEF TaskOK, Running, AfterReveal

\* What a handler counts on is still so after a step that leaves its job alone.
LEMMA TaskStays ==
  ASSUME ReputationInv, Forward, now' \in Nat, now <= now', NEW v \in Workers, task'[v] = task[v],
         task[v].job => revealJobs'[task[v].booking] = revealJobs[task[v].booking]
  PROVE  TaskOK(task[v])'
<1> DEFINE k == task[v]
<1>1. TaskOK(k) /\ now \in Nat /\ task'[v] = k
  BY DEF ReputationInv, ReputationTypeOK
<1>2. now >= REVIEW_WINDOW_DAYS => now' >= REVIEW_WINDOW_DAYS
  BY <1>1, ReputationAssumption
<1>3. \A b : (Both(b) => Both(b)') /\ (Some(b) => Some(b)') /\ (Out(b) => Out(b)')
  BY ForwardBooking
<1>4. k.job => revealJobs'[k.booking] = revealJobs[k.booking]
  OBVIOUS
<1> HIDE DEF k
<1>5. /\ k.step \in Running \cup {"count", "schedule"} => Some(k.booking)
      /\ k.step = "reveal" => Both(k.booking) \/ now >= REVIEW_WINDOW_DAYS
      /\ k.step \in AfterReveal => Out(k.booking)
  BY <1>1 DEF TaskOK
<1> QED
  BY <1>1, <1>2, <1>3, <1>4, <1>5 DEF TaskOK, Both, Some, Out, ReviewsOf

LEMMA OthersStay ==
  ASSUME ReputationInv, Forward, now' = now, NEW w \in Workers, OthersWait(w), TaskOK(task[w])',
         \A v \in Workers \ {w} :
           task[v].job => revealJobs'[task[v].booking] = revealJobs[task[v].booking]
  PROVE  \A v \in Workers : TaskOK(task[v])'
<1>1. now' \in Nat /\ now <= now'
  BY DEF ReputationInv, ReputationTypeOK
<1>2. ASSUME NEW v \in Workers \ {w} PROVE TaskOK(task[v])'
  BY <1>1, TaskStays DEF OthersWait
<1> QED
  BY <1>2

LEMMA RunnersSame ==
  ASSUME ReputationInv, NEW w \in Workers, OthersWait(w),
         task'[w].job => task[w].job /\ task'[w].booking = task[w].booking
  PROVE  RunnersOK'
<1>1. \A v, x \in Workers : v # x /\ task[v].job /\ task[x].job => task[v].booking # task[x].booking
  BY DEF ReputationInv, RunnersOK
<1>2. \A v \in Workers : task'[v].job => task[v].job /\ task'[v].booking = task[v].booking
  BY DEF OthersWait
<1> QED
  BY <1>1, <1>2 DEF RunnersOK

LEMMA RevealJobSame ==
  ASSUME ReputationInv, NEW w \in Workers, OthersWait(w), Forward, NEW b \in Bookings,
         revealJobs'[b] = revealJobs[b],
         failures' = 0 =>
           failures = 0 /\ (task[w].job => task'[w].job /\ task'[w].booking = task[w].booking)
  PROVE  RevealJobOK(b)'
<1>1. RevealJobOK(b) /\ (Some(b) => Some(b)') /\ (Out(b) => Out(b)')
  BY ForwardBooking DEF ReputationInv
<1>2. failures' = 0 => \A v \in Workers : task[v].job /\ task[v].booking = b =>
                         task'[v].job /\ task'[v].booking = b
  BY DEF OthersWait
<1>3. revealJobs'[b].state # "absent" => revealJobs'[b].at = REVIEW_WINDOW_DAYS /\ Some(b)'
  BY <1>1 DEF RevealJobOK
<1>4. ASSUME failures' = 0
      PROVE  /\ revealJobs'[b].state = "active" => \E v \in Workers : task'[v].job /\ task'[v].booking = b
             /\ revealJobs'[b].state = "failed" => Out(b)'
  BY <1>1, <1>2, <1>4 DEF RevealJobOK
<1> QED
  BY <1>3, <1>4 DEF RevealJobOK

LEMMA BlindSame ==
  ASSUME ReputationInv, Forward, now' \in Nat, now <= now',
         \A r \in ReviewIds : reviews'[r].status \in {"REVELADA", "OCULTA"} =>
                                reviews[r].status \in {"REVELADA", "OCULTA"}
  PROVE  BlindOK'
<1>1. now \in Nat /\ (now >= REVIEW_WINDOW_DAYS => now' >= REVIEW_WINDOW_DAYS)
  BY ReputationAssumption DEF ReputationInv, ReputationTypeOK
<1> SUFFICES ASSUME NEW r \in ReviewIds, reviews'[r].status \in {"REVELADA", "OCULTA"}
             PROVE  now' >= REVIEW_WINDOW_DAYS \/ Both(r[1])'
  BY DEF BlindOK
<1>2. now >= REVIEW_WINDOW_DAYS \/ Both(r[1])
  BY DEF ReputationInv, BlindOK
<1> QED
  BY <1>1, <1>2, ForwardBooking

LEMMA TogetherSame ==
  ASSUME ReputationInv, NEW w \in Workers, OthersWait(w), UNCHANGED reviews,
         failures' = 0 =>
           /\ failures = 0
           /\ task[w].step \in {"count", "reveal"} /\ Both(task[w].booking) =>
                task'[w].step \in {"count", "reveal"} /\ task'[w].booking = task[w].booking
  PROVE  TogetherOK'
<1> SUFFICES ASSUME failures' = 0, NEW r \in ReviewIds, reviews[r].status = "PENDENTE", Both(r[1])
             PROVE  \E v \in Workers : task'[v].booking = r[1] /\ task'[v].step \in {"count", "reveal"}
  BY DEF TogetherOK, Both, ReviewsOf
<1>1. PICK v \in Workers : task[v].booking = r[1] /\ task[v].step \in {"count", "reveal"}
  BY DEF ReputationInv, TogetherOK
<1>2. task'[v].booking = r[1] /\ task'[v].step \in {"count", "reveal"}
  BY <1>1 DEF OthersWait
<1> QED
  BY <1>2

LEMMA ScheduledSame ==
  ASSUME ReputationInv, NEW w \in Workers, OthersWait(w), UNCHANGED <<reviews, revealJobs>>,
         failures' = 0 =>
           /\ failures = 0
           /\ task[w].step \in {"count", "reveal", "schedule"} =>
                /\ task'[w].step \in {"count", "reveal", "schedule"}
                /\ task'[w].booking = task[w].booking
  PROVE  ScheduledOK'
<1> SUFFICES ASSUME failures' = 0, NEW r \in ReviewIds, reviews[r].status = "PENDENTE",
                    revealJobs[r[1]].state # "delayed"
             PROVE  \E v \in Workers : /\ task'[v].booking = r[1]
                                       /\ task'[v].step \in {"count", "reveal", "schedule"}
  BY DEF ScheduledOK
<1>1. PICK v \in Workers : task[v].booking = r[1] /\ task[v].step \in {"count", "reveal", "schedule"}
  BY DEF ReputationInv, ScheduledOK
<1>2. task'[v].booking = r[1] /\ task'[v].step \in {"count", "reveal", "schedule"}
  BY <1>1 DEF OthersWait
<1> QED
  BY <1>2

\* A step of a handler that neither writes a review nor touches the queue keeps the
\* invariant, when ...
LEMMA PlainStep ==
  ASSUME ReputationInv, NEW w \in Workers, OthersWait(w), UNCHANGED <<reviews, revealJobs, now>>,
         ReputationTypeOK', TaskOK(task[w])',
         task'[w].job = task[w].job, task[w].job => task'[w].booking = task[w].booking,
         \* it still reveals or schedules what it was going to.
         failures' = 0 =>
           /\ failures = 0
           /\ task[w].step \in {"count", "reveal", "schedule"} =>
                /\ task'[w].step \in {"count", "reveal", "schedule"}
                /\ task'[w].booking = task[w].booking
           /\ task[w].step \in {"count", "reveal"} /\ Both(task[w].booking) =>
                task'[w].step \in {"count", "reveal"}
  PROVE  ReputationInv'
<1>1. Forward /\ now' \in Nat /\ now <= now'
  BY DEF Forward, ReputationInv, ReputationTypeOK
<1>2. \A v \in Workers : TaskOK(task[v])'
  BY <1>1, OthersStay
<1>3. \A b \in Bookings : RevealJobOK(b)'
  BY <1>1, RevealJobSame
<1>4. RunnersOK'
  BY RunnersSame
<1>5. BlindOK'
  BY <1>1, BlindSame
<1>6. TogetherOK'
  BY TogetherSame
<1>7. ScheduledOK'
  BY ScheduledSame
<1> QED
  BY <1>2, <1>3, <1>4, <1>5, <1>6, <1>7 DEF ReputationInv

--------------------------------------------------------------------------------
(* Writing a review *)

LEMMA CreateReviewKeeps ==
  ASSUME ReputationInv, NEW w \in Workers, NEW r \in ReviewIds, NEW nota \in Notas,
         CreateReview(w, r, nota)
  PROVE  ReputationInv'
<1> DEFINE k == [Idle EXCEPT !.step = "create", !.booking = r[1], !.autor = r[2], !.nota = nota]
<1>1. r[1] \in Bookings /\ r[2] \in Users /\ <<r[1], r[2]>> \in ReviewIds
  BY ReviewParts
<1>2. k \in Task /\ k.step = "create" /\ k.booking = r[1] /\ k.autor = r[2] /\ k.job = FALSE
  BY <1>1, IdleTask DEF Idle, Task
<1>3. /\ task' = [task EXCEPT ![w] = k] /\ ReputationTypeOK
      /\ UNCHANGED <<reviews, responses, badges, revealJobs, now, failures>>
      /\ task[w].step = "idle" /\ task[w].job = FALSE
  BY IdleTask DEF CreateReview, ReputationInv, Free
<1> HIDE DEF k
<1>4. task' \in [Workers -> Task] /\ OthersWait(w) /\ task'[w] = k
  BY <1>2, <1>3, Moves
<1>5. TaskOK(task[w])'
  BY <1>1, <1>2, <1>4 DEF TaskOK, Running, AfterReveal
<1>6. ReputationTypeOK'
  BY <1>3, <1>4 DEF ReputationTypeOK
<1>7. task'[w].job = task[w].job
  BY <1>2, <1>3, <1>4
<1> QED
  BY <1>3, <1>4, <1>5, <1>6, <1>7, PlainStep

\* Who writes the second review of a booking has it in hand from then on.
LEMMA InsertReviewKeeps ==
  ASSUME ReputationInv, NEW w \in Workers, InsertReview(w)
  PROVE  ReputationInv'
<1> DEFINE b == task[w].booking
           x == <<b, task[w].autor>>
<1>1. /\ At(w, "create") /\ TaskOK(task[w]) /\ ReputationTypeOK /\ task[w] \in Task
      /\ UNCHANGED <<responses, badges, revealJobs, now, failures>>
  BY DEF InsertReview, ReputationInv, ReputationTypeOK
<1>2. b \in Bookings /\ x \in ReviewIds /\ x[1] = b /\ x \in ReviewsOf(b) /\ task[w].job = FALSE
  BY <1>1 DEF At, TaskOK, Running, AfterReveal, Task, ReviewsOf
<1>3. CASE reviews[x].status # "AUSENTE"
  <2>1. Finish(w) /\ UNCHANGED reviews
    BY <1>3 DEF InsertReview
  <2>2. /\ task' \in [Workers -> Task] /\ OthersWait(w) /\ TaskOK(task[w])'
        /\ task'[w].job = FALSE
    BY <1>1, <2>1, Ends
  <2>3. ReputationTypeOK'
    BY <1>1, <2>1, <2>2 DEF ReputationTypeOK
  <2> QED
    BY <1>1, <1>2, <2>1, <2>2, <2>3, PlainStep DEF At
<1>4. CASE reviews[x].status = "AUSENTE"
  <2> DEFINE new == [reviews[x] EXCEPT !.status = "PENDENTE", !.nota = task[w].nota]
  <2>1. reviews' = [reviews EXCEPT ![x].status = "PENDENTE", ![x].nota = task[w].nota]
        /\ Goto(w, "count")
    BY <1>4 DEF InsertReview
  <2>2. new \in Review /\ new.status = "PENDENTE"
    <3>1. reviews[x] \in Review
      BY <1>1, <1>2 DEF ReputationTypeOK
    <3>2. task[w].nota \in Notas \cup {0}
      BY <1>1 DEF Task
    <3> QED
      BY <3>1, <3>2 DEF Review
  <2>3. reviews' = [reviews EXCEPT ![x] = new]
    BY <1>1, <1>2, <2>1 DEF ReputationTypeOK
  <2>4. /\ reviews' \in [ReviewIds -> Review] /\ reviews'[x].status = "PENDENTE"
        /\ \A r \in ReviewIds \ {x} : reviews'[r] = reviews[r]
    <3> HIDE DEF new
    <3> QED
      BY <1>1, <1>2, <2>2, <2>3 DEF ReputationTypeOK
  <2>5. /\ task' \in [Workers -> Task] /\ OthersWait(w)
        /\ task'[w].step = "count" /\ task'[w].job = FALSE /\ task'[w].booking = b
    BY <1>1, <1>2, <2>1, MovesTo
  <2>6. Forward
    BY <1>4, <2>4 DEF Forward
  <2> HIDE DEF x, new
  <2>7. \A c \in Bookings \ {b} : /\ Both(c)' <=> Both(c)
                                  /\ \A r \in ReviewsOf(c) : reviews'[r] = reviews[r]
    BY <1>2, <2>4 DEF Both, ReviewsOf
  <2>8. TaskOK(task[w])'
    <3>1. x \in ReviewsOf(b) /\ reviews'[x].status # "AUSENTE"
      BY <1>2, <2>4
    <3> QED
      BY <1>2, <2>5, <3>1 DEF TaskOK, Running, AfterReveal, Some, ReviewsOf
  <2>9. \A v \in Workers : TaskOK(task[v])'
    BY <1>1, <2>5, <2>6, <2>8, OthersStay
  <2>10. \A c \in Bookings : RevealJobOK(c)'
    BY <1>1, <1>2, <2>5, <2>6, RevealJobSame
  <2>11. RunnersOK'
    BY <2>5, RunnersSame
  <2>12. BlindOK'
    <3>1. now' \in Nat /\ now <= now'
      BY <1>1 DEF ReputationTypeOK
    <3> QED
      BY <2>4, <2>6, <3>1, BlindSame
  <2>13. TogetherOK'
    <3> SUFFICES ASSUME failures' = 0, NEW r \in ReviewIds, reviews'[r].status = "PENDENTE", Both(r[1])'
                 PROVE  \E v \in Workers : task'[v].booking = r[1] /\ task'[v].step \in {"count", "reveal"}
      BY DEF TogetherOK
    <3>1. CASE r[1] = b
      BY <2>5, <3>1
    <3>2. CASE r[1] # b
      <4>1. r[1] \in Bookings /\ r # x
        BY <1>2, <3>2, ReviewParts
      <4>2. Both(r[1]) /\ reviews[r].status = "PENDENTE"
        BY <2>4, <2>7, <3>2, <4>1
      <4>3. PICK v \in Workers : task[v].booking = r[1] /\ task[v].step \in {"count", "reveal"}
        BY <1>1, <4>2 DEF ReputationInv, TogetherOK
      <4> QED
        BY <2>5, <3>2, <4>3 DEF OthersWait
    <3> QED
      BY <3>1, <3>2
  <2>14. ScheduledOK'
    <3> SUFFICES ASSUME failures' = 0, NEW r \in ReviewIds, reviews'[r].status = "PENDENTE",
                        revealJobs'[r[1]].state # "delayed"
                 PROVE  \E v \in Workers : /\ task'[v].booking = r[1]
                                           /\ task'[v].step \in {"count", "reveal", "schedule"}
      BY DEF ScheduledOK
    <3>1. CASE r[1] = b
      BY <2>5, <3>1
    <3>2. CASE r[1] # b
      <4>1. r # x /\ reviews[r].status = "PENDENTE"
        BY <1>2, <2>4, <3>2
      <4>2. PICK v \in Workers : task[v].booking = r[1] /\ task[v].step \in {"count", "reveal", "schedule"}
        BY <1>1, <4>1 DEF ReputationInv, ScheduledOK
      <4> QED
        BY <2>5, <3>2, <4>2 DEF OthersWait
    <3> QED
      BY <3>1, <3>2
  <2>15. ReputationTypeOK'
    BY <1>1, <2>4, <2>5 DEF ReputationTypeOK
  <2> QED
    BY <2>9, <2>10, <2>11, <2>12, <2>13, <2>14, <2>15 DEF ReputationInv
<1> QED
  BY <1>3, <1>4

LEMMA CountReviewsKeeps ==
  ASSUME ReputationInv, NEW w \in Workers, CountReviews(w)
  PROVE  ReputationInv'
<1> DEFINE b == task[w].booking
           step == IF shouldReveal(Cardinality(Written(b))) THEN "reveal" ELSE "schedule"
<1>1. /\ At(w, "count") /\ TaskOK(task[w]) /\ ReputationTypeOK /\ Goto(w, step)
      /\ UNCHANGED <<reviews, responses, badges, revealJobs, now, failures>>
  BY DEF CountReviews, ReputationInv
<1>2. b \in Bookings /\ Some(b) /\ ~task[w].job
  BY <1>1 DEF At, TaskOK, Running, AfterReveal
<1>3. step \in {"reveal", "schedule"} /\ (step = "reveal" <=> Both(b))
  BY <1>2, WrittenCount
<1> HIDE DEF step
<1>4. /\ task' \in [Workers -> Task] /\ OthersWait(w) /\ task'[w].step = step
      /\ task'[w].job = task[w].job /\ task'[w].booking = b
  BY <1>1, <1>3, MovesTo
<1>5. TaskOK(task[w])'
  <2>1. \A c : (Both(c)' <=> Both(c)) /\ (Some(c)' <=> Some(c))
    BY <1>1 DEF Both, Some, ReviewsOf
  <2>2. task'[w].step = "reveal" => Both(task[w].booking)'
    BY <1>3, <1>4, <2>1
  <2>3. Some(task[w].booking)'
    BY <1>2, <1>4, <2>1
  <2> QED
    BY <1>2, <1>3, <1>4, <2>2, <2>3 DEF TaskOK, Running, AfterReveal
<1>6. ReputationTypeOK'
  BY <1>1, <1>4 DEF ReputationTypeOK
<1> QED
  BY <1>1, <1>3, <1>4, <1>5, <1>6, PlainStep

\* Every review of the booking that was pending comes out.
LEMMA RevealPendingKeeps ==
  ASSUME ReputationInv, NEW w \in Workers, RevealPending(w)
  PROVE  ReputationInv'
<1> DEFINE b == task[w].booking
           R == Pending(b)
           k == [task[w] EXCEPT !.step = "ratings", !.alvos = {alvoOf(r) : r \in R}]
<1>1. /\ At(w, "reveal") /\ TaskOK(task[w]) /\ ReputationTypeOK /\ task[w] \in Task
      /\ reviews' = [r \in ReviewIds |->
           IF r \in R THEN [reviews[r] EXCEPT !.status = "REVELADA", !.reveladaEm = now]
                      ELSE reviews[r]]
      /\ UNCHANGED <<responses, badges, revealJobs, now, failures>>
      /\ now \in Nat
  BY DEF RevealPending, ReputationInv, ReputationTypeOK
<1>2. b \in Bookings /\ Some(b) /\ (Both(b) \/ now >= REVIEW_WINDOW_DAYS)
  BY <1>1 DEF At, TaskOK, Running
<1>3. \A r \in ReviewIds : r \in R <=> r[1] = b /\ reviews[r].status = "PENDENTE"
  BY DEF Pending, ReviewsOf
<1>4. /\ k \in Task /\ k.step = "ratings" /\ k.booking = b /\ k.job = task[w].job
      /\ task' = [task EXCEPT ![w] = k]
  <2>1. {alvoOf(r) : r \in R} \in SUBSET Users
    BY ReviewParts DEF Pending, ReviewsOf
  <2>2. task' = [task EXCEPT ![w] = k]
    BY <1>1 DEF RevealPending
  <2> HIDE DEF R
  <2> QED
    BY <1>1, <2>1, <2>2 DEF Task
<1> HIDE DEF k
<1>5. task' \in [Workers -> Task] /\ OthersWait(w) /\ task'[w] = k
  BY <1>1, <1>4, Moves
<1>6. ASSUME NEW r \in ReviewIds
      PROVE  /\ reviews'[r] \in Review
             /\ r \in R => reviews'[r].status = "REVELADA"
             /\ r \notin R => reviews'[r] = reviews[r]
  <2>1. reviews[r] \in Review
    BY <1>1 DEF ReputationTypeOK
  <2>2. [reviews[r] EXCEPT !.status = "REVELADA", !.reveladaEm = now] \in Review
    BY <1>1, <2>1 DEF Review
  <2>3. [reviews[r] EXCEPT !.status = "REVELADA", !.reveladaEm = now].status = "REVELADA"
    BY <2>1 DEF Review
  <2> HIDE DEF R
  <2> QED
    BY <1>1, <2>1, <2>2, <2>3
<1>7. reviews' \in [ReviewIds -> Review]
  <2> HIDE DEF R
  <2> QED
    BY <1>1, <1>6
<1> HIDE DEF R
<1>8. Forward /\ \A r \in ReviewIds : reviews'[r].status = "PENDENTE" =>
                   reviews[r].status = "PENDENTE" /\ r[1] # b
  BY <1>3, <1>6 DEF Forward
<1>9. Out(b)'
  <2>1. PICK r \in ReviewsOf(b) : reviews[r].status # "AUSENTE"
    BY <1>2 DEF Some
  <2>2. r \in ReviewIds /\ r[1] = b /\ reviews[r] \in Review
    BY <1>1, <2>1 DEF ReviewsOf, ReputationTypeOK
  <2>3. reviews[r].status \in {"PENDENTE", "REVELADA", "OCULTA"}
    BY <2>1, <2>2 DEF Review
  <2>4. reviews'[r].status \in {"REVELADA", "OCULTA"}
    BY <1>3, <1>6, <2>2, <2>3
  <2>5. k.booking = b /\ r \in ReviewIds
    BY <1>4, <2>2
  <2> HIDE DEF b
  <2>6. task'[w].booking = b
    BY <1>4, <1>5
  <2> QED
    BY <1>4, <1>5, <2>2, <2>4, <2>6 DEF Out, ReviewsOf, b
<1>10. TaskOK(task[w])'
  <2>1. \A r \in ReviewIds : reviews'[r].status \in {"REVELADA", "OCULTA"} =>
                               reviews'[r].status # "AUSENTE"
    OBVIOUS
  <2>2. Some(task[w].booking)' /\ Out(task[w].booking)'
    BY <1>4, <1>5, <1>9 DEF Some, Out, ReviewsOf
  <2>3. task'[w].job => revealJobs'[task'[w].booking].state = "active"
    BY <1>1, <1>4, <1>5 DEF TaskOK
  <2>4. task'[w].step = "ratings" /\ task'[w].booking \in Bookings
    BY <1>2, <1>4, <1>5
  <2> QED
    BY <2>2, <2>3, <2>4 DEF TaskOK, Running, AfterReveal
<1>11. \A v \in Workers : TaskOK(task[v])'
  BY <1>1, <1>5, <1>8, <1>10, OthersStay
<1>12. /\ task'[w].job = task[w].job /\ task'[w].booking = b /\ task'[w].step = "ratings"
  BY <1>4, <1>5
<1>13. \A c \in Bookings : RevealJobOK(c)'
  BY <1>1, <1>5, <1>8, <1>12, RevealJobSame
<1>14. RunnersOK'
  BY <1>5, <1>12, RunnersSame
<1>15. BlindOK'
  <2> SUFFICES ASSUME NEW r \in ReviewIds, reviews'[r].status \in {"REVELADA", "OCULTA"}
               PROVE  now' >= REVIEW_WINDOW_DAYS \/ Both(r[1])'
    BY DEF BlindOK
  <2>1. Both(r[1]) \/ now >= REVIEW_WINDOW_DAYS
    <3>1. CASE r \in R
      BY <1>2, <1>3, <3>1
    <3>2. CASE r \notin R
      BY <1>6, <3>2 DEF ReputationInv, BlindOK
    <3> QED
      BY <3>1, <3>2
  <2> QED
    BY <1>1, <1>8, <2>1, ForwardBooking
<1>16. TogetherOK'
  <2> SUFFICES ASSUME failures' = 0, NEW r \in ReviewIds, reviews'[r].status = "PENDENTE", Both(r[1])'
               PROVE  \E v \in Workers : task'[v].booking = r[1] /\ task'[v].step \in {"count", "reveal"}
    BY DEF TogetherOK
  <2>1. reviews[r].status = "PENDENTE" /\ r[1] # b /\ Both(r[1])
    <3>1. reviews[r].status = "PENDENTE" /\ r[1] # b
      BY <1>8
    <3>2. \A x \in ReviewsOf(r[1]) : reviews'[x] = reviews[x]
      BY <1>3, <1>6, <3>1 DEF ReviewsOf
    <3> QED
      BY <3>1, <3>2 DEF Both, ReviewsOf
  <2>2. PICK v \in Workers : task[v].booking = r[1] /\ task[v].step \in {"count", "reveal"}
    BY <1>1, <2>1 DEF ReputationInv, TogetherOK
  <2> QED
    BY <1>5, <2>1, <2>2 DEF OthersWait
<1>17. ScheduledOK'
  <2> SUFFICES ASSUME failures' = 0, NEW r \in ReviewIds, reviews'[r].status = "PENDENTE",
                      revealJobs'[r[1]].state # "delayed"
               PROVE  \E v \in Workers : /\ task'[v].booking = r[1]
                                         /\ task'[v].step \in {"count", "reveal", "schedule"}
    BY DEF ScheduledOK
  <2>1. reviews[r].status = "PENDENTE" /\ r[1] # b
    BY <1>8
  <2>2. PICK v \in Workers : task[v].booking = r[1] /\ task[v].step \in {"count", "reveal", "schedule"}
    BY <1>1, <2>1 DEF ReputationInv, ScheduledOK
  <2> QED
    BY <1>5, <2>1, <2>2 DEF OthersWait
<1>18. ReputationTypeOK'
  BY <1>1, <1>5, <1>7 DEF ReputationTypeOK
<1> QED
  BY <1>11, <1>13, <1>14, <1>15, <1>16, <1>17, <1>18 DEF ReputationInv

--------------------------------------------------------------------------------
(* The badges *)

\* A handler that has revealed goes on recomputing the badges.
LEMMA RecomputeStep ==
  ASSUME ReputationInv, NEW w \in Workers, task[w].step \in AfterReveal,
         NEW k \in Task, task' = [task EXCEPT ![w] = k],
         k.step \in AfterReveal \cup {"schedule"}, k.job = task[w].job, k.booking = task[w].booking,
         k.step \in {"active", "apply"} => k.autor \in Users,
         k.job => k.step # "schedule", k.step = "completeJob" => k.job,
         badges' \in [Users -> SUBSET BadgeCode],
         UNCHANGED <<reviews, responses, revealJobs, now, failures>>
  PROVE  ReputationInv'
<1>1. ReputationTypeOK /\ TaskOK(task[w])
  BY DEF ReputationInv
<1>2. task' \in [Workers -> Task] /\ OthersWait(w) /\ task'[w] = k
  BY <1>1, Moves
<1>3. /\ k.booking \in Bookings /\ Some(k.booking) /\ Out(k.booking)
      /\ k.job => revealJobs[k.booking].state = "active"
  BY <1>1 DEF TaskOK, Running, AfterReveal
<1>4. Some(task[w].booking)' /\ Out(task[w].booking)'
  BY <1>2, <1>3 DEF Some, Out, ReviewsOf
<1>5. TaskOK(task[w])'
  BY <1>2, <1>3, <1>4 DEF TaskOK, Running, AfterReveal
<1>6. ReputationTypeOK'
  BY <1>1, <1>2 DEF ReputationTypeOK
<1>7. task[w].step \notin {"count", "reveal", "schedule"}
  BY DEF AfterReveal
<1> QED
  BY <1>2, <1>5, <1>6, <1>7, PlainStep

LEMMA ReadRatingsKeeps ==
  ASSUME ReputationInv, NEW w \in Workers, ReadRatings(w)
  PROVE  ReputationInv'
<1>1. /\ At(w, "ratings") /\ TaskOK(task[w]) /\ ReputationTypeOK /\ task[w] \in Task
      /\ task[w].step \in AfterReveal /\ task[w].job \in BOOLEAN
      /\ UNCHANGED <<reviews, responses, badges, revealJobs, now, failures>>
      /\ badges' \in [Users -> SUBSET BadgeCode]
  BY DEF ReadRatings, ReputationInv, ReputationTypeOK, At, AfterReveal, Task
<1>2. CASE task[w].alvos = {}
  <2> DEFINE step == IF task[w].job THEN "completeJob" ELSE "schedule"
             k == [task[w] EXCEPT !.step = step]
  <2>1. k \in Task /\ k.step = step /\ k.job = task[w].job /\ k.booking = task[w].booking
    BY <1>1 DEF Task
  <2>2. task' = [task EXCEPT ![w] = k]
    BY <1>1, <1>2 DEF ReadRatings, Goto
  <2>3. /\ step \in {"completeJob", "schedule"} /\ (task[w].job => step # "schedule")
        /\ step = "completeJob" => task[w].job
    OBVIOUS
  <2> HIDE DEF k, step
  <2> QED
    BY <1>1, <2>1, <2>2, <2>3, RecomputeStep DEF AfterReveal
<1>3. CASE task[w].alvos # {}
  <2>1. PICK u \in task[w].alvos :
          task' = [task EXCEPT ![w].step = "active", ![w].autor = u,
            ![w].earned = computeBadges(Cardinality(RatingsOf(u)), averageRating(RatingsOf(u)))]
    BY <1>1, <1>3 DEF ReadRatings
  <2> DEFINE earned == computeBadges(Cardinality(RatingsOf(u)), averageRating(RatingsOf(u)))
             k == [task[w] EXCEPT !.step = "active", !.autor = u, !.earned = earned]
  <2>2. u \in Users /\ earned \in SUBSET BadgeCode
    BY <1>1 DEF Task, computeBadges
  <2>3. task' = [task EXCEPT ![w] = k]
    BY <1>1, <2>1
  <2> HIDE DEF earned
  <2>4. /\ k \in Task /\ k.step = "active" /\ k.autor = u
        /\ k.job = task[w].job /\ k.booking = task[w].booking
    BY <1>1, <2>2 DEF Task
  <2> HIDE DEF k
  <2> QED
    BY <1>1, <2>2, <2>3, <2>4, RecomputeStep DEF AfterReveal
<1> QED
  BY <1>2, <1>3

LEMMA ReadActiveKeeps ==
  ASSUME ReputationInv, NEW w \in Workers, ReadActive(w)
  PROVE  ReputationInv'
<1> DEFINE u == task[w].autor
           grant == task[w].earned \ badges[u]
           revoke == badges[u] \ task[w].earned
           k == [task[w] EXCEPT !.step = "apply", !.earned = {}, !.toGrant = grant, !.toRevoke = revoke]
<1>1. /\ At(w, "active") /\ TaskOK(task[w]) /\ ReputationTypeOK /\ task[w] \in Task
      /\ task[w].step \in AfterReveal
      /\ UNCHANGED <<reviews, responses, badges, revealJobs, now, failures>>
      /\ badges \in [Users -> SUBSET BadgeCode]
  BY DEF ReadActive, ReputationInv, ReputationTypeOK, At, AfterReveal
<1>2. u \in Users
  BY <1>1 DEF At, TaskOK
<1>3. grant \in SUBSET BadgeCode /\ revoke \in SUBSET BadgeCode
  BY <1>1, <1>2 DEF Task
<1>4. task' = [task EXCEPT ![w] = k]
  BY <1>1 DEF ReadActive
<1> HIDE DEF grant, revoke
<1>5. /\ k \in Task /\ k.step = "apply" /\ k.autor = u
      /\ k.job = task[w].job /\ k.booking = task[w].booking
  BY <1>1, <1>3 DEF Task
<1> HIDE DEF k
<1> QED
  BY <1>1, <1>2, <1>4, <1>5, RecomputeStep DEF AfterReveal

--------------------------------------------------------------------------------
(* The job that reveals *)

\* A handler lets go of its job, which it ends, or which failed or goes back to waiting.
LEMMA JobEnds ==
  ASSUME ReputationInv, NEW w \in Workers, task[w].job, Finish(w),
         revealJobs' \in Queue(Bookings), OneJob(revealJobs, revealJobs', Bookings, task[w].booking),
         revealJobs'[task[w].booking].state # "active",
         revealJobs'[task[w].booking].state # "absent" =>
           revealJobs'[task[w].booking].at = revealJobs[task[w].booking].at,
         failures' \in Nat, failures' = 0 => failures = 0 /\ task[w].step \in AfterReveal,
         UNCHANGED <<reviews, responses, badges, now>>
  PROVE  ReputationInv'
<1> DEFINE b == task[w].booking
           j == revealJobs'[b]
<1>1. /\ ReputationTypeOK /\ TaskOK(task[w]) /\ now' \in Nat /\ now <= now' /\ Forward
  BY DEF ReputationInv, ReputationTypeOK, Forward
<1>2. b \in Bookings /\ Some(b) /\ (task[w].step \in AfterReveal => Out(b))
      /\ revealJobs[b].state = "active"
  BY <1>1 DEF TaskOK, Running, AfterReveal
<1>3. /\ task' \in [Workers -> Task] /\ OthersWait(w) /\ task'[w].step = "idle"
      /\ task'[w].job = FALSE /\ TaskOK(task[w])'
  BY <1>1, Ends
<1>4. ReputationTypeOK'
  BY <1>1, <1>3 DEF ReputationTypeOK
<1>5. \A v \in Workers \ {w} : task[v].job => task[v].booking # b
  BY DEF ReputationInv, RunnersOK
<1>6. \A v \in Workers : TaskOK(task[v])'
  <2>1. ASSUME NEW v \in Workers \ {w}, task[v].job
        PROVE  revealJobs'[task[v].booking] = revealJobs[task[v].booking]
    <3>1. task[v].booking \in Bookings
      BY <2>1 DEF ReputationInv, TaskOK, Running, AfterReveal
    <3> QED
      BY <1>5, <2>1, <3>1 DEF OneJob
  <2> QED
    BY <1>1, <1>3, <2>1, OthersStay
<1>7. RunnersOK'
  BY <1>3, RunnersSame
<1>8. \A c : (Both(c)' <=> Both(c)) /\ (Some(c)' <=> Some(c)) /\ (Out(c)' <=> Out(c))
  BY DEF Both, Some, Out, ReviewsOf
<1>9. ASSUME NEW c \in Bookings PROVE RevealJobOK(c)'
  <2>1. RevealJobOK(c)
    BY DEF ReputationInv
  <2>2. CASE c = b
    <3>1. j.state # "absent" => j.at = REVIEW_WINDOW_DAYS
      BY <1>2, <2>1, <2>2 DEF RevealJobOK
    <3>2. Some(c)' /\ (failures' = 0 => Out(c)')
      BY <1>2, <1>8, <2>2
    <3> QED
      BY <2>2, <3>1, <3>2 DEF RevealJobOK
  <2>3. CASE c # b
    <3>1. revealJobs'[c] = revealJobs[c]
      BY <2>3 DEF OneJob
    <3>2. ASSUME failures' = 0, revealJobs[c].state = "active"
          PROVE  \E v \in Workers : task'[v].job /\ task'[v].booking = c
      <4>1. PICK v \in Workers : task[v].job /\ task[v].booking = c
        BY <2>1, <3>2 DEF RevealJobOK
      <4>2. task'[v] = task[v]
        BY <1>3, <2>3, <4>1 DEF OthersWait
      <4> QED
        BY <4>1, <4>2
    <3>3. revealJobs'[c].state # "absent" => revealJobs'[c].at = REVIEW_WINDOW_DAYS /\ Some(c)'
      BY <1>8, <2>1, <3>1 DEF RevealJobOK
    <3>4. failures' = 0 /\ revealJobs'[c].state = "failed" => Out(c)'
      BY <1>8, <2>1, <3>1 DEF RevealJobOK
    <3> QED
      BY <3>1, <3>2, <3>3, <3>4 DEF RevealJobOK
  <2> QED
    BY <2>2, <2>3
<1>10. BlindOK'
  BY <1>1, BlindSame
<1>11. TogetherOK'
  BY <1>3, TogetherSame DEF AfterReveal
<1>12. ScheduledOK'
  <2> SUFFICES ASSUME failures' = 0, NEW r \in ReviewIds, reviews[r].status = "PENDENTE",
                      revealJobs'[r[1]].state # "delayed"
               PROVE  \E v \in Workers : /\ task'[v].booking = r[1]
                                         /\ task'[v].step \in {"count", "reveal", "schedule"}
    BY DEF ScheduledOK
  <2>1. PICK v \in Workers : task[v].booking = r[1] /\ task[v].step \in {"count", "reveal", "schedule"}
    <3>1. CASE r[1] = b
      <4>1. Both(b)
        BY <1>2, <3>1, OutAndPending, ReviewParts
      <4> QED
        BY <3>1, <4>1 DEF ReputationInv, TogetherOK
    <3>2. CASE r[1] # b
      <4>1. revealJobs[r[1]].state # "delayed"
        BY <3>2, ReviewParts DEF OneJob
      <4> QED
        BY <4>1 DEF ReputationInv, ScheduledOK
    <3> QED
      BY <3>1, <3>2
  <2>2. v # w
    BY <2>1 DEF AfterReveal
  <2> QED
    BY <1>3, <2>1, <2>2 DEF OthersWait
<1> QED
  BY <1>4, <1>6, <1>7, <1>9, <1>10, <1>11, <1>12 DEF ReputationInv

LEMMA ApplyBadgesKeeps ==
  ASSUME ReputationInv, NEW w \in Workers, ApplyBadges(w)
  PROVE  ReputationInv'
<1> DEFINE u == task[w].autor
           b == task[w].booking
<1>1. /\ At(w, "apply") /\ TaskOK(task[w]) /\ ReputationTypeOK /\ task[w] \in Task
      /\ task[w].step \in AfterReveal
      /\ UNCHANGED <<reviews, responses, now, failures>>
      /\ badges \in [Users -> SUBSET BadgeCode]
  BY DEF ApplyBadges, ReputationInv, ReputationTypeOK, At, AfterReveal
<1>2. /\ u \in Users /\ task[w].alvos \subseteq Users
      /\ task[w].toGrant \subseteq BadgeCode /\ task[w].toRevoke \subseteq BadgeCode
  BY <1>1 DEF At, TaskOK, Task
<1>3. ASSUME NEW c \in task[w].toGrant \ badges[u], badges' = [badges EXCEPT ![u] = @ \cup {c}],
             task' = [task EXCEPT ![w].toGrant = @ \ {c}], UNCHANGED revealJobs
      PROVE  ReputationInv'
  <2> DEFINE grant == task[w].toGrant \ {c}
             k == [task[w] EXCEPT !.toGrant = grant]
  <2>1. badges' \in [Users -> SUBSET BadgeCode] /\ grant \in SUBSET BadgeCode
    BY <1>1, <1>2, <1>3
  <2>2. task' = [task EXCEPT ![w] = k]
    BY <1>1, <1>3 DEF ReputationTypeOK
  <2> HIDE DEF grant
  <2>3. /\ k \in Task /\ k.step = task[w].step /\ k.autor = u
        /\ k.job = task[w].job /\ k.booking = b
    BY <1>1, <2>1 DEF Task
  <2> HIDE DEF k
  <2>4. task[w].step = "apply"
    BY <1>1 DEF At
  <2> QED
    BY <1>1, <1>2, <1>3, <2>1, <2>2, <2>3, <2>4, RecomputeStep DEF AfterReveal
<1>4. ASSUME revealJobs' = IF task[w].job THEN Fail(revealJobs, b) ELSE revealJobs,
             Finish(w), UNCHANGED badges
      PROVE  ReputationInv'
  <2>1. CASE task[w].job
    <3>1. b \in Bookings /\ revealJobs \in Queue(Bookings)
      BY <1>1 DEF TaskOK, AfterReveal, ReputationTypeOK
    <3>2. /\ revealJobs' \in Queue(Bookings) /\ OneJob(revealJobs, revealJobs', Bookings, b)
          /\ revealJobs'[b].state = "failed" /\ revealJobs'[b].at = revealJobs[b].at
      BY <1>4, <2>1, <3>1, QueueFail
    <3>3. failures' \in Nat
      BY <1>1 DEF ReputationTypeOK
    <3> QED
      BY <1>1, <1>4, <2>1, <3>2, <3>3, JobEnds
  <2>2. CASE ~task[w].job
    <3>1. /\ task' \in [Workers -> Task] /\ OthersWait(w) /\ TaskOK(task[w])'
          /\ task'[w].job = FALSE
      BY <1>1, <1>4, Ends
    <3>2. ReputationTypeOK'
      BY <1>1, <1>4, <2>2, <3>1 DEF ReputationTypeOK
    <3>3. task[w].job = FALSE /\ task[w].step \notin {"count", "reveal", "schedule"}
      BY <1>1, <2>2 DEF Task, AfterReveal
    <3> QED
      BY <1>1, <1>4, <2>2, <3>1, <3>2, <3>3, PlainStep
  <2> QED
    BY <2>1, <2>2
<1>5. ASSUME NEW c \in task[w].toRevoke, badges' = [badges EXCEPT ![u] = @ \ {c}],
             task' = [task EXCEPT ![w].toRevoke = @ \ {c}], UNCHANGED revealJobs
      PROVE  ReputationInv'
  <2> DEFINE revoke == task[w].toRevoke \ {c}
             k == [task[w] EXCEPT !.toRevoke = revoke]
  <2>1. badges' \in [Users -> SUBSET BadgeCode] /\ revoke \in SUBSET BadgeCode
    BY <1>1, <1>2, <1>5
  <2>2. task' = [task EXCEPT ![w] = k]
    BY <1>1, <1>5 DEF ReputationTypeOK
  <2> HIDE DEF revoke
  <2>3. /\ k \in Task /\ k.step = task[w].step /\ k.autor = u
        /\ k.job = task[w].job /\ k.booking = b
    BY <1>1, <2>1 DEF Task
  <2> HIDE DEF k
  <2>4. task[w].step = "apply"
    BY <1>1 DEF At
  <2> QED
    BY <1>1, <1>2, <1>5, <2>1, <2>2, <2>3, <2>4, RecomputeStep DEF AfterReveal
<1>6. ASSUME task' = [task EXCEPT ![w].step = "ratings", ![w].autor = NoUser, ![w].alvos = @ \ {u}],
             UNCHANGED <<badges, revealJobs>>
      PROVE  ReputationInv'
  <2> DEFINE alvos == task[w].alvos \ {u}
             k == [task[w] EXCEPT !.step = "ratings", !.autor = NoUser, !.alvos = alvos]
  <2>1. badges' \in [Users -> SUBSET BadgeCode] /\ alvos \in SUBSET Users
    BY <1>1, <1>2, <1>6
  <2>2. task' = [task EXCEPT ![w] = k]
    BY <1>1, <1>6 DEF ReputationTypeOK
  <2> HIDE DEF alvos
  <2>3. k \in Task /\ k.step = "ratings" /\ k.job = task[w].job /\ k.booking = b
    BY <1>1, <2>1 DEF Task
  <2> HIDE DEF k
  <2> QED
    BY <1>1, <1>6, <2>1, <2>2, <2>3, RecomputeStep DEF AfterReveal
<1> QED
  BY <1>3, <1>4, <1>5, <1>6 DEF ApplyBadges

\* The job of the first review reveals both; when it is there already, it has revealed
\* or somebody else is going to.
LEMMA ScheduleRevealKeeps ==
  ASSUME ReputationInv, NEW w \in Workers, ScheduleReveal(w)
  PROVE  ReputationInv'
<1> DEFINE b == task[w].booking
<1>1. /\ At(w, "schedule") /\ TaskOK(task[w]) /\ ReputationTypeOK /\ Finish(w)
      /\ revealJobs' = Add(revealJobs, b, REVIEW_WINDOW_DAYS)
      /\ UNCHANGED <<reviews, responses, badges, now, failures>>
      /\ now' \in Nat /\ now <= now' /\ Forward
  BY DEF ScheduleReveal, ReputationInv, ReputationTypeOK, Forward
<1>2. b \in Bookings /\ Some(b) /\ ~task[w].job
  BY <1>1 DEF At, TaskOK, Running, AfterReveal
<1>3. /\ revealJobs' \in Queue(Bookings) /\ OneJob(revealJobs, revealJobs', Bookings, b)
      /\ revealJobs[b].state = "absent" =>
           revealJobs'[b].state = "delayed" /\ revealJobs'[b].at = REVIEW_WINDOW_DAYS
      /\ revealJobs[b].state # "absent" => revealJobs' = revealJobs
  BY <1>1, <1>2, QueueAdd, ReputationAssumption DEF ReputationTypeOK
<1>4. /\ task' \in [Workers -> Task] /\ OthersWait(w) /\ task'[w].step = "idle"
      /\ task'[w].job = FALSE /\ TaskOK(task[w])'
  BY <1>1, Ends
<1>5. ReputationTypeOK'
  BY <1>1, <1>3, <1>4 DEF ReputationTypeOK
<1>6. \A v \in Workers : TaskOK(task[v])'
  <2>1. ASSUME NEW v \in Workers \ {w}, task[v].job
        PROVE  revealJobs'[task[v].booking] = revealJobs[task[v].booking]
    <3>1. task[v].booking \in Bookings /\ revealJobs[task[v].booking].state = "active"
      BY <2>1 DEF ReputationInv, TaskOK, Running, AfterReveal
    <3> QED
      BY <1>3, <3>1 DEF OneJob
  <2> QED
    BY <1>1, <1>4, <2>1, OthersStay
<1>7. RunnersOK'
  BY <1>4, RunnersSame
<1>8. ASSUME NEW c \in Bookings PROVE RevealJobOK(c)'
  <2>1. CASE c = b /\ revealJobs[b].state = "absent"
    <3>1. Some(c)'
      BY <1>1, <1>2, <2>1, ForwardBooking
    <3>2. revealJobs'[c].state = "delayed" /\ revealJobs'[c].at = REVIEW_WINDOW_DAYS
      BY <1>3, <2>1
    <3> QED
      BY <3>1, <3>2 DEF RevealJobOK
  <2>2. CASE c # b \/ revealJobs[b].state # "absent"
    <3>1. revealJobs'[c] = revealJobs[c]
      BY <1>3, <2>2 DEF OneJob
    <3> QED
      BY <1>1, <1>2, <1>4, <3>1, RevealJobSame
  <2> QED
    BY <2>1, <2>2
<1>9. BlindOK'
  BY <1>1, BlindSame
<1>10. TogetherOK'
  BY <1>1, <1>4, TogetherSame DEF At
<1>11. ScheduledOK'
  <2> SUFFICES ASSUME failures' = 0, NEW r \in ReviewIds, reviews[r].status = "PENDENTE",
                      revealJobs'[r[1]].state # "delayed"
               PROVE  \E v \in Workers : /\ task'[v].booking = r[1]
                                         /\ task'[v].step \in {"count", "reveal", "schedule"}
    BY <1>1 DEF ScheduledOK
  <2>1. failures = 0 /\ r[1] \in Bookings
    BY <1>1, ReviewParts
  <2>2. CASE r[1] # b
    <3>1. revealJobs[r[1]].state # "delayed"
      BY <1>3, <2>1, <2>2 DEF OneJob
    <3>2. PICK v \in Workers : task[v].booking = r[1] /\ task[v].step \in {"count", "reveal", "schedule"}
      BY <2>1, <3>1 DEF ReputationInv, ScheduledOK
    <3> QED
      BY <1>4, <2>2, <3>2 DEF OthersWait
  <2>3. CASE r[1] = b
    <3>1. revealJobs' = revealJobs /\ revealJobs[b].state \in {"active", "failed"}
      BY <1>1, <1>2, <1>3, <2>3 DEF ReputationTypeOK, Queue, Job, JobStates
    <3>2. PICK v \in Workers : task[v].booking = b /\ task[v].step \in {"count", "reveal"}
      <4>1. CASE Out(b)
        <5>1. Both(b)
          BY <1>2, <2>3, <4>1, OutAndPending, ReviewParts
        <5> QED
          BY <2>1, <2>3, <5>1 DEF ReputationInv, TogetherOK
      <4>2. CASE ~Out(b)
        <5>1. PICK v \in Workers : task[v].job /\ task[v].booking = b
          BY <1>2, <2>1, <3>1, <4>2 DEF ReputationInv, RevealJobOK
        <5>2. TaskOK(task[v])
          BY <5>1 DEF ReputationInv
        <5>3. task[v].step = "reveal"
          BY <4>2, <5>1, <5>2 DEF TaskOK, Running
        <5> QED
          BY <5>1, <5>3
      <4> QED
        BY <4>1, <4>2
    <3>3. v # w
      BY <1>1, <3>2 DEF At
    <3> QED
      BY <1>4, <2>3, <3>2, <3>3 DEF OthersWait
  <2> QED
    BY <2>2, <2>3
<1> QED
  BY <1>5, <1>6, <1>7, <1>8, <1>9, <1>10, <1>11 DEF ReputationInv

LEMMA StartRevealKeeps ==
  ASSUME ReputationInv, NEW w \in Workers, NEW b \in Bookings, StartReveal(w, b)
  PROVE  ReputationInv'
<1> DEFINE k == [Idle EXCEPT !.step = "reveal", !.job = TRUE, !.booking = b]
<1>1. k \in Task /\ k.step = "reveal" /\ k.job = TRUE /\ k.booking = b
  BY IdleTask DEF Idle, Task
<1>2. /\ task' = [task EXCEPT ![w] = k] /\ ReputationTypeOK
      /\ task[w].step = "idle" /\ task[w].job = FALSE
      /\ revealJobs[b].state = "delayed" /\ revealJobs[b].at <= now
      /\ revealJobs' = Take(revealJobs, b)
      /\ UNCHANGED <<reviews, responses, badges, now, failures>>
      /\ now' \in Nat /\ now <= now' /\ Forward
  BY IdleTask DEF StartReveal, ReputationInv, Free, Due, ReputationTypeOK, Forward
<1> HIDE DEF k
<1>3. task' \in [Workers -> Task] /\ OthersWait(w) /\ task'[w] = k
  BY <1>1, <1>2, Moves
<1>4. /\ revealJobs' \in Queue(Bookings) /\ OneJob(revealJobs, revealJobs', Bookings, b)
      /\ revealJobs'[b].state = "active" /\ revealJobs'[b].at = revealJobs[b].at
  BY <1>2, QueueTake DEF ReputationTypeOK
<1>5. Some(b) /\ revealJobs[b].at = REVIEW_WINDOW_DAYS
  BY <1>2 DEF ReputationInv, RevealJobOK
<1>6. \A v \in Workers : task[v].job => task[v].booking # b /\ task[v].booking \in Bookings
  BY <1>2 DEF ReputationInv, TaskOK, Running, AfterReveal
<1>7. ReputationTypeOK'
  BY <1>2, <1>3, <1>4 DEF ReputationTypeOK
<1>8. Some(b)'
  BY <1>2, <1>5, ForwardBooking
<1>9. TaskOK(task[w])'
  <2>1. Some(task[w].booking)'
    BY <1>1, <1>3, <1>8 DEF Some, ReviewsOf
  <2>2. now' >= REVIEW_WINDOW_DAYS
    BY <1>2, <1>5, ReputationAssumption
  <2>3. task'[w].step = "reveal" /\ task'[w].booking \in Bookings
        /\ revealJobs'[task'[w].booking].state = "active"
    BY <1>1, <1>3, <1>4
  <2> QED
    BY <2>1, <2>2, <2>3 DEF TaskOK, Running, AfterReveal
<1>10. \A v \in Workers : TaskOK(task[v])'
  <2>1. \A v \in Workers \ {w} :
          task[v].job => revealJobs'[task[v].booking] = revealJobs[task[v].booking]
    BY <1>4, <1>6 DEF OneJob
  <2> QED
    BY <1>2, <1>3, <1>9, <2>1, OthersStay
<1>11. RunnersOK'
  <2>1. \A v \in Workers \ {w} : task'[v] = task[v]
    BY <1>3 DEF OthersWait
  <2>2. task'[w].booking = b
    BY <1>1, <1>3
  <2> QED
    BY <1>6, <2>1, <2>2 DEF ReputationInv, RunnersOK
<1>12. ASSUME NEW c \in Bookings PROVE RevealJobOK(c)'
  <2>1. CASE c = b
    <3>1. task'[w].job /\ task'[w].booking = b
      BY <1>1, <1>3
    <3> QED
      BY <1>4, <1>5, <1>8, <2>1, <3>1 DEF RevealJobOK
  <2>2. CASE c # b
    <3>1. revealJobs'[c] = revealJobs[c]
      BY <1>4, <2>2 DEF OneJob
    <3> QED
      BY <1>2, <1>3, <3>1, RevealJobSame
  <2> QED
    BY <2>1, <2>2
<1>13. BlindOK'
  BY <1>2, BlindSame
<1>14. TogetherOK'
  BY <1>2, <1>3, TogetherSame
<1>15. ScheduledOK'
  <2> SUFFICES ASSUME failures' = 0, NEW r \in ReviewIds, reviews[r].status = "PENDENTE",
                      revealJobs'[r[1]].state # "delayed"
               PROVE  \E v \in Workers : /\ task'[v].booking = r[1]
                                         /\ task'[v].step \in {"count", "reveal", "schedule"}
    BY <1>2 DEF ScheduledOK
  <2>1. CASE r[1] = b
    BY <1>1, <1>3, <2>1
  <2>2. CASE r[1] # b
    <3>1. revealJobs[r[1]].state # "delayed" /\ failures = 0
      BY <1>2, <1>4, <2>2, ReviewParts DEF OneJob
    <3>2. PICK v \in Workers : task[v].booking = r[1] /\ task[v].step \in {"count", "reveal", "schedule"}
      BY <3>1 DEF ReputationInv, ScheduledOK
    <3>3. v # w
      BY <1>2, <3>2
    <3> QED
      BY <1>3, <3>2, <3>3 DEF OthersWait
  <2> QED
    BY <2>1, <2>2
<1> QED
  BY <1>7, <1>10, <1>11, <1>12, <1>13, <1>14, <1>15 DEF ReputationInv

LEMMA CompleteRevealKeeps ==
  ASSUME ReputationInv, NEW w \in Workers, CompleteReveal(w)
  PROVE  ReputationInv'
<1> DEFINE b == task[w].booking
<1>1. /\ At(w, "completeJob") /\ TaskOK(task[w]) /\ ReputationTypeOK /\ Finish(w)
      /\ task[w] \in Task /\ task[w].step \in AfterReveal
      /\ revealJobs' = Complete(revealJobs, b)
      /\ UNCHANGED <<reviews, responses, badges, now, failures>>
      /\ failures' \in Nat
  BY DEF CompleteReveal, ReputationInv, ReputationTypeOK, At, AfterReveal
<1>2. b \in Bookings
  BY <1>1 DEF TaskOK, AfterReveal
<1>3. /\ revealJobs' \in Queue(Bookings) /\ OneJob(revealJobs, revealJobs', Bookings, b)
      /\ revealJobs'[b].state = "absent"
  BY <1>1, <1>2, QueueComplete DEF ReputationTypeOK
<1>4. task[w].job
  BY <1>1 DEF At, TaskOK
<1> QED
  BY <1>1, <1>3, <1>4, JobEnds

--------------------------------------------------------------------------------
(* Answers, failures *)

LEMMA RespondKeeps ==
  ASSUME ReputationInv, NEW w \in Workers, NEW r \in ReviewIds, Respond(w, r)
  PROVE  ReputationInv'
<1> DEFINE k == [Idle EXCEPT !.step = "respond", !.booking = r[1], !.autor = r[2]]
<1>1. r[1] \in Bookings /\ r[2] \in Users /\ <<r[1], r[2]>> \in ReviewIds
  BY ReviewParts
<1>2. k \in Task /\ k.step = "respond" /\ k.booking = r[1] /\ k.autor = r[2] /\ k.job = FALSE
  BY <1>1, IdleTask DEF Idle, Task
<1>3. /\ task' = [task EXCEPT ![w] = k] /\ ReputationTypeOK
      /\ UNCHANGED <<reviews, responses, badges, revealJobs, now, failures>>
      /\ task[w].step = "idle" /\ task[w].job = FALSE
  BY IdleTask DEF Respond, ReputationInv, Free
<1> HIDE DEF k
<1>4. task' \in [Workers -> Task] /\ OthersWait(w) /\ task'[w] = k
  BY <1>2, <1>3, Moves
<1>5. TaskOK(task[w])'
  BY <1>1, <1>2, <1>4 DEF TaskOK, Running, AfterReveal
<1>6. ReputationTypeOK'
  BY <1>3, <1>4 DEF ReputationTypeOK
<1>7. task'[w].job = task[w].job
  BY <1>2, <1>3, <1>4
<1> QED
  BY <1>3, <1>4, <1>5, <1>6, <1>7, PlainStep

LEMMA InsertResponseKeeps ==
  ASSUME ReputationInv, NEW w \in Workers, InsertResponse(w)
  PROVE  ReputationInv'
<1>1. /\ task[w].step = "respond" /\ TaskOK(task[w]) /\ ReputationTypeOK /\ task[w] \in Task
      /\ responses' = responses \cup {<<task[w].booking, task[w].autor>>} /\ Finish(w)
      /\ UNCHANGED <<reviews, badges, revealJobs, now, failures>>
  BY DEF InsertResponse, At, ReputationInv, ReputationTypeOK
<1>2. <<task[w].booking, task[w].autor>> \in ReviewIds /\ task[w].job = FALSE
  BY <1>1 DEF TaskOK, Running, AfterReveal, Task
<1>3. /\ task' \in [Workers -> Task] /\ OthersWait(w) /\ TaskOK(task[w])'
      /\ task'[w].job = FALSE
  BY <1>1, Ends
<1>4. ReputationTypeOK'
  BY <1>1, <1>2, <1>3 DEF ReputationTypeOK
<1> QED
  BY <1>1, <1>2, <1>3, <1>4, PlainStep

\* A handler that fails, or whose process dies, leaves its job failed or waiting.
LEMMA ReputationFailureKeeps ==
  ASSUME ReputationInv, NEW w \in Workers, ReputationFailure(w)
  PROVE  ReputationInv'
<1>1. /\ TaskOK(task[w]) /\ ReputationTypeOK /\ task[w] \in Task /\ Finish(w)
      /\ failures' \in Nat /\ failures' # 0
      /\ UNCHANGED <<reviews, responses, badges, now>>
  BY DEF ReputationFailure, ReputationInv, ReputationTypeOK
<1>2. CASE task[w].job
  <2>1. task[w].booking \in Bookings /\ revealJobs \in Queue(Bookings)
    BY <1>1, <1>2 DEF TaskOK, Running, AfterReveal, ReputationTypeOK
  <2>2. revealJobs' = Fail(revealJobs, task[w].booking) \/ revealJobs' = Stall(revealJobs, task[w].booking)
    BY <1>2 DEF ReputationFailure
  <2>3. /\ revealJobs' \in Queue(Bookings) /\ OneJob(revealJobs, revealJobs', Bookings, task[w].booking)
        /\ revealJobs'[task[w].booking].state # "active"
        /\ revealJobs'[task[w].booking].at = revealJobs[task[w].booking].at
    BY <2>1, <2>2, QueueFail
  <2> QED
    BY <1>1, <1>2, <2>3, JobEnds
<1>3. CASE ~task[w].job
  <2>1. revealJobs' = revealJobs /\ task[w].job = FALSE
    BY <1>1, <1>3 DEF ReputationFailure, Task
  <2>2. /\ task' \in [Workers -> Task] /\ OthersWait(w) /\ TaskOK(task[w])'
        /\ task'[w].job = FALSE
    BY <1>1, Ends
  <2>3. ReputationTypeOK'
    BY <1>1, <2>1, <2>2 DEF ReputationTypeOK
  <2> QED
    BY <1>1, <2>1, <2>2, <2>3, PlainStep
<1> QED
  BY <1>2, <1>3

LEMMA ReputationStepKeeps ==
  ASSUME ReputationInv, NEW w \in Workers, ReputationStep(w)
  PROVE  ReputationInv'
<1>1. CASE InsertReview(w)
  BY <1>1, InsertReviewKeeps
<1>2. CASE CountReviews(w)
  BY <1>2, CountReviewsKeeps
<1>3. CASE RevealPending(w)
  BY <1>3, RevealPendingKeeps
<1>4. CASE ReadRatings(w)
  BY <1>4, ReadRatingsKeeps
<1>5. CASE ReadActive(w)
  BY <1>5, ReadActiveKeeps
<1>6. CASE ApplyBadges(w)
  BY <1>6, ApplyBadgesKeeps
<1>7. CASE ScheduleReveal(w)
  BY <1>7, ScheduleRevealKeeps
<1>8. CASE CompleteReveal(w)
  BY <1>8, CompleteRevealKeeps
<1>9. CASE InsertResponse(w)
  BY <1>9, InsertResponseKeeps
<1> QED
  BY <1>1, <1>2, <1>3, <1>4, <1>5, <1>6, <1>7, <1>8, <1>9 DEF ReputationStep

LEMMA ReputationNextKeeps ==
  ASSUME ReputationInv, ReputationNext
  PROVE  ReputationInv'
<1>1. PICK w \in Workers :
        \/ ReputationStep(w) \/ ReputationFailure(w)
        \/ \E r \in ReviewIds, nota \in Notas : CreateReview(w, r, nota) \/ Respond(w, r)
        \/ \E b \in Bookings : StartReveal(w, b)
  BY DEF ReputationNext
<1>2. CASE ReputationStep(w)
  BY <1>2, ReputationStepKeeps
<1>3. CASE ReputationFailure(w)
  BY <1>3, ReputationFailureKeeps
<1>4. ASSUME NEW r \in ReviewIds, NEW nota \in Notas, CreateReview(w, r, nota) \/ Respond(w, r)
      PROVE  ReputationInv'
  BY <1>4, CreateReviewKeeps, RespondKeeps
<1>5. ASSUME NEW b \in Bookings, StartReveal(w, b) PROVE ReputationInv'
  BY <1>5, StartRevealKeeps
<1> QED
  BY <1>1, <1>2, <1>3, <1>4, <1>5

--------------------------------------------------------------------------------
(* What moderation and time do to the reviews *)

\* A review is written, pending or out as it was.
SameStage ==
  \A r \in ReviewIds :
    /\ reviews'[r].status = "AUSENTE" <=> reviews[r].status = "AUSENTE"
    /\ reviews'[r].status = "PENDENTE" <=> reviews[r].status = "PENDENTE"
    /\ reviews'[r].status \in {"REVELADA", "OCULTA"} <=> reviews[r].status \in {"REVELADA", "OCULTA"}

\* hide and restore change how a review that came out is shown, no more.
LEMMA HideRestore ==
  ASSUME ReputationTypeOK, NEW x,
         reviews' = hide(x) \/ reviews' = restore(x) \/ reviews' = reviews
  PROVE  reviews' \in [ReviewIds -> Review] /\ SameStage
<1>1. reviews \in [ReviewIds -> Review]
  BY DEF ReputationTypeOK
<1>2. CASE reviews' = reviews
  BY <1>1, <1>2 DEF SameStage
<1>3. ASSUME NEW status \in {"REVELADA", "OCULTA"}, reviews[x].status \in {"REVELADA", "OCULTA"},
             reviews' = [reviews EXCEPT ![x].status = status]
      PROVE  reviews' \in [ReviewIds -> Review] /\ SameStage
  <2>1. ASSUME NEW r \in ReviewIds
        PROVE  /\ reviews'[r] \in Review
               /\ r # x => reviews'[r] = reviews[r]
               /\ r = x => reviews'[r].status = status
    <3>1. reviews[r] \in Review
      BY <1>1
    <3>2. [reviews[r] EXCEPT !.status = status] \in Review
          /\ [reviews[r] EXCEPT !.status = status].status = status
      BY <3>1 DEF Review
    <3>3. reviews'[r] = IF r = x THEN [reviews[r] EXCEPT !.status = status] ELSE reviews[r]
      BY <1>1, <1>3
    <3> QED
      BY <3>1, <3>2, <3>3
  <2>2. reviews' \in [ReviewIds -> Review]
    BY <1>1, <1>3, <2>1
  <2>3. SameStage
    BY <1>3, <2>1 DEF SameStage
  <2> QED
    BY <2>2, <2>3
<1>4. CASE reviews' = hide(x)
  BY <1>2, <1>3, <1>4 DEF hide
<1>5. CASE reviews' = restore(x)
  BY <1>2, <1>3, <1>5 DEF restore
<1> QED
  BY <1>2, <1>4, <1>5

\* The handlers of the reviews may wait while time passes and moderation works.
LEMMA ReputationStays ==
  ASSUME ReputationInv, reviews' \in [ReviewIds -> Review], SameStage,
         UNCHANGED <<responses, badges, revealJobs, task>>,
         now' \in Nat, now <= now', failures' \in Nat, failures' = 0 => failures = 0
  PROVE  ReputationInv'
<1>1. Forward
  BY DEF Forward, SameStage
<1>2. \A b : /\ Both(b)' <=> Both(b)
             /\ Some(b)' <=> Some(b)
             /\ Out(b)' <=> Out(b)
  BY DEF SameStage, Both, Some, Out, ReviewsOf
<1>3. ReputationTypeOK'
  BY DEF ReputationInv, ReputationTypeOK
<1>4. \A v \in Workers : TaskOK(task[v])'
  BY <1>1, TaskStays
<1>5. ASSUME NEW b \in Bookings PROVE RevealJobOK(b)'
  <2>1. RevealJobOK(b)
    BY DEF ReputationInv
  <2> QED
    BY <1>2, <2>1 DEF RevealJobOK
<1>6. RunnersOK'
  BY DEF ReputationInv, RunnersOK
<1>7. BlindOK'
  BY <1>1, BlindSame DEF SameStage
<1>8. TogetherOK'
  BY <1>2 DEF ReputationInv, TogetherOK, SameStage
<1>9. ScheduledOK'
  BY DEF ReputationInv, ScheduledOK, SameStage
<1> QED
  BY <1>3, <1>4, <1>5, <1>6, <1>7, <1>8, <1>9 DEF ReputationInv

LEMMA ReviewsStay ==
  ASSUME ReputationInv, UNCHANGED <<responses, badges, revealJobs, task, now>>,
         failures' \in Nat, failures' = 0 => failures = 0,
         reviews' = reviews \/ \E x : reviews' = hide(x) \/ reviews' = restore(x)
  PROVE  ReputationInv'
<1>1. ReputationTypeOK /\ now' \in Nat /\ now <= now'
  BY DEF ReputationInv, ReputationTypeOK
<1>2. reviews' \in [ReviewIds -> Review] /\ SameStage
  BY <1>1, HideRestore
<1> QED
  BY <1>1, <1>2, ReputationStays

LEMMA UnchangedReputation ==
  ASSUME ReputationInv, UNCHANGED vars
  PROVE  ReputationInv'
<1>1. UNCHANGED <<reviews, responses, badges, revealJobs, task, now, failures>> /\ failures \in Nat
  BY DEF vars, reputation, ReputationInv, ReputationTypeOK
<1> QED
  BY <1>1, ReviewsStay

LEMMA TickKeeps ==
  ASSUME ReputationInv, Tick
  PROVE  ReputationInv'
<1>1. /\ UNCHANGED <<reviews, responses, badges, revealJobs, task, failures>> /\ failures \in Nat
      /\ now' \in Nat /\ now <= now' /\ reviews' \in [ReviewIds -> Review]
  BY DEF Tick, reputation, ReputationInv, ReputationTypeOK
<1>2. SameStage
  BY <1>1 DEF SameStage
<1> QED
  BY <1>1, <1>2, ReputationStays

LEMMA ModerationKeepsReputation ==
  ASSUME ReputationInv, ModerationNext
  PROVE  ReputationInv'
<1>1. failures \in Nat
  BY DEF ReputationInv, ReputationTypeOK
<1>2. ASSUME NEW m \in Moderators, ModerationStep(m) PROVE ReputationInv'
  <2>1. CASE HideReview(m)
    BY <1>1, <2>1, ReviewsStay DEF HideReview, reviewSide
  <2>2. CASE DecideContent(m)
    <3>1. reviews' = reviews \/ \E x : reviews' = hide(x) \/ reviews' = restore(x)
      BY <2>2 DEF DecideContent
    <3> QED
      BY <1>1, <2>2, <3>1, ReviewsStay DEF DecideContent, reviewSide
  <2>3. CASE RestoreReview(m)
    BY <1>1, <2>3, ReviewsStay DEF RestoreReview, reviewSide
  <2>4. CASE ScheduleRestore(m) \/ DecideReport(m) \/ SetEmAnalise(m) \/ CheckActive(m)
    BY <2>4, UnchangedReputation DEF ScheduleRestore, DecideReport, SetEmAnalise, CheckActive
  <2>5. CASE CountStrikes(m) \/ CreateSuspension(m) \/ SetSuspenso(m) \/ ScheduleLift(m)
    BY <2>5, UnchangedReputation DEF CountStrikes, CreateSuspension, SetSuspenso, ScheduleLift
  <2>6. CASE DecideAppeal(m) \/ Reactivate(m) \/ ExpireSuspension(m)
    BY <2>6, UnchangedReputation DEF DecideAppeal, Reactivate, ExpireSuspension
  <2>7. CASE CheckOther(m) \/ CompleteModerationJob(m)
    BY <2>7, UnchangedReputation DEF CheckOther, CompleteModerationJob
  <2> QED
    BY <1>2, <2>1, <2>2, <2>3, <2>4, <2>5, <2>6, <2>7 DEF ModerationStep
<1>3. ASSUME NEW m \in Moderators, ModerationFailure(m) PROVE ReputationInv'
  BY <1>1, <1>3, ReviewsStay DEF ModerationFailure, reputation
<1>4. ASSUME NEW m \in Moderators,
             \/ \E alvo \in Targets : Denunciar(m, alvo)
             \/ \E i \in ReportIds :
                  \/ \E procedente \in BOOLEAN : ResolveReport(m, i, procedente)
                  \/ StartRestore(m, i)
             \/ \E s \in SuspensionIds :
                  \/ \E grant \in BOOLEAN : ResolveAppeal(m, s, grant)
                  \/ StartLift(m, s)
      PROVE  ReputationInv'
  <2>1. UNCHANGED vars
    BY <1>4 DEF Denunciar, ResolveReport, StartRestore, ResolveAppeal, StartLift
  <2> QED
    BY <2>1, UnchangedReputation
<1>5. ASSUME NEW s \in SuspensionIds, Appeal(s) PROVE ReputationInv'
  BY <1>5, UnchangedReputation DEF Appeal
<1> QED
  BY <1>2, <1>3, <1>4, <1>5 DEF ModerationNext

--------------------------------------------------------------------------------
(* The handlers of moderation *)

OthersRest(m) == \A n \in Moderators \ {m} : caso'[n] = caso[n]

\* A row that is written stays, and an appeal is not taken back.
RowsStay ==
  /\ \A i \in ReportIds : reports[i].status # "AUSENTE" => reports'[i].status # "AUSENTE"
  /\ \A s \in SuspensionIds :
       /\ suspensions[s].status # "AUSENTE" => suspensions'[s].status # "AUSENTE"
       /\ suspensions[s].apelada => suspensions'[s].apelada

LEMMA CasoMoves ==
  ASSUME ModerationTypeOK, NEW m \in Moderators, NEW k \in Caso, caso' = [caso EXCEPT ![m] = k]
  PROVE  caso' \in [Moderators -> Caso] /\ OthersRest(m) /\ caso'[m] = k
BY DEF ModerationTypeOK, OthersRest

CasoSteps == {"hide", "scheduleRestore", "setStatus", "content", "checkActive", "strikes",
              "suspend", "setSuspenso", "scheduleLift", "restore", "setEmAnalise", "resolve",
              "expire", "checkOther", "reactivate", "completeJob"}

LEMMA CasoMovesTo ==
  ASSUME ModerationTypeOK, NEW m \in Moderators, NEW step \in CasoSteps, To(m, step)
  PROVE  /\ caso' \in [Moderators -> Caso] /\ OthersRest(m)
         /\ caso'[m].step = step /\ caso'[m].op = caso[m].op /\ caso'[m].report = caso[m].report
         /\ caso'[m].suspension = caso[m].suspension /\ caso'[m].decision = caso[m].decision
<1> DEFINE k == [caso[m] EXCEPT !.step = step]
<1>1. caso[m] \in Caso
  BY DEF ModerationTypeOK
<1>2. /\ k \in Caso /\ k.step = step /\ k.op = caso[m].op /\ k.report = caso[m].report
      /\ k.suspension = caso[m].suspension /\ k.decision = caso[m].decision
  BY <1>1 DEF Caso, CasoSteps
<1>3. caso' = [caso EXCEPT ![m] = k]
  BY DEF To
<1> HIDE DEF k
<1> QED
  BY <1>2, <1>3, CasoMoves

LEMMA FreeCaso ==
  NoCaso \in Caso /\ NoCaso.step = "idle" /\ NoCaso.op = "idle" /\ CasoOK(NoCaso)
BY DEF NoCaso, Caso, CasoOK, Opening

LEMMA CasoCloses ==
  ASSUME ModerationTypeOK, NEW m \in Moderators, Close(m)
  PROVE  /\ caso' \in [Moderators -> Caso] /\ OthersRest(m)
         /\ caso'[m].step = "idle" /\ caso'[m].op = "idle" /\ CasoOK(caso[m])'
<1>1. caso' \in [Moderators -> Caso] /\ OthersRest(m) /\ caso'[m] = NoCaso
  BY FreeCaso, CasoMoves DEF Close
<1> QED
  BY <1>1, FreeCaso DEF CasoOK, Opening

\* What a handler counts on is still so, when the step leaves the suspension it puts in
\* force as it is, and the job of the one it puts in force or lifts.
LEMMA CasoStays ==
  ASSUME ModeratorsInv, RowsStay, NEW n \in Moderators, caso'[n] = caso[n],
         caso[n].step \in Opening \/ caso[n].op = "expire" =>
           liftJobs'[caso[n].suspension] = liftJobs[caso[n].suspension],
         caso[n].step = "setSuspenso" =>
           \/ suspensions'[caso[n].suspension].apelada
           \/ suspensions'[caso[n].suspension].status = suspensions[caso[n].suspension].status
  PROVE  CasoOK(caso[n])'
<1> DEFINE k == caso[n]
<1>1. CasoOK(k) /\ caso'[n] = k
  BY DEF ModeratorsInv
<1>2. k.step \in Opening \/ k.op = "expire" => liftJobs'[k.suspension] = liftJobs[k.suspension]
  OBVIOUS
<1>3. k.step = "setSuspenso" =>
        \/ suspensions'[k.suspension].apelada
        \/ suspensions'[k.suspension].status = suspensions[k.suspension].status
  OBVIOUS
<1> HIDE DEF k
<1>4. k.step = "setSuspenso" => k.step \in Opening
  BY DEF Opening
<1>5. k.step = "setSuspenso" =>
        suspensions'[k.suspension].apelada \/ suspensions'[k.suspension].status = "ATIVA"
  BY <1>1, <1>3, <1>4 DEF CasoOK, RowsStay
<1>6. /\ k.op \in {"denunciar", "resolve", "lift"} =>
           k.report \in ReportIds /\ reports'[k.report].status # "AUSENTE"
      /\ k.op \in {"appeal", "expire"} \/ k.step \in Opening =>
           k.suspension \in SuspensionIds /\ suspensions'[k.suspension].status # "AUSENTE"
      /\ k.op = "appeal" => suspensions'[k.suspension].apelada
  BY <1>1 DEF CasoOK, RowsStay
<1>7. /\ k.step \in Opening => liftJobs'[k.suspension].state = "absent"
      /\ k.op = "expire" => liftJobs'[k.suspension].state = "active"
  BY <1>1, <1>2 DEF CasoOK
<1>8. /\ k.step \in Opening => k.op = "resolve"
      /\ k.step = "reactivate" => k.op \in {"appeal", "expire"}
      /\ k.step \in {"expire", "checkOther"} => k.op = "expire"
  BY <1>1 DEF CasoOK
<1> QED
  BY <1>1, <1>5, <1>6, <1>7, <1>8 DEF CasoOK

LEMMA OthersRestOK ==
  ASSUME ModeratorsInv, RowsStay, NEW m \in Moderators, OthersRest(m), CasoOK(caso[m])',
         \A n \in Moderators \ {m} :
           /\ caso[n].step \in Opening \/ caso[n].op = "expire" =>
                liftJobs'[caso[n].suspension] = liftJobs[caso[n].suspension]
           /\ caso[n].step = "setSuspenso" =>
                \/ suspensions'[caso[n].suspension].apelada
                \/ suspensions'[caso[n].suspension].status = suspensions[caso[n].suspension].status
  PROVE  \A n \in Moderators : CasoOK(caso[n])'
<1>1. ASSUME NEW n \in Moderators \ {m} PROVE CasoOK(caso[n])'
  BY CasoStays DEF OthersRest
<1> QED
  BY <1>1

LEMMA HoldersSame ==
  ASSUME ModeratorsInv, NEW m \in Moderators, OthersRest(m),
         caso'[m].step \in Opening =>
           caso[m].step \in Opening /\ caso'[m].suspension = caso[m].suspension,
         caso'[m].op = "expire" =>
           caso[m].op = "expire" /\ caso'[m].suspension = caso[m].suspension
  PROVE  HoldersOK'
<1>1. HoldersOK
  BY DEF ModeratorsInv
<1>2. \A n \in Moderators :
        /\ caso'[n].step \in Opening =>
             caso[n].step \in Opening /\ caso'[n].suspension = caso[n].suspension
        /\ caso'[n].op = "expire" =>
             caso[n].op = "expire" /\ caso'[n].suspension = caso[n].suspension
  BY DEF OthersRest
<1> QED
  BY <1>1, <1>2 DEF HoldersOK

Lifting == {"setSuspenso", "scheduleLift", "expire"}

\* Each suspension that may be forgotten is taken care of by this handler or the queue,
\* or is one that was none of theirs.
LEMMA LiftJobStays ==
  ASSUME ModeratorsInv, NEW m \in Moderators, OthersRest(m),
         failures' = 0 =>
           /\ failures = 0
           /\ \A s \in SuspensionIds : suspensions'[s].status = "ATIVA" /\ ~suspensions'[s].apelada =>
                \/ liftJobs'[s].state = "delayed"
                \/ caso'[m].suspension = s /\ caso'[m].step \in Lifting
                \/ /\ suspensions[s].status = "ATIVA" /\ ~suspensions[s].apelada
                   /\ liftJobs[s].state # "delayed"
                   /\ ~(caso[m].suspension = s /\ caso[m].step \in Lifting)
  PROVE  SuspensionHasLiftJob'
<1> SUFFICES ASSUME failures' = 0, NEW s \in SuspensionIds, suspensions'[s].status = "ATIVA",
                    ~suspensions'[s].apelada, liftJobs'[s].state # "delayed"
             PROVE  \E n \in Moderators : caso'[n].suspension = s /\ caso'[n].step \in Lifting
  BY DEF SuspensionHasLiftJob, Lifting
<1>1. CASE caso'[m].suspension = s /\ caso'[m].step \in Lifting
  BY <1>1
<1>2. CASE ~(caso'[m].suspension = s /\ caso'[m].step \in Lifting)
  <2>1. /\ suspensions[s].status = "ATIVA" /\ ~suspensions[s].apelada
        /\ liftJobs[s].state # "delayed"
        /\ ~(caso[m].suspension = s /\ caso[m].step \in Lifting)
    BY <1>2
  <2>2. PICK n \in Moderators : caso[n].suspension = s /\ caso[n].step \in Lifting
    BY <2>1 DEF ModeratorsInv, SuspensionHasLiftJob, Lifting
  <2>3. n # m
    BY <2>1, <2>2
  <2> QED
    BY <2>2, <2>3 DEF OthersRest
<1> QED
  BY <1>1, <1>2

Reopening == {"checkOther", "reactivate"}
NoAppeal == \A s \in SuspensionIds : ~suspensions[s].apelada

\* The same of each account that is closed.
LEMMA ClosedStays ==
  ASSUME ModeratorsInv, NEW m \in Moderators, OthersRest(m),
         \A n \in Moderators \ {m} : caso[n].step \in Reopening =>
           suspensions'[caso[n].suspension].userId = suspensions[caso[n].suspension].userId,
         failures' = 0 /\ NoAppeal' =>
           /\ failures = 0 /\ NoAppeal
           /\ \A u \in Users : accounts'[u] = "SUSPENSO" =>
                \/ ActiveFor(u)' # {}
                \/ caso'[m].step \in Reopening /\ suspensions'[caso'[m].suspension].userId = u
                \/ /\ accounts[u] = "SUSPENSO" /\ ActiveFor(u) = {}
                   /\ ~(caso[m].step \in Reopening /\ suspensions[caso[m].suspension].userId = u)
  PROVE  ClosedOK'
<1> SUFFICES ASSUME failures' = 0, NoAppeal', NEW u \in Users, accounts'[u] = "SUSPENSO",
                    ActiveFor(u)' = {}
             PROVE  \E n \in Moderators : caso'[n].step \in Reopening
                                          /\ suspensions'[caso'[n].suspension].userId = u
  BY DEF ClosedOK, Reopening, NoAppeal
<1>1. CASE caso'[m].step \in Reopening /\ suspensions'[caso'[m].suspension].userId = u
  BY <1>1
<1>2. CASE ~(caso'[m].step \in Reopening /\ suspensions'[caso'[m].suspension].userId = u)
  <2>1. /\ accounts[u] = "SUSPENSO" /\ ActiveFor(u) = {} /\ failures = 0 /\ NoAppeal
        /\ ~(caso[m].step \in Reopening /\ suspensions[caso[m].suspension].userId = u)
    BY <1>2
  <2>2. PICK n \in Moderators : caso[n].step \in Reopening /\ suspensions[caso[n].suspension].userId = u
    BY <2>1 DEF ModeratorsInv, ClosedOK, Reopening, NoAppeal
  <2>3. n # m
    BY <2>1, <2>2
  <2> QED
    BY <2>2, <2>3 DEF OthersRest
<1> QED
  BY <1>1, <1>2

\* A step that touches neither a suspension, an account nor a job that lifts one keeps
\* the invariant, when the handler does not drop what it had in hand.
LEMMA CasoStep ==
  ASSUME ModeratorsInv, NEW m \in Moderators, OthersRest(m), CasoOK(caso[m])',
         UNCHANGED <<suspensions, accounts, liftJobs>>,
         reports' \in [ReportIds -> Report], restoreJobs' \in Queue(ReportIds),
         caso' \in [Moderators -> Caso],
         \A i \in ReportIds :
           /\ reports[i].status # "AUSENTE" => reports'[i].status # "AUSENTE"
           /\ reports'[i].status # "AUSENTE" => reports'[i].alvo \in Targets
           /\ restoreJobs'[i].state # "absent" =>
                restoreJobs[i].state # "absent" \/ reports'[i].status # "AUSENTE",
         caso'[m].step \notin Opening,
         caso'[m].op = "expire" =>
           caso[m].op = "expire" /\ caso'[m].suspension = caso[m].suspension,
         failures' = 0 =>
           /\ failures = 0 /\ caso[m].step \notin Lifting
           /\ caso[m].step \in Reopening =>
                \/ caso'[m].step \in Reopening /\ caso'[m].suspension = caso[m].suspension
                \/ ActiveFor(suspensions[caso[m].suspension].userId) # {}
  PROVE  ModeratorsInv'
<1>1. RowsStay
  BY DEF RowsStay
<1>2. \A n \in Moderators : CasoOK(caso[n])'
  BY <1>1, OthersRestOK
<1>3. RowsOK'
  BY DEF ModeratorsInv, RowsOK
<1>4. HoldersOK'
  BY HoldersSame
<1>5. SuspensionHasLiftJob'
  BY LiftJobStays
<1>6. ClosedOK'
  <2>1. \A u \in Users : ActiveFor(u)' = ActiveFor(u)
    BY DEF ActiveFor
  <2>2. NoAppeal' => NoAppeal
    BY DEF NoAppeal
  <2>3. ASSUME failures' = 0, NEW u \in Users, accounts'[u] = "SUSPENSO"
        PROVE  \/ ActiveFor(u)' # {}
               \/ caso'[m].step \in Reopening /\ suspensions'[caso'[m].suspension].userId = u
               \/ /\ accounts[u] = "SUSPENSO" /\ ActiveFor(u) = {}
                  /\ ~(caso[m].step \in Reopening /\ suspensions[caso[m].suspension].userId = u)
    BY <2>1, <2>3
  <2> QED
    BY <2>2, <2>3, ClosedStays
<1>7. ModerationTypeOK'
  BY DEF ModeratorsInv, ModerationTypeOK
<1> QED
  BY <1>2, <1>3, <1>4, <1>5, <1>6, <1>7 DEF ModeratorsInv

\* Nobody else holds the suspension of a handler that puts it in force or lifts it.
LEMMA Alone ==
  ASSUME ModeratorsInv, NEW m \in Moderators, NEW n \in Moderators \ {m},
         caso[m].step \in Opening \/ caso[m].op = "expire",
         caso[n].step \in Opening \/ caso[n].op = "expire"
  PROVE  caso[n].suspension # caso[m].suspension
BY DEF ModeratorsInv, HoldersOK

LEMMA Offender ==
  ASSUME ModeratorsInv, NEW i \in ReportIds, reports[i].status # "AUSENTE"
  PROVE  offender(i) \in Users
<1>1. reports[i].alvo \in Targets
  BY DEF ModeratorsInv, RowsOK
<1>2. reports[i].alvo \in Users \/ reports[i].alvo[2] \in Users
  BY <1>1, ReviewParts DEF Targets
<1> QED
  BY <1>2 DEF offender

\* One entry of a column is written.
LEMMA ReportStatus ==
  ASSUME ModeratorsInv, NEW i \in ReportIds, reports[i].status # "AUSENTE",
         NEW status \in {"ABERTA", "EM_ANALISE"} \cup Decided,
         reports' = [reports EXCEPT ![i].status = status]
  PROVE  /\ reports' \in [ReportIds -> Report]
         /\ \A j \in ReportIds :
              /\ reports[j].status # "AUSENTE" => reports'[j].status # "AUSENTE"
              /\ reports'[j].status # "AUSENTE" => reports'[j].alvo \in Targets
<1> DEFINE row == [reports[i] EXCEPT !.status = status]
<1>1. reports \in [ReportIds -> Report] /\ reports[i] \in Report
  BY DEF ModeratorsInv, ModerationTypeOK
<1>2. reports[i].alvo \in Targets
  BY DEF ModeratorsInv, RowsOK
<1>3. row \in Report /\ row.status = status /\ row.alvo = reports[i].alvo
  BY <1>1 DEF Report
<1>4. reports' = [reports EXCEPT ![i] = row]
  OBVIOUS
<1> HIDE DEF row
<1>5. reports' \in [ReportIds -> Report]
  BY <1>1, <1>3, <1>4
<1>6. reports'[i] = row /\ \A j \in ReportIds \ {i} : reports'[j] = reports[j]
  BY <1>1, <1>4
<1>7. \A j \in ReportIds \ {i} : reports[j].status # "AUSENTE" => reports[j].alvo \in Targets
  BY DEF ModeratorsInv, RowsOK
<1>8. status # "AUSENTE"
  BY DEF Decided
<1> QED
  BY <1>2, <1>3, <1>5, <1>6, <1>7, <1>8

LEMMA ReportsSame ==
  ASSUME ModeratorsInv, reports' = reports
  PROVE  /\ reports' \in [ReportIds -> Report]
         /\ \A j \in ReportIds :
              /\ reports[j].status # "AUSENTE" => reports'[j].status # "AUSENTE"
              /\ reports'[j].status # "AUSENTE" => reports'[j].alvo \in Targets
BY DEF ModeratorsInv, ModerationTypeOK, RowsOK

--------------------------------------------------------------------------------
(* Reports *)

LEMMA DenunciarKeeps ==
  ASSUME ModeratorsInv, NEW m \in Moderators, NEW alvo \in Targets, Denunciar(m, alvo)
  PROVE  ModeratorsInv'
<1>1. PICK i \in ReportIds :
        /\ Next1(i, reports)
        /\ reports' = [reports EXCEPT ![i] = [alvo |-> alvo, status |-> "ABERTA"]]
        /\ caso' = IF alvo \in ReviewIds
                     THEN [caso EXCEPT ![m] =
                            [NoCaso EXCEPT !.op = "denunciar", !.step = "hide", !.report = i]]
                     ELSE caso
  BY DEF Denunciar
<1>2. /\ ModerationTypeOK /\ caso[m] = NoCaso /\ caso[m].step = "idle"
      /\ UNCHANGED <<suspensions, accounts, restoreJobs, liftJobs, failures>>
  BY FreeCaso DEF Denunciar, ModeratorsInv, Available, vars
<1> DEFINE row == [alvo |-> alvo, status |-> "ABERTA"]
           k == [NoCaso EXCEPT !.op = "denunciar", !.step = "hide", !.report = i]
<1>3. row \in Report /\ row.alvo = alvo /\ row.status = "ABERTA"
  BY DEF Report
<1>4. reports' = [reports EXCEPT ![i] = row]
  BY <1>1
<1> HIDE DEF row
<1>5. reports' \in [ReportIds -> Report]
  BY <1>2, <1>3, <1>4 DEF ModerationTypeOK
<1>6. reports'[i] = row /\ \A j \in ReportIds \ {i} : reports'[j] = reports[j]
  BY <1>2, <1>4 DEF ModerationTypeOK
<1>7. \A j \in ReportIds : /\ reports[j].status # "AUSENTE" => reports'[j].status # "AUSENTE"
                           /\ reports'[j].status # "AUSENTE" => reports'[j].alvo \in Targets
  BY <1>3, <1>6 DEF ModeratorsInv, RowsOK
<1>8. restoreJobs' \in Queue(ReportIds)
  BY <1>2 DEF ModerationTypeOK
<1>9. CASE alvo \in ReviewIds
  <2>1. k \in Caso /\ k.op = "denunciar" /\ k.step = "hide" /\ k.report = i
    BY FreeCaso DEF NoCaso, Caso
  <2>2. caso' = [caso EXCEPT ![m] = k]
    BY <1>1, <1>9
  <2> HIDE DEF k
  <2>3. caso' \in [Moderators -> Caso] /\ OthersRest(m) /\ caso'[m] = k
    BY <1>2, <2>1, <2>2, CasoMoves
  <2>4. reports'[i].status # "AUSENTE"
    BY <1>3, <1>6
  <2>5. CasoOK(caso[m])'
    BY <2>1, <2>3, <2>4 DEF CasoOK, Opening
  <2> QED
    BY <1>2, <1>5, <1>7, <1>8, <2>1, <2>3, <2>5, CasoStep DEF Opening, Lifting, Reopening
<1>10. CASE alvo \notin ReviewIds
  <2>1. caso' = caso
    BY <1>1, <1>10
  <2>2. caso' \in [Moderators -> Caso] /\ OthersRest(m)
    BY <1>2, <2>1 DEF ModerationTypeOK, OthersRest
  <2>3. CasoOK(caso[m])'
    BY <1>2, <2>1, FreeCaso DEF CasoOK, Opening
  <2> QED
    BY <1>2, <1>5, <1>7, <1>8, <2>1, <2>2, <2>3, FreeCaso, CasoStep DEF Opening, Lifting, Reopening
<1> QED
  BY <1>9, <1>10

\* The handler of a report goes on to a step that is not about a suspension.
LEMMA CasoGoes ==
  ASSUME ModeratorsInv, NEW m \in Moderators, caso[m].op # "expire", caso[m].op # "appeal",
         caso[m].step \notin Lifting \cup Reopening,
         NEW step \in CasoSteps \ (Opening \cup {"reactivate", "expire", "checkOther"}),
         To(m, step), UNCHANGED <<suspensions, accounts, liftJobs>>, failures' = failures,
         reports' \in [ReportIds -> Report], UNCHANGED restoreJobs,
         \A i \in ReportIds :
           /\ reports[i].status # "AUSENTE" => reports'[i].status # "AUSENTE"
           /\ reports'[i].status # "AUSENTE" => reports'[i].alvo \in Targets
  PROVE  ModeratorsInv'
<1>1. /\ ModerationTypeOK /\ CasoOK(caso[m]) /\ step \in CasoSteps
      /\ restoreJobs' \in Queue(ReportIds)
  BY DEF ModeratorsInv, ModerationTypeOK
<1>2. /\ caso' \in [Moderators -> Caso] /\ OthersRest(m)
      /\ caso'[m].step = step /\ caso'[m].op = caso[m].op /\ caso'[m].report = caso[m].report
      /\ caso'[m].suspension = caso[m].suspension
  BY <1>1, CasoMovesTo
<1>3. step \notin Opening /\ step \notin {"reactivate", "expire", "checkOther", "setSuspenso"}
  BY DEF Opening
<1>4. CasoOK(caso[m])'
  <2>1. caso[m].op \in {"denunciar", "resolve", "lift"} =>
          caso[m].report \in ReportIds /\ reports'[caso[m].report].status # "AUSENTE"
    BY <1>1 DEF CasoOK
  <2> QED
    BY <1>2, <1>3, <2>1 DEF CasoOK
<1> QED
  BY <1>1, <1>2, <1>3, <1>4, CasoStep

LEMMA CasoEnds ==
  ASSUME ModeratorsInv, NEW m \in Moderators, Close(m),
         UNCHANGED <<reports, suspensions, accounts, liftJobs>>,
         restoreJobs' \in Queue(ReportIds),
         \A i \in ReportIds : restoreJobs'[i].state # "absent" =>
           restoreJobs[i].state # "absent" \/ reports[i].status # "AUSENTE",
         failures' = 0 =>
           failures = 0 /\ caso[m].step \notin Lifting /\ caso[m].step \notin Reopening
  PROVE  ModeratorsInv'
<1>1. ModerationTypeOK
  BY DEF ModeratorsInv
<1>2. /\ caso' \in [Moderators -> Caso] /\ OthersRest(m)
      /\ caso'[m].step = "idle" /\ caso'[m].op = "idle" /\ CasoOK(caso[m])'
  BY <1>1, CasoCloses
<1>3. caso'[m].step \notin Opening
  BY <1>2 DEF Opening
<1> QED
  BY <1>2, <1>3, ReportsSame, CasoStep

\* What the steps below have in common: rows and jobs that are not theirs.
LEMMA Quiet ==
  ASSUME ModeratorsInv
  PROVE  /\ ModerationTypeOK /\ restoreJobs \in Queue(ReportIds) /\ liftJobs \in Queue(SuspensionIds)
         /\ accounts \in [Users -> {"ATIVO", "SUSPENSO"}]
         /\ \A m \in Moderators : caso[m] \in Caso /\ CasoOK(caso[m])
BY DEF ModeratorsInv, ModerationTypeOK

LEMMA HideReviewKeeps ==
  ASSUME ModeratorsInv, NEW m \in Moderators, HideReview(m)
  PROVE  ModeratorsInv'
<1>1. /\ caso[m].op = "denunciar" /\ caso[m].step = "hide" /\ To(m, "scheduleRestore")
      /\ UNCHANGED <<reports, suspensions, accounts, restoreJobs, liftJobs, failures>>
  BY DEF HideReview, Doing, reviewSide
<1>2. "scheduleRestore" \in CasoSteps \ (Opening \cup {"reactivate", "expire", "checkOther"})
  BY DEF CasoSteps, Opening
<1> QED
  BY <1>1, <1>2, Quiet, ReportsSame, CasoGoes DEF Lifting, Reopening

LEMMA ScheduleRestoreKeeps ==
  ASSUME ReputationInv, ModeratorsInv, NEW m \in Moderators, ScheduleRestore(m)
  PROVE  ModeratorsInv'
<1>1. /\ caso[m].op = "denunciar" /\ caso[m].step = "scheduleRestore" /\ Close(m)
      /\ restoreJobs' = Add(restoreJobs, caso[m].report, now + HIDE_WINDOW_HOURS)
      /\ UNCHANGED <<reports, suspensions, accounts, liftJobs, failures>>
  BY DEF ScheduleRestore, Doing, vars
<1>2. caso[m].report \in ReportIds /\ reports[caso[m].report].status # "AUSENTE"
  BY <1>1, Quiet DEF CasoOK
<1>3. now + HIDE_WINDOW_HOURS \in Nat
  BY ModerationAssumption DEF ReputationInv, ReputationTypeOK
<1>4. /\ restoreJobs' \in Queue(ReportIds)
      /\ OneJob(restoreJobs, restoreJobs', ReportIds, caso[m].report)
  BY <1>1, <1>2, <1>3, Quiet, QueueAdd
<1>5. \A j \in ReportIds : restoreJobs'[j].state # "absent" =>
        restoreJobs[j].state # "absent" \/ reports[j].status # "AUSENTE"
  BY <1>2, <1>4 DEF OneJob
<1> QED
  BY <1>1, <1>4, <1>5, CasoEnds DEF Lifting, Reopening

LEMMA ResolveReportKeeps ==
  ASSUME ModeratorsInv, NEW m \in Moderators, NEW i \in ReportIds, NEW procedente \in BOOLEAN,
         ResolveReport(m, i, procedente)
  PROVE  ModeratorsInv'
<1> DEFINE k == [NoCaso EXCEPT !.op = "resolve", !.step = "setStatus",
                               !.report = i, !.decision = procedente]
<1>1. k \in Caso /\ k.op = "resolve" /\ k.step = "setStatus" /\ k.report = i
  BY FreeCaso DEF NoCaso, Caso
<1>2. /\ caso[m].step = "idle" /\ caso' = [caso EXCEPT ![m] = k]
      /\ reports[i].status # "AUSENTE"
      /\ UNCHANGED <<reports, suspensions, accounts, restoreJobs, liftJobs, failures>>
  BY FreeCaso DEF ResolveReport, Available, canResolveReport, vars
<1> HIDE DEF k
<1>3. caso' \in [Moderators -> Caso] /\ OthersRest(m) /\ caso'[m] = k
  BY <1>1, <1>2, Quiet, CasoMoves
<1>4. CasoOK(caso[m])'
  BY <1>1, <1>2, <1>3 DEF CasoOK, Opening
<1> QED
  BY <1>1, <1>2, <1>3, <1>4, Quiet, ReportsSame, CasoStep DEF Opening, Lifting, Reopening

LEMMA DecideReportKeeps ==
  ASSUME ModeratorsInv, NEW m \in Moderators, DecideReport(m)
  PROVE  ModeratorsInv'
<1> DEFINE i == caso[m].report
           status == IF caso[m].decision THEN "PROCEDENTE" ELSE "IMPROCEDENTE"
<1>1. /\ caso[m].op = "resolve" /\ caso[m].step = "setStatus" /\ To(m, "content")
      /\ reports' = [reports EXCEPT ![i].status = status]
      /\ UNCHANGED <<suspensions, accounts, restoreJobs, liftJobs, failures>>
  BY DEF DecideReport, Doing, vars
<1>2. i \in ReportIds /\ reports[i].status # "AUSENTE"
  BY <1>1, Quiet DEF CasoOK
<1>3. status \in {"ABERTA", "EM_ANALISE"} \cup Decided
  BY DEF Decided
<1>4. "content" \in CasoSteps \ (Opening \cup {"reactivate", "expire", "checkOther"})
  BY DEF CasoSteps, Opening
<1> HIDE DEF i, status
<1>5. /\ reports' \in [ReportIds -> Report]
      /\ \A j \in ReportIds :
           /\ reports[j].status # "AUSENTE" => reports'[j].status # "AUSENTE"
           /\ reports'[j].status # "AUSENTE" => reports'[j].alvo \in Targets
  BY <1>1, <1>2, <1>3, ReportStatus
<1> QED
  BY <1>1, <1>4, <1>5, Quiet, CasoGoes DEF Lifting, Reopening

LEMMA DecideContentKeeps ==
  ASSUME ModeratorsInv, NEW m \in Moderators, DecideContent(m)
  PROVE  ModeratorsInv'
<1>1. /\ caso[m].op = "resolve" /\ caso[m].step = "content"
      /\ To(m, "checkActive") \/ Close(m)
      /\ UNCHANGED <<reports, suspensions, accounts, restoreJobs, liftJobs, failures>>
  BY DEF DecideContent, Doing, reviewSide
<1>2. CASE To(m, "checkActive")
  <2>1. "checkActive" \in CasoSteps \ (Opening \cup {"reactivate", "expire", "checkOther"})
    BY DEF CasoSteps, Opening
  <2> QED
    BY <1>1, <1>2, <2>1, Quiet, ReportsSame, CasoGoes DEF Lifting, Reopening
<1>3. CASE Close(m)
  BY <1>1, <1>3, Quiet, CasoEnds DEF Lifting, Reopening
<1> QED
  BY <1>1, <1>2, <1>3

LEMMA StartRestoreKeeps ==
  ASSUME ModeratorsInv, NEW m \in Moderators, NEW i \in ReportIds, StartRestore(m, i)
  PROVE  ModeratorsInv'
<1> DEFINE step == IF reports[i].status = "ABERTA" THEN "restore" ELSE "completeJob"
           k == [NoCaso EXCEPT !.op = "lift", !.report = i, !.step = step]
<1>1. step \in {"restore", "completeJob"}
  OBVIOUS
<1>2. /\ caso[m].step = "idle" /\ caso' = [caso EXCEPT ![m] = k]
      /\ restoreJobs[i].state = "delayed" /\ restoreJobs' = Take(restoreJobs, i)
      /\ UNCHANGED <<reports, suspensions, accounts, liftJobs, failures>>
  BY FreeCaso DEF StartRestore, Available, Due, vars
<1> HIDE DEF step
<1>3. k \in Caso /\ k.op = "lift" /\ k.step = step /\ k.report = i
  BY <1>1, FreeCaso DEF NoCaso, Caso
<1> HIDE DEF k
<1>4. caso' \in [Moderators -> Caso] /\ OthersRest(m) /\ caso'[m] = k
  BY <1>2, <1>3, Quiet, CasoMoves
<1>5. CasoOK(caso[m])'
  <2>1. reports[i].status # "AUSENTE"
    BY <1>2 DEF ModeratorsInv, RowsOK
  <2> QED
    BY <1>1, <1>2, <1>3, <1>4, <2>1 DEF CasoOK, Opening
<1>6. restoreJobs' \in Queue(ReportIds) /\ OneJob(restoreJobs, restoreJobs', ReportIds, i)
  BY <1>2, Quiet, QueueTake
<1>7. \A j \in ReportIds : restoreJobs'[j].state # "absent" => restoreJobs[j].state # "absent"
  BY <1>2, <1>6 DEF OneJob
<1> QED
  BY <1>1, <1>2, <1>3, <1>4, <1>5, <1>6, <1>7, ReportsSame, CasoStep DEF Opening, Lifting, Reopening

LEMMA RestoreReviewKeeps ==
  ASSUME ModeratorsInv, NEW m \in Moderators, RestoreReview(m)
  PROVE  ModeratorsInv'
<1>1. /\ caso[m].op = "lift" /\ caso[m].step = "restore" /\ To(m, "setEmAnalise")
      /\ UNCHANGED <<reports, suspensions, accounts, restoreJobs, liftJobs, failures>>
  BY DEF RestoreReview, Doing, reviewSide
<1>2. "setEmAnalise" \in CasoSteps \ (Opening \cup {"reactivate", "expire", "checkOther"})
  BY DEF CasoSteps, Opening
<1> QED
  BY <1>1, <1>2, Quiet, ReportsSame, CasoGoes DEF Lifting, Reopening

LEMMA SetEmAnaliseKeeps ==
  ASSUME ModeratorsInv, NEW m \in Moderators, SetEmAnalise(m)
  PROVE  ModeratorsInv'
<1> DEFINE i == caso[m].report
<1>1. /\ caso[m].op = "lift" /\ caso[m].step = "setEmAnalise" /\ To(m, "completeJob")
      /\ reports' = [reports EXCEPT ![i].status = "EM_ANALISE"]
      /\ UNCHANGED <<suspensions, accounts, restoreJobs, liftJobs, failures>>
  BY DEF SetEmAnalise, Doing, vars
<1>2. i \in ReportIds /\ reports[i].status # "AUSENTE"
  BY <1>1, Quiet DEF CasoOK
<1>3. "completeJob" \in CasoSteps \ (Opening \cup {"reactivate", "expire", "checkOther"})
  BY DEF CasoSteps, Opening
<1> HIDE DEF i
<1>4. /\ reports' \in [ReportIds -> Report]
      /\ \A j \in ReportIds :
           /\ reports[j].status # "AUSENTE" => reports'[j].status # "AUSENTE"
           /\ reports'[j].status # "AUSENTE" => reports'[j].alvo \in Targets
  BY <1>1, <1>2, ReportStatus
<1> QED
  BY <1>1, <1>3, <1>4, Quiet, CasoGoes DEF Lifting, Reopening

--------------------------------------------------------------------------------
(* Suspensions *)

LEMMA CheckActiveKeeps ==
  ASSUME ModeratorsInv, NEW m \in Moderators, CheckActive(m)
  PROVE  ModeratorsInv'
<1>1. /\ caso[m].op = "resolve" /\ caso[m].step = "checkActive"
      /\ To(m, "strikes") \/ Close(m)
      /\ UNCHANGED <<reports, suspensions, accounts, restoreJobs, liftJobs, failures>>
  BY DEF CheckActive, Doing, vars
<1>2. CASE To(m, "strikes")
  <2>1. "strikes" \in CasoSteps \ (Opening \cup {"reactivate", "expire", "checkOther"})
    BY DEF CasoSteps, Opening
  <2> QED
    BY <1>1, <1>2, <2>1, Quiet, ReportsSame, CasoGoes DEF Lifting, Reopening
<1>3. CASE Close(m)
  BY <1>1, <1>3, Quiet, CasoEnds DEF Lifting, Reopening
<1> QED
  BY <1>1, <1>2, <1>3

LEMMA CountStrikesKeeps ==
  ASSUME ModeratorsInv, NEW m \in Moderators, CountStrikes(m)
  PROVE  ModeratorsInv'
<1>1. /\ caso[m].op = "resolve" /\ caso[m].step = "strikes"
      /\ To(m, "suspend") \/ Close(m)
      /\ UNCHANGED <<reports, suspensions, accounts, restoreJobs, liftJobs, failures>>
  BY DEF CountStrikes, Doing, vars
<1>2. CASE To(m, "suspend")
  <2>1. "suspend" \in CasoSteps \ (Opening \cup {"reactivate", "expire", "checkOther"})
    BY DEF CasoSteps, Opening
  <2> QED
    BY <1>1, <1>2, <2>1, Quiet, ReportsSame, CasoGoes DEF Lifting, Reopening
<1>3. CASE Close(m)
  BY <1>1, <1>3, Quiet, CasoEnds DEF Lifting, Reopening
<1> QED
  BY <1>1, <1>2, <1>3

\* A row of the table of suspensions is written.
LEMMA SuspensionRow ==
  ASSUME ModeratorsInv, NEW s \in SuspensionIds, NEW row \in Suspension,
         suspensions' = [suspensions EXCEPT ![s] = row],
         row.status # "AUSENTE", row.userId \in Users, row.status = "APELADA" => row.apelada,
         suspensions[s].apelada => row.apelada,
         liftJobs[s].state # "absent" => row.fimEm = suspensions[s].fimEm,
         UNCHANGED <<reports, restoreJobs, liftJobs>>
  PROVE  /\ suspensions' \in [SuspensionIds -> Suspension] /\ suspensions'[s] = row
         /\ \A t \in SuspensionIds \ {s} : suspensions'[t] = suspensions[t]
         /\ RowsStay /\ RowsOK'
<1>1. suspensions \in [SuspensionIds -> Suspension] /\ RowsOK
  BY DEF ModeratorsInv, ModerationTypeOK
<1>2. /\ suspensions' \in [SuspensionIds -> Suspension] /\ suspensions'[s] = row
      /\ \A t \in SuspensionIds \ {s} : suspensions'[t] = suspensions[t]
  BY <1>1
<1>3. RowsStay
  BY <1>2 DEF RowsStay
<1>4. \A i \in ReportIds :
        /\ reports'[i].status # "AUSENTE" => reports'[i].alvo \in Targets
        /\ restoreJobs'[i].state # "absent" => reports'[i].status # "AUSENTE"
  BY <1>1 DEF RowsOK
<1>5. ASSUME NEW t \in SuspensionIds
      PROVE  /\ suspensions'[t].status # "AUSENTE" => suspensions'[t].userId \in Users
             /\ suspensions'[t].status = "APELADA" => suspensions'[t].apelada
             /\ suspensions'[t].apelada => suspensions'[t].status # "AUSENTE"
             /\ liftJobs'[t].state # "absent" =>
                  suspensions'[t].status # "AUSENTE" /\ liftJobs'[t].at = suspensions'[t].fimEm
  <2>1. CASE t = s
    BY <1>1, <1>2, <2>1 DEF RowsOK
  <2>2. CASE t # s
    BY <1>1, <1>2, <2>2 DEF RowsOK
  <2> QED
    BY <2>1, <2>2
<1> QED
  BY <1>2, <1>3, <1>4, <1>5 DEF RowsOK

\* The suspension that is put in force is a new one: nobody else has it.
LEMMA CreateSuspensionKeeps ==
  ASSUME ReputationInv, ModeratorsInv, NEW m \in Moderators, CreateSuspension(m)
  PROVE  ModeratorsInv'
<1>1. PICK s \in SuspensionIds :
        /\ Next1(s, suspensions)
        /\ suspensions' = [suspensions EXCEPT ![s] =
             [userId |-> offender(caso[m].report), apelada |-> FALSE,
              fimEm |-> now + SUSPENSION_DAYS, status |-> "ATIVA"]]
        /\ caso' = [caso EXCEPT ![m].step = "setSuspenso", ![m].suspension = s]
  BY DEF CreateSuspension
<1>2. /\ caso[m].op = "resolve" /\ caso[m].step = "suspend"
      /\ UNCHANGED <<reports, accounts, restoreJobs, liftJobs, failures>>
      /\ ModerationTypeOK /\ CasoOK(caso[m]) /\ caso[m] \in Caso
  BY Quiet DEF CreateSuspension, Doing, vars
<1> DEFINE u == offender(caso[m].report)
           fim == now + SUSPENSION_DAYS
           row == [userId |-> u, apelada |-> FALSE, fimEm |-> fim, status |-> "ATIVA"]
           k == [caso[m] EXCEPT !.step = "setSuspenso", !.suspension = s]
<1>3. suspensions[s].status = "AUSENTE"
  BY <1>1 DEF Next1, Absent
<1>4. ~suspensions[s].apelada /\ liftJobs[s].state = "absent"
  BY <1>3 DEF ModeratorsInv, RowsOK
<1>5. u \in Users
  BY <1>2, Offender DEF CasoOK
<1>6. fim \in Nat
  BY ModerationAssumption DEF ReputationInv, ReputationTypeOK
<1> HIDE DEF u, fim
<1>7. row \in Suspension /\ row.status = "ATIVA" /\ ~row.apelada /\ row.userId = u
  BY <1>5, <1>6 DEF Suspension
<1>8. suspensions' = [suspensions EXCEPT ![s] = row]
  BY <1>1 DEF u, fim
<1> HIDE DEF row
<1>9. /\ suspensions' \in [SuspensionIds -> Suspension] /\ suspensions'[s] = row
      /\ \A t \in SuspensionIds \ {s} : suspensions'[t] = suspensions[t]
      /\ RowsStay /\ RowsOK'
  BY <1>2, <1>4, <1>5, <1>7, <1>8, SuspensionRow
<1>10. /\ k \in Caso /\ k.step = "setSuspenso" /\ k.suspension = s
       /\ k.op = "resolve" /\ k.report = caso[m].report
  BY <1>2 DEF Caso
<1>11. caso' = [caso EXCEPT ![m] = k]
  BY <1>1, <1>2 DEF ModerationTypeOK
<1> HIDE DEF k
<1>12. caso' \in [Moderators -> Caso] /\ OthersRest(m) /\ caso'[m] = k
  BY <1>2, <1>10, <1>11, CasoMoves
<1>13. CasoOK(caso[m])'
  <2>1. caso[m].report \in ReportIds /\ reports'[caso[m].report].status # "AUSENTE"
    BY <1>2 DEF CasoOK
  <2>2. suspensions'[s].status = "ATIVA" /\ liftJobs'[s].state = "absent"
    BY <1>2, <1>4, <1>7, <1>9
  <2> QED
    BY <1>10, <1>12, <2>1, <2>2 DEF CasoOK, Opening
<1>14. ASSUME NEW n \in Moderators, caso[n].step \in Opening \/ caso[n].op = "expire"
       PROVE  caso[n].suspension \in SuspensionIds /\ caso[n].suspension # s
  BY <1>3, <1>14, Quiet DEF CasoOK
<1>15. \A n \in Moderators : CasoOK(caso[n])'
  <2>1. ASSUME NEW n \in Moderators \ {m}
        PROVE  /\ caso[n].step \in Opening \/ caso[n].op = "expire" =>
                    liftJobs'[caso[n].suspension] = liftJobs[caso[n].suspension]
               /\ caso[n].step = "setSuspenso" =>
                    suspensions'[caso[n].suspension].status = suspensions[caso[n].suspension].status
    BY <1>2, <1>9, <1>14 DEF Opening
  <2> QED
    BY <1>9, <1>12, <1>13, <2>1, OthersRestOK
<1>16. HoldersOK'
  <2>1. \A n \in Moderators \ {m} : caso'[n] = caso[n]
    BY <1>12 DEF OthersRest
  <2>2. caso'[m].op # "expire" /\ caso'[m].suspension = s
    BY <1>10, <1>12
  <2> QED
    BY <1>14, <2>1, <2>2 DEF ModeratorsInv, HoldersOK
<1>17. SuspensionHasLiftJob'
  <2>1. caso'[m].suspension = s /\ caso'[m].step \in Lifting /\ caso[m].step \notin Lifting
    BY <1>2, <1>10, <1>12 DEF Lifting
  <2> QED
    BY <1>2, <1>9, <1>12, <2>1, LiftJobStays
<1>18. ClosedOK'
  <2>1. \A n \in Moderators : caso[n].step \in Reopening =>
          caso[n].suspension \in SuspensionIds /\ suspensions[caso[n].suspension].status # "AUSENTE"
    BY Quiet DEF CasoOK, Reopening
  <2>2. \A n \in Moderators \ {m} : caso[n].step \in Reopening =>
          suspensions'[caso[n].suspension].userId = suspensions[caso[n].suspension].userId
    BY <1>3, <1>9, <2>1
  <2>3. NoAppeal' => NoAppeal
    BY <1>4, <1>9 DEF NoAppeal
  <2>4. ASSUME NEW v \in Users, ActiveFor(v)' = {} PROVE ActiveFor(v) = {}
    BY <1>3, <1>9, <2>4 DEF ActiveFor
  <2>5. caso[m].step \notin Reopening
    BY <1>2 DEF Reopening
  <2> QED
    BY <1>2, <1>12, <2>2, <2>3, <2>4, <2>5, ClosedStays
<1>19. ModerationTypeOK'
  BY <1>2, <1>9, <1>12 DEF ModerationTypeOK
<1> QED
  BY <1>9, <1>15, <1>16, <1>17, <1>18, <1>19 DEF ModeratorsInv

\* The account is closed while the suspension is in force, unless it was appealed.
LEMMA SetSuspensoKeeps ==
  ASSUME ModeratorsInv, NEW m \in Moderators, SetSuspenso(m)
  PROVE  ModeratorsInv'
<1> DEFINE s == caso[m].suspension
           u == suspensions[s].userId
<1>1. /\ caso[m].op = "resolve" /\ caso[m].step = "setSuspenso" /\ To(m, "scheduleLift")
      /\ accounts' = [accounts EXCEPT ![u] = "SUSPENSO"]
      /\ UNCHANGED <<reports, suspensions, restoreJobs, liftJobs, failures>>
      /\ ModerationTypeOK /\ CasoOK(caso[m])
  BY Quiet DEF SetSuspenso, Doing, vars
<1>2. /\ s \in SuspensionIds /\ suspensions[s].status # "AUSENTE"
      /\ suspensions[s].apelada \/ suspensions[s].status = "ATIVA"
      /\ liftJobs[s].state = "absent"
      /\ caso[m].report \in ReportIds /\ reports[caso[m].report].status # "AUSENTE"
  BY <1>1 DEF CasoOK, Opening
<1>3. u \in Users
  BY <1>2 DEF ModeratorsInv, RowsOK
<1>4. /\ caso' \in [Moderators -> Caso] /\ OthersRest(m)
      /\ caso'[m].step = "scheduleLift" /\ caso'[m].op = "resolve"
      /\ caso'[m].report = caso[m].report /\ caso'[m].suspension = s
  BY <1>1, CasoMovesTo DEF CasoSteps
<1>5. CasoOK(caso[m])'
  BY <1>1, <1>2, <1>4 DEF CasoOK, Opening
<1>6. RowsStay
  BY <1>1 DEF RowsStay
<1>7. \A n \in Moderators : CasoOK(caso[n])'
  BY <1>1, <1>4, <1>5, <1>6, OthersRestOK
<1>8. RowsOK'
  BY <1>1 DEF ModeratorsInv, RowsOK
<1>9. HoldersOK'
  BY <1>1, <1>4, HoldersSame DEF Opening
<1>10. SuspensionHasLiftJob'
  <2>1. caso'[m].step \in Lifting
    BY <1>4 DEF Lifting
  <2> QED
    BY <1>1, <1>4, <2>1, LiftJobStays
<1>11. ClosedOK'
  <2>1. \A v : ActiveFor(v)' = ActiveFor(v)
    BY <1>1 DEF ActiveFor
  <2>2. NoAppeal' => NoAppeal /\ ActiveFor(u) # {}
    BY <1>1, <1>2 DEF NoAppeal, ActiveFor
  <2>3. \A v \in Users \ {u} : accounts'[v] = accounts[v]
    BY <1>1 DEF ModerationTypeOK
  <2>4. caso[m].step \notin Reopening
    BY <1>1 DEF Reopening
  <2> QED
    BY <1>1, <1>4, <2>1, <2>2, <2>3, <2>4, ClosedStays
<1>12. ModerationTypeOK'
  <2>1. accounts' \in [Users -> {"ATIVO", "SUSPENSO"}]
    BY <1>1 DEF ModerationTypeOK
  <2> QED
    BY <1>1, <1>4, <2>1 DEF ModerationTypeOK
<1> QED
  BY <1>7, <1>8, <1>9, <1>10, <1>11, <1>12 DEF ModeratorsInv

\* A job of the queue that lifts suspensions moves on, in the hands of a handler that
\* alone puts its suspension in force or lifts it.
LEMMA LiftJobMoves ==
  ASSUME ModeratorsInv, NEW m \in Moderators, OthersRest(m), CasoOK(caso[m])',
         NEW s \in SuspensionIds, suspensions[s].status # "AUSENTE",
         liftJobs' \in Queue(SuspensionIds), OneJob(liftJobs, liftJobs', SuspensionIds, s),
         liftJobs'[s].state # "absent" => liftJobs'[s].at = suspensions[s].fimEm,
         \A n \in Moderators \ {m} : caso[n].step \in Opening \/ caso[n].op = "expire" =>
           caso[n].suspension # s,
         UNCHANGED <<reports, suspensions, accounts, restoreJobs>>,
         caso' \in [Moderators -> Caso], caso'[m].step \notin Opening,
         caso'[m].op = "expire" => caso'[m].suspension = s,
         failures' = 0 =>
           /\ failures = 0
           \* A suspension that may be forgotten has its job or this handler, if it had not others.
           /\ suspensions[s].status = "ATIVA" /\ ~suspensions[s].apelada =>
                \/ liftJobs'[s].state = "delayed"
                \/ caso'[m].suspension = s /\ caso'[m].step \in Lifting
                \/ liftJobs[s].state # "delayed" /\ caso[m].step \notin Lifting
           /\ caso[m].step \in Lifting => caso[m].suspension = s
           /\ caso[m].step \notin Reopening
  PROVE  ModeratorsInv'
<1>1. RowsStay
  BY DEF RowsStay
<1>2. liftJobs \in Queue(SuspensionIds) /\ RowsOK
  BY DEF ModeratorsInv, ModerationTypeOK
<1>3. \A n \in Moderators : CasoOK(caso[n])'
  <2>1. ASSUME NEW n \in Moderators \ {m}, caso[n].step \in Opening \/ caso[n].op = "expire"
        PROVE  liftJobs'[caso[n].suspension] = liftJobs[caso[n].suspension]
    <3>1. caso[n].suspension \in SuspensionIds \ {s}
      BY <2>1, Quiet DEF CasoOK
    <3> QED
      BY <3>1 DEF OneJob
  <2> QED
    BY <1>1, <2>1, OthersRestOK
<1>4. RowsOK'
  <2>1. \A i \in ReportIds :
          /\ reports'[i].status # "AUSENTE" => reports'[i].alvo \in Targets
          /\ restoreJobs'[i].state # "absent" => reports'[i].status # "AUSENTE"
    BY <1>2 DEF RowsOK
  <2>2. ASSUME NEW t \in SuspensionIds
        PROVE  /\ suspensions'[t].status # "AUSENTE" => suspensions'[t].userId \in Users
               /\ suspensions'[t].status = "APELADA" => suspensions'[t].apelada
               /\ suspensions'[t].apelada => suspensions'[t].status # "AUSENTE"
               /\ liftJobs'[t].state # "absent" =>
                    suspensions'[t].status # "AUSENTE" /\ liftJobs'[t].at = suspensions'[t].fimEm
    <3>1. CASE t = s
      BY <1>2, <3>1 DEF RowsOK
    <3>2. CASE t # s
      BY <1>2, <3>2 DEF RowsOK, OneJob
    <3> QED
      BY <3>1, <3>2
  <2> QED
    BY <2>1, <2>2 DEF RowsOK
<1>5. HoldersOK'
  <2>1. \A n \in Moderators \ {m} : caso'[n] = caso[n]
    BY DEF OthersRest
  <2>2. HoldersOK
    BY DEF ModeratorsInv
  <2> QED
    BY <2>1, <2>2 DEF HoldersOK
<1>6. SuspensionHasLiftJob'
  <2>1. ASSUME failures' = 0, NEW t \in SuspensionIds, suspensions'[t].status = "ATIVA",
               ~suspensions'[t].apelada
        PROVE  \/ liftJobs'[t].state = "delayed"
               \/ caso'[m].suspension = t /\ caso'[m].step \in Lifting
               \/ /\ suspensions[t].status = "ATIVA" /\ ~suspensions[t].apelada
                  /\ liftJobs[t].state # "delayed"
                  /\ ~(caso[m].suspension = t /\ caso[m].step \in Lifting)
    <3>1. CASE t = s
      BY <2>1, <3>1
    <3>2. CASE t # s
      BY <2>1, <3>2 DEF OneJob
    <3> QED
      BY <3>1, <3>2
  <2> QED
    BY <2>1, LiftJobStays
<1>7. ClosedOK'
  <2>1. \A u : ActiveFor(u)' = ActiveFor(u)
    BY DEF ActiveFor
  <2>2. NoAppeal' => NoAppeal
    BY DEF NoAppeal
  <2> QED
    BY <2>1, <2>2, ClosedStays
<1>8. ModerationTypeOK'
  BY DEF ModeratorsInv, ModerationTypeOK
<1> QED
  BY <1>3, <1>4, <1>5, <1>6, <1>7, <1>8 DEF ModeratorsInv

LEMMA ScheduleLiftKeeps ==
  ASSUME ModeratorsInv, NEW m \in Moderators, ScheduleLift(m)
  PROVE  ModeratorsInv'
<1> DEFINE s == caso[m].suspension
<1>1. /\ caso[m].op = "resolve" /\ caso[m].step = "scheduleLift" /\ Close(m)
      /\ liftJobs' = Add(liftJobs, s, suspensions[s].fimEm)
      /\ UNCHANGED <<reports, suspensions, accounts, restoreJobs, failures>>
      /\ ModerationTypeOK /\ CasoOK(caso[m]) /\ liftJobs \in Queue(SuspensionIds)
  BY Quiet DEF ScheduleLift, Doing, vars
<1>2. /\ s \in SuspensionIds /\ suspensions[s].status # "AUSENTE" /\ liftJobs[s].state = "absent"
      /\ suspensions[s] \in Suspension
  BY <1>1 DEF CasoOK, Opening, ModerationTypeOK
<1>3. suspensions[s].fimEm \in Nat
  BY <1>2 DEF Suspension
<1>4. /\ liftJobs' \in Queue(SuspensionIds) /\ OneJob(liftJobs, liftJobs', SuspensionIds, s)
      /\ liftJobs'[s].state = "delayed" /\ liftJobs'[s].at = suspensions[s].fimEm
  BY <1>1, <1>2, <1>3, QueueAdd
<1>5. /\ caso' \in [Moderators -> Caso] /\ OthersRest(m)
      /\ caso'[m].step = "idle" /\ caso'[m].op = "idle" /\ CasoOK(caso[m])'
  BY <1>1, CasoCloses
<1>6. \A n \in Moderators \ {m} : caso[n].step \in Opening \/ caso[n].op = "expire" =>
        caso[n].suspension # s
  BY <1>1, Alone DEF Opening
<1> HIDE DEF s
<1>7. /\ caso'[m].step \notin Opening /\ caso[m].step \notin Reopening
      /\ caso[m].suspension = s
  BY <1>1, <1>5 DEF Opening, Reopening, s
<1> QED
  BY <1>1, <1>2, <1>4, <1>5, <1>6, <1>7, LiftJobMoves

\* The job runs at the end of its suspension, which it finds past its end.
LEMMA StartLiftKeeps ==
  ASSUME ModeratorsInv, NEW m \in Moderators, NEW s \in SuspensionIds, StartLift(m, s)
  PROVE  ModeratorsInv'
<1> DEFINE step == IF canAutoLift(s) THEN "expire" ELSE "completeJob"
           k == [NoCaso EXCEPT !.op = "expire", !.suspension = s, !.step = step]
<1>1. /\ caso[m].step = "idle" /\ caso[m].op = "idle" /\ caso' = [caso EXCEPT ![m] = k]
      /\ liftJobs[s].state = "delayed" /\ liftJobs[s].at <= now /\ liftJobs' = Take(liftJobs, s)
      /\ UNCHANGED <<reports, suspensions, accounts, restoreJobs, failures>>
      /\ ModerationTypeOK /\ liftJobs \in Queue(SuspensionIds)
  BY FreeCaso, Quiet DEF StartLift, Available, Due, vars
<1>2. suspensions[s].status # "AUSENTE" /\ liftJobs[s].at = suspensions[s].fimEm
  BY <1>1 DEF ModeratorsInv, RowsOK
<1>3. step \in {"expire", "completeJob"} /\ (suspensions[s].status = "ATIVA" => step = "expire")
  BY <1>1, <1>2 DEF canAutoLift
<1> HIDE DEF step
<1>4. k \in Caso /\ k.op = "expire" /\ k.step = step /\ k.suspension = s
  BY <1>3, FreeCaso DEF NoCaso, Caso
<1> HIDE DEF k
<1>5. caso' \in [Moderators -> Caso] /\ OthersRest(m) /\ caso'[m] = k
  BY <1>1, <1>4, CasoMoves
<1>6. /\ liftJobs' \in Queue(SuspensionIds) /\ OneJob(liftJobs, liftJobs', SuspensionIds, s)
      /\ liftJobs'[s].state = "active" /\ liftJobs'[s].at = liftJobs[s].at
  BY <1>1, QueueTake
<1>7. CasoOK(caso[m])'
  BY <1>1, <1>2, <1>3, <1>4, <1>5, <1>6 DEF CasoOK, Opening
<1>8. \A n \in Moderators \ {m} : caso[n].step \in Opening \/ caso[n].op = "expire" =>
        caso[n].suspension # s
  BY <1>1, Quiet DEF CasoOK
<1>9. /\ caso'[m].step \notin Opening /\ caso'[m].suspension = s
      /\ suspensions[s].status = "ATIVA" => caso'[m].step \in Lifting
      /\ caso[m].step \notin Lifting /\ caso[m].step \notin Reopening
  BY <1>1, <1>3, <1>4, <1>5 DEF Opening, Lifting, Reopening
<1> QED
  BY <1>1, <1>2, <1>5, <1>6, <1>7, <1>8, <1>9, LiftJobMoves

LEMMA CompleteModerationJobKeeps ==
  ASSUME ModeratorsInv, NEW m \in Moderators, CompleteModerationJob(m)
  PROVE  ModeratorsInv'
<1> DEFINE s == caso[m].suspension
<1>1. /\ caso[m].step = "completeJob" /\ Close(m)
      /\ restoreJobs' = IF caso[m].op = "lift" THEN Complete(restoreJobs, caso[m].report)
                        ELSE restoreJobs
      /\ liftJobs' = IF caso[m].op = "expire" THEN Complete(liftJobs, s) ELSE liftJobs
      /\ UNCHANGED <<reports, suspensions, accounts, failures>>
      /\ ModerationTypeOK /\ CasoOK(caso[m])
      /\ restoreJobs \in Queue(ReportIds) /\ liftJobs \in Queue(SuspensionIds)
  BY Quiet DEF CompleteModerationJob, vars
<1>2. caso[m].step \notin Lifting /\ caso[m].step \notin Reopening
  BY <1>1 DEF Lifting, Reopening
<1>3. CASE caso[m].op = "expire"
  <2>1. s \in SuspensionIds /\ suspensions[s].status # "AUSENTE" /\ liftJobs[s].state = "active"
    BY <1>1, <1>3 DEF CasoOK
  <2>2. /\ liftJobs' \in Queue(SuspensionIds) /\ OneJob(liftJobs, liftJobs', SuspensionIds, s)
        /\ liftJobs'[s].state = "absent"
    BY <1>1, <1>3, <2>1, QueueComplete
  <2>3. /\ caso' \in [Moderators -> Caso] /\ OthersRest(m)
        /\ caso'[m].step = "idle" /\ caso'[m].op = "idle" /\ CasoOK(caso[m])'
    BY <1>1, CasoCloses
  <2>4. \A n \in Moderators \ {m} : caso[n].step \in Opening \/ caso[n].op = "expire" =>
          caso[n].suspension # s
    BY <1>3, Alone
  <2>5. restoreJobs' = restoreJobs
    BY <1>1, <1>3
  <2> HIDE DEF s
  <2>6. caso'[m].step \notin Opening
    BY <2>3 DEF Opening
  <2> QED
    BY <1>1, <1>2, <2>1, <2>2, <2>3, <2>4, <2>5, <2>6, LiftJobMoves
<1>4. CASE caso[m].op = "lift"
  <2>1. caso[m].report \in ReportIds /\ liftJobs' = liftJobs
    BY <1>1, <1>4 DEF CasoOK
  <2>2. /\ restoreJobs' \in Queue(ReportIds)
        /\ OneJob(restoreJobs, restoreJobs', ReportIds, caso[m].report)
        /\ restoreJobs'[caso[m].report].state = "absent"
    BY <1>1, <1>4, <2>1, QueueComplete
  <2>3. \A i \in ReportIds : restoreJobs'[i].state # "absent" => restoreJobs[i].state # "absent"
    BY <2>2 DEF OneJob
  <2> QED
    BY <1>1, <1>2, <2>1, <2>2, <2>3, CasoEnds
<1>5. CASE caso[m].op \notin {"expire", "lift"}
  BY <1>1, <1>2, <1>5, CasoEnds
<1> QED
  BY <1>3, <1>4, <1>5

LEMMA AppealKeeps ==
  ASSUME ModeratorsInv, NEW s \in SuspensionIds, Appeal(s)
  PROVE  ModeratorsInv'
<1> DEFINE row == [suspensions[s] EXCEPT !.status = "APELADA", !.apelada = TRUE]
<1>1. /\ suspensions[s].status = "ATIVA"
      /\ suspensions' = [suspensions EXCEPT ![s].status = "APELADA", ![s].apelada = TRUE]
      /\ UNCHANGED <<reports, accounts, restoreJobs, liftJobs, caso, failures>>
      /\ ModerationTypeOK /\ suspensions[s] \in Suspension
  BY DEF Appeal, vars, ModeratorsInv, ModerationTypeOK
<1>2. row \in Suspension /\ row.status = "APELADA" /\ row.apelada = TRUE
      /\ row.userId = suspensions[s].userId /\ row.fimEm = suspensions[s].fimEm
  BY <1>1 DEF Suspension
<1>3. suspensions' = [suspensions EXCEPT ![s] = row] /\ suspensions[s].userId \in Users
  BY <1>1 DEF ModerationTypeOK, ModeratorsInv, RowsOK
<1> HIDE DEF row
<1>4. /\ suspensions' \in [SuspensionIds -> Suspension] /\ suspensions'[s] = row
      /\ \A t \in SuspensionIds \ {s} : suspensions'[t] = suspensions[t]
      /\ RowsStay /\ RowsOK'
  BY <1>1, <1>2, <1>3, SuspensionRow
<1>5. ASSUME NEW n \in Moderators PROVE CasoOK(caso[n])'
  <2>1. caso[n].step = "setSuspenso" =>
          \/ suspensions'[caso[n].suspension].apelada
          \/ suspensions'[caso[n].suspension].status = suspensions[caso[n].suspension].status
    BY <1>2, <1>4, Quiet DEF CasoOK, Opening
  <2> QED
    BY <1>1, <1>4, <2>1, CasoStays
<1>6. HoldersOK'
  BY <1>1 DEF ModeratorsInv, HoldersOK
<1>7. SuspensionHasLiftJob'
  <2> SUFFICES ASSUME failures = 0, NEW t \in SuspensionIds, suspensions'[t].status = "ATIVA",
                      ~suspensions'[t].apelada
               PROVE  \/ liftJobs[t].state = "delayed"
                      \/ \E n \in Moderators : caso[n].suspension = t /\ caso[n].step \in Lifting
    BY <1>1 DEF SuspensionHasLiftJob, Lifting
  <2>1. suspensions'[t] = suspensions[t]
    BY <1>2, <1>4
  <2> QED
    BY <2>1 DEF ModeratorsInv, SuspensionHasLiftJob, Lifting
<1>8. ClosedOK'
  BY <1>2, <1>4 DEF ClosedOK
<1>9. ModerationTypeOK'
  BY <1>1, <1>4 DEF ModerationTypeOK
<1> QED
  BY <1>4, <1>5, <1>6, <1>7, <1>8, <1>9 DEF ModeratorsInv

LEMMA ResolveAppealKeeps ==
  ASSUME ModeratorsInv, NEW m \in Moderators, NEW s \in SuspensionIds, NEW grant \in BOOLEAN,
         ResolveAppeal(m, s, grant)
  PROVE  ModeratorsInv'
<1> DEFINE k == [NoCaso EXCEPT !.op = "appeal", !.step = "resolve",
                               !.suspension = s, !.decision = grant]
<1>1. k \in Caso /\ k.op = "appeal" /\ k.step = "resolve" /\ k.suspension = s
  BY FreeCaso DEF NoCaso, Caso
<1>2. /\ caso[m].step = "idle" /\ caso' = [caso EXCEPT ![m] = k]
      /\ suspensions[s].status = "APELADA"
      /\ UNCHANGED <<reports, suspensions, accounts, restoreJobs, liftJobs, failures>>
  BY FreeCaso DEF ResolveAppeal, Available, vars
<1> HIDE DEF k
<1>3. caso' \in [Moderators -> Caso] /\ OthersRest(m) /\ caso'[m] = k
  BY <1>1, <1>2, Quiet, CasoMoves
<1>4. suspensions[s].apelada
  BY <1>2 DEF ModeratorsInv, RowsOK
<1>5. CasoOK(caso[m])'
  BY <1>1, <1>2, <1>3, <1>4 DEF CasoOK, Opening
<1> QED
  BY <1>1, <1>2, <1>3, <1>5, Quiet, ReportsSame, CasoStep DEF Opening, Lifting, Reopening

\* The handler of an appeal, or of the job, decides about its suspension.
LEMMA SuspensionDecided ==
  ASSUME ModeratorsInv, NEW m \in Moderators, OthersRest(m), CasoOK(caso[m])',
         NEW s \in SuspensionIds, suspensions[s].status # "AUSENTE",
         NEW status \in {"ATIVA", "REVOGADA", "EXPIRADA"},
         suspensions' = [suspensions EXCEPT ![s].status = status],
         UNCHANGED <<reports, accounts, restoreJobs, liftJobs, failures>>,
         caso' \in [Moderators -> Caso], caso'[m].step \notin Opening,
         caso'[m].op = "expire" =>
           caso[m].op = "expire" /\ caso'[m].suspension = caso[m].suspension,
         caso[m].step \notin Reopening,
         suspensions[s].apelada \/
           /\ status = "EXPIRADA" /\ caso'[m].step \in Reopening /\ caso'[m].suspension = s
           /\ caso[m].op = "expire",
         caso[m].suspension = s,
         caso[m].step \in Lifting => status = "EXPIRADA"
  PROVE  ModeratorsInv'
<1> DEFINE row == [suspensions[s] EXCEPT !.status = status]
<1>1. ModerationTypeOK /\ suspensions[s] \in Suspension /\ suspensions[s].userId \in Users
  BY DEF ModeratorsInv, ModerationTypeOK, RowsOK
<1>2. row \in Suspension /\ row.status = status /\ row.apelada = suspensions[s].apelada
      /\ row.userId = suspensions[s].userId /\ row.fimEm = suspensions[s].fimEm
  BY <1>1 DEF Suspension
<1>3. /\ suspensions' = [suspensions EXCEPT ![s] = row] /\ row.status # "AUSENTE"
      /\ row.status # "APELADA" /\ (suspensions[s].apelada => row.apelada)
  BY <1>2
<1> HIDE DEF row
<1>4. /\ suspensions' \in [SuspensionIds -> Suspension] /\ suspensions'[s] = row
      /\ \A t \in SuspensionIds \ {s} : suspensions'[t] = suspensions[t]
      /\ RowsStay /\ RowsOK'
  BY <1>1, <1>2, <1>3, SuspensionRow
<1>5. \A t \in SuspensionIds : /\ suspensions'[t].apelada = suspensions[t].apelada
                               /\ suspensions'[t].userId = suspensions[t].userId
  BY <1>2, <1>4
<1>6. \A n \in Moderators : CasoOK(caso[n])'
  <2>1. ASSUME NEW n \in Moderators \ {m}, caso[n].step = "setSuspenso"
        PROVE  \/ suspensions'[caso[n].suspension].apelada
               \/ suspensions'[caso[n].suspension].status = suspensions[caso[n].suspension].status
    <3>1. caso[n].suspension \in SuspensionIds
      BY <2>1, Quiet DEF CasoOK, Opening
    <3>2. CASE caso[n].suspension = s
      <4>1. suspensions[s].apelada
        BY <2>1, <3>2, Alone DEF Opening
      <4> QED
        BY <1>5, <3>2, <4>1
    <3>3. CASE caso[n].suspension # s
      BY <1>4, <3>1, <3>3
    <3> QED
      BY <3>2, <3>3
  <2> QED
    BY <1>4, <2>1, OthersRestOK
<1>7. HoldersOK'
  BY HoldersSame
<1>8. SuspensionHasLiftJob'
  <2>1. ASSUME NEW t \in SuspensionIds, suspensions'[t].status = "ATIVA", ~suspensions'[t].apelada
        PROVE  t # s /\ suspensions'[t] = suspensions[t]
    BY <1>2, <1>4, <1>5, <2>1
  <2> QED
    BY <2>1, LiftJobStays
<1>9. ClosedOK'
  <2>1. NoAppeal' => NoAppeal /\ ~suspensions[s].apelada
    BY <1>5 DEF NoAppeal
  <2>2. \A n \in Moderators \ {m} : caso[n].step \in Reopening =>
          suspensions'[caso[n].suspension].userId = suspensions[caso[n].suspension].userId
    BY <1>5, Quiet DEF CasoOK, Reopening
  <2>3. ASSUME NoAppeal', NEW u \in Users, accounts'[u] = "SUSPENSO"
        PROVE  \/ ActiveFor(u)' # {}
               \/ caso'[m].step \in Reopening /\ suspensions'[caso'[m].suspension].userId = u
               \/ accounts[u] = "SUSPENSO" /\ ActiveFor(u) = {}
    <3>1. CASE suspensions[s].userId = u
      BY <1>5, <2>1, <2>3, <3>1
    <3>2. CASE suspensions[s].userId # u
      <4>1. ActiveFor(u)' = ActiveFor(u)
        BY <1>4, <1>5, <3>2 DEF ActiveFor
      <4> QED
        BY <2>3, <4>1
    <3> QED
      BY <3>1, <3>2
  <2> QED
    BY <2>1, <2>2, <2>3, ClosedStays
<1>10. ModerationTypeOK'
  BY <1>1, <1>4 DEF ModerationTypeOK
<1> QED
  BY <1>4, <1>6, <1>7, <1>8, <1>9, <1>10 DEF ModeratorsInv

LEMMA DecideAppealKeeps ==
  ASSUME ModeratorsInv, NEW m \in Moderators, DecideAppeal(m)
  PROVE  ModeratorsInv'
<1> DEFINE s == caso[m].suspension
           status == IF caso[m].decision THEN "REVOGADA" ELSE "ATIVA"
<1>1. /\ caso[m].op = "appeal" /\ caso[m].step = "resolve"
      /\ To(m, "reactivate") \/ Close(m)
      /\ suspensions' = [suspensions EXCEPT ![s].status = status]
      /\ UNCHANGED <<reports, accounts, restoreJobs, liftJobs, failures>>
      /\ ModerationTypeOK /\ CasoOK(caso[m])
  BY Quiet DEF DecideAppeal, Doing, vars
<1>2. /\ s \in SuspensionIds /\ suspensions[s].status # "AUSENTE" /\ suspensions[s].apelada
      /\ suspensions[s] \in Suspension
  BY <1>1 DEF CasoOK, ModerationTypeOK
<1>3. status \in {"ATIVA", "REVOGADA", "EXPIRADA"} /\ status # "AUSENTE"
  OBVIOUS
<1>4. caso[m].step \notin Reopening /\ caso[m].step \notin Lifting /\ caso[m].suspension = s
  BY <1>1 DEF Reopening, Lifting
<1> HIDE DEF status
<1>5. suspensions'[s].status # "AUSENTE" /\ suspensions'[s].apelada
  <2>1. suspensions'[s] = [suspensions[s] EXCEPT !.status = status]
    BY <1>1, <1>2 DEF ModerationTypeOK
  <2> QED
    BY <1>2, <1>3, <2>1 DEF Suspension
<1>6. CASE To(m, "reactivate")
  <2>1. /\ caso' \in [Moderators -> Caso] /\ OthersRest(m)
        /\ caso'[m].step = "reactivate" /\ caso'[m].op = "appeal" /\ caso'[m].suspension = s
    BY <1>1, <1>6, CasoMovesTo DEF CasoSteps
  <2>2. CasoOK(caso[m])'
    BY <1>2, <1>5, <2>1 DEF CasoOK, Opening
  <2>3. caso'[m].step \notin Opening /\ caso'[m].op # "expire"
    BY <2>1 DEF Opening
  <2> HIDE DEF s
  <2> QED
    BY <1>1, <1>2, <1>3, <1>4, <2>1, <2>2, <2>3, SuspensionDecided
<1>7. CASE Close(m)
  <2>1. /\ caso' \in [Moderators -> Caso] /\ OthersRest(m)
        /\ caso'[m].step = "idle" /\ caso'[m].op = "idle" /\ CasoOK(caso[m])'
    BY <1>1, <1>7, CasoCloses
  <2>2. caso'[m].step \notin Opening /\ caso'[m].op # "expire"
    BY <2>1 DEF Opening
  <2> HIDE DEF s
  <2> QED
    BY <1>1, <1>2, <1>3, <1>4, <2>1, <2>2, SuspensionDecided
<1> QED
  BY <1>1, <1>6, <1>7

LEMMA ExpireSuspensionKeeps ==
  ASSUME ModeratorsInv, NEW m \in Moderators, ExpireSuspension(m)
  PROVE  ModeratorsInv'
<1> DEFINE s == caso[m].suspension
<1>1. /\ caso[m].op = "expire" /\ caso[m].step = "expire" /\ To(m, "checkOther")
      /\ suspensions' = [suspensions EXCEPT ![s].status = "EXPIRADA"]
      /\ UNCHANGED <<reports, accounts, restoreJobs, liftJobs, failures>>
      /\ ModerationTypeOK /\ CasoOK(caso[m])
  BY Quiet DEF ExpireSuspension, Doing, vars
<1>2. /\ s \in SuspensionIds /\ suspensions[s].status # "AUSENTE"
      /\ liftJobs[s].state = "active" /\ suspensions[s] \in Suspension
  BY <1>1 DEF CasoOK, ModerationTypeOK
<1>3. /\ caso' \in [Moderators -> Caso] /\ OthersRest(m)
      /\ caso'[m].step = "checkOther" /\ caso'[m].op = "expire" /\ caso'[m].suspension = s
  BY <1>1, CasoMovesTo DEF CasoSteps
<1>4. suspensions'[s].status # "AUSENTE"
  <2>1. suspensions'[s] = [suspensions[s] EXCEPT !.status = "EXPIRADA"]
    BY <1>1, <1>2 DEF ModerationTypeOK
  <2> QED
    BY <1>2, <2>1 DEF Suspension
<1>5. CasoOK(caso[m])'
  BY <1>1, <1>2, <1>3, <1>4 DEF CasoOK, Opening
<1>6. /\ caso'[m].step \notin Opening /\ caso'[m].step \in Reopening
      /\ caso[m].step \notin Reopening /\ caso[m].suspension = s
  BY <1>1, <1>3 DEF Opening, Reopening
<1> HIDE DEF s
<1> QED
  BY <1>1, <1>2, <1>3, <1>5, <1>6, SuspensionDecided

LEMMA CheckOtherKeeps ==
  ASSUME ModeratorsInv, NEW m \in Moderators, CheckOther(m)
  PROVE  ModeratorsInv'
<1> DEFINE step == IF ActiveFor(suspensions[caso[m].suspension].userId) = {}
                     THEN "reactivate" ELSE "completeJob"
<1>1. /\ caso[m].op = "expire" /\ caso[m].step = "checkOther" /\ To(m, step)
      /\ UNCHANGED <<reports, suspensions, accounts, restoreJobs, liftJobs, failures>>
      /\ ModerationTypeOK /\ CasoOK(caso[m])
  BY Quiet DEF CheckOther, Doing, vars
<1>2. /\ step \in {"reactivate", "completeJob"}
      /\ step = "completeJob" => ActiveFor(suspensions[caso[m].suspension].userId) # {}
  OBVIOUS
<1> HIDE DEF step
<1>3. /\ caso' \in [Moderators -> Caso] /\ OthersRest(m)
      /\ caso'[m].step = step /\ caso'[m].op = "expire"
      /\ caso'[m].suspension = caso[m].suspension
  BY <1>1, <1>2, CasoMovesTo DEF CasoSteps
<1>4. CasoOK(caso[m])'
  BY <1>1, <1>2, <1>3 DEF CasoOK, Opening
<1>5. /\ caso'[m].step \notin Opening /\ caso[m].step \notin Lifting
      /\ caso'[m].step \in Reopening \/ ActiveFor(suspensions[caso[m].suspension].userId) # {}
  BY <1>1, <1>2, <1>3 DEF Opening, Lifting, Reopening
<1> QED
  BY <1>1, <1>3, <1>4, <1>5, Quiet, ReportsSame, CasoStep

\* The account that is opened is the one its handler answers for.
LEMMA ReactivateKeeps ==
  ASSUME ModeratorsInv, NEW m \in Moderators, Reactivate(m)
  PROVE  ModeratorsInv'
<1> DEFINE s == caso[m].suspension
           u == suspensions[s].userId
<1>1. /\ caso[m].step = "reactivate"
      /\ accounts' = [accounts EXCEPT ![u] = "ATIVO"]
      /\ IF caso[m].op = "expire" THEN To(m, "completeJob") ELSE Close(m)
      /\ UNCHANGED <<reports, suspensions, restoreJobs, liftJobs, failures>>
      /\ ModerationTypeOK /\ CasoOK(caso[m])
  BY Quiet DEF Reactivate, vars
<1>2. caso[m].step \notin Lifting
  BY <1>1 DEF Lifting
<1>3. /\ caso' \in [Moderators -> Caso] /\ OthersRest(m) /\ CasoOK(caso[m])'
      /\ caso'[m].step \notin Opening
      /\ caso'[m].op = "expire" => caso[m].op = "expire" /\ caso'[m].suspension = s
  <2>1. CASE caso[m].op = "expire"
    <3>1. /\ caso' \in [Moderators -> Caso] /\ OthersRest(m)
          /\ caso'[m].step = "completeJob" /\ caso'[m].op = "expire" /\ caso'[m].suspension = s
      BY <1>1, <2>1, CasoMovesTo DEF CasoSteps
    <3>2. s \in SuspensionIds /\ suspensions[s].status # "AUSENTE" /\ liftJobs[s].state = "active"
      BY <1>1, <2>1 DEF CasoOK
    <3>3. CasoOK(caso[m])'
      BY <1>1, <3>1, <3>2 DEF CasoOK, Opening
    <3>4. caso'[m].step \notin Opening
      BY <3>1 DEF Opening
    <3> QED
      BY <2>1, <3>1, <3>3, <3>4
  <2>2. CASE caso[m].op # "expire"
    <3>1. /\ caso' \in [Moderators -> Caso] /\ OthersRest(m)
          /\ caso'[m].step = "idle" /\ caso'[m].op = "idle" /\ CasoOK(caso[m])'
      BY <1>1, <2>2, CasoCloses
    <3>2. caso'[m].step \notin Opening
      BY <3>1 DEF Opening
    <3> QED
      BY <3>1, <3>2
  <2> QED
    BY <2>1, <2>2
<1>4. RowsStay
  BY <1>1 DEF RowsStay
<1>5. \A n \in Moderators : CasoOK(caso[n])'
  BY <1>1, <1>3, <1>4, OthersRestOK
<1>6. RowsOK'
  BY <1>1 DEF ModeratorsInv, RowsOK
<1>7. HoldersOK'
  BY <1>3, HoldersSame
<1>8. SuspensionHasLiftJob'
  BY <1>1, <1>2, <1>3, LiftJobStays
<1>9. /\ accounts' \in [Users -> {"ATIVO", "SUSPENSO"}]
      /\ \A v \in Users : accounts'[v] = "SUSPENSO" => v # u /\ accounts[v] = "SUSPENSO"
  BY <1>1 DEF ModerationTypeOK
<1>10. ClosedOK'
  <2>1. \A v : ActiveFor(v)' = ActiveFor(v)
    BY <1>1 DEF ActiveFor
  <2>2. NoAppeal' => NoAppeal
    BY <1>1 DEF NoAppeal
  <2>3. \A v \in Users : accounts'[v] = "SUSPENSO" =>
          accounts[v] = "SUSPENSO" /\ suspensions[caso[m].suspension].userId # v
    BY <1>9
  <2> QED
    BY <1>1, <1>3, <2>1, <2>2, <2>3, ClosedStays
<1>11. ModerationTypeOK'
  BY <1>1, <1>3, <1>9 DEF ModerationTypeOK
<1> QED
  BY <1>5, <1>6, <1>7, <1>8, <1>10, <1>11 DEF ModeratorsInv

LEMMA ModerationFailureKeeps ==
  ASSUME ReputationInv, ModeratorsInv, NEW m \in Moderators, ModerationFailure(m)
  PROVE  ModeratorsInv'
<1> DEFINE s == caso[m].suspension
<1>1. /\ Close(m) /\ UNCHANGED <<reports, suspensions, accounts>> /\ failures' # 0
      /\ ModerationTypeOK /\ CasoOK(caso[m])
      /\ restoreJobs \in Queue(ReportIds) /\ liftJobs \in Queue(SuspensionIds)
  BY Quiet DEF ModerationFailure, ReputationInv, ReputationTypeOK
<1>2. CASE caso[m].op = "expire"
  <2>1. s \in SuspensionIds /\ suspensions[s].status # "AUSENTE" /\ liftJobs[s].state = "active"
    BY <1>1, <1>2 DEF CasoOK
  <2>2. /\ liftJobs' = Fail(liftJobs, s) \/ liftJobs' = Stall(liftJobs, s)
        /\ restoreJobs' = restoreJobs
    BY <1>2 DEF ModerationFailure
  <2>3. /\ liftJobs' \in Queue(SuspensionIds) /\ OneJob(liftJobs, liftJobs', SuspensionIds, s)
        /\ liftJobs'[s].at = liftJobs[s].at
    BY <1>1, <2>1, <2>2, QueueFail
  <2>4. liftJobs[s].at = suspensions[s].fimEm
    BY <2>1 DEF ModeratorsInv, RowsOK
  <2>5. /\ caso' \in [Moderators -> Caso] /\ OthersRest(m)
        /\ caso'[m].step = "idle" /\ caso'[m].op = "idle" /\ CasoOK(caso[m])'
    BY <1>1, CasoCloses
  <2>6. \A n \in Moderators \ {m} : caso[n].step \in Opening \/ caso[n].op = "expire" =>
          caso[n].suspension # s
    BY <1>2, Alone
  <2> HIDE DEF s
  <2>7. caso'[m].step \notin Opening
    BY <2>5 DEF Opening
  <2> QED
    BY <1>1, <2>1, <2>2, <2>3, <2>4, <2>5, <2>6, <2>7, LiftJobMoves
<1>3. CASE caso[m].op = "lift"
  <2>1. /\ caso[m].report \in ReportIds /\ reports[caso[m].report].status # "AUSENTE"
        /\ liftJobs' = liftJobs
    BY <1>1, <1>3 DEF CasoOK, ModerationFailure
  <2>2. \/ restoreJobs' = Fail(restoreJobs, caso[m].report)
        \/ restoreJobs' = Stall(restoreJobs, caso[m].report)
    BY <1>3 DEF ModerationFailure
  <2>3. /\ restoreJobs' \in Queue(ReportIds)
        /\ OneJob(restoreJobs, restoreJobs', ReportIds, caso[m].report)
    BY <1>1, <2>1, <2>2, QueueFail
  <2>4. \A i \in ReportIds : restoreJobs'[i].state # "absent" =>
          restoreJobs[i].state # "absent" \/ reports[i].status # "AUSENTE"
    BY <2>1, <2>3 DEF OneJob
  <2> QED
    BY <1>1, <2>1, <2>3, <2>4, CasoEnds
<1>4. CASE caso[m].op \notin {"expire", "lift"}
  <2>1. UNCHANGED <<restoreJobs, liftJobs>>
    BY <1>4 DEF ModerationFailure
  <2> QED
    BY <1>1, <2>1, CasoEnds
<1> QED
  BY <1>2, <1>3, <1>4

--------------------------------------------------------------------------------
(* The invariant *)

LEMMA ModerationStepKeeps ==
  ASSUME ReputationInv, ModeratorsInv, NEW m \in Moderators, ModerationStep(m)
  PROVE  ModeratorsInv'
<1>1. CASE HideReview(m)
  BY <1>1, HideReviewKeeps
<1>2. CASE ScheduleRestore(m)
  BY <1>2, ScheduleRestoreKeeps
<1>3. CASE DecideReport(m)
  BY <1>3, DecideReportKeeps
<1>4. CASE DecideContent(m)
  BY <1>4, DecideContentKeeps
<1>5. CASE RestoreReview(m)
  BY <1>5, RestoreReviewKeeps
<1>6. CASE SetEmAnalise(m)
  BY <1>6, SetEmAnaliseKeeps
<1>7. CASE CheckActive(m)
  BY <1>7, CheckActiveKeeps
<1>8. CASE CountStrikes(m)
  BY <1>8, CountStrikesKeeps
<1>9. CASE CreateSuspension(m)
  BY <1>9, CreateSuspensionKeeps
<1>10. CASE SetSuspenso(m)
  BY <1>10, SetSuspensoKeeps
<1>11. CASE ScheduleLift(m)
  BY <1>11, ScheduleLiftKeeps
<1>12. CASE DecideAppeal(m)
  BY <1>12, DecideAppealKeeps
<1>13. CASE Reactivate(m)
  BY <1>13, ReactivateKeeps
<1>14. CASE ExpireSuspension(m)
  BY <1>14, ExpireSuspensionKeeps
<1>15. CASE CheckOther(m)
  BY <1>15, CheckOtherKeeps
<1>16. CASE CompleteModerationJob(m)
  BY <1>16, CompleteModerationJobKeeps
<1> QED
  BY <1>1, <1>2, <1>3, <1>4, <1>5, <1>6, <1>7, <1>8, <1>9, <1>10, <1>11, <1>12, <1>13, <1>14,
     <1>15, <1>16 DEF ModerationStep

LEMMA ModerationNextKeeps ==
  ASSUME ReputationInv, ModeratorsInv, ModerationNext
  PROVE  ModeratorsInv'
<1>1. ASSUME NEW s \in SuspensionIds, Appeal(s) PROVE ModeratorsInv'
  BY <1>1, AppealKeeps
<1>2. ASSUME NEW m \in Moderators, ModerationStep(m) \/ ModerationFailure(m) PROVE ModeratorsInv'
  BY <1>2, ModerationStepKeeps, ModerationFailureKeeps
<1>3. ASSUME NEW m \in Moderators, NEW alvo \in Targets, Denunciar(m, alvo) PROVE ModeratorsInv'
  BY <1>3, DenunciarKeeps
<1>4. ASSUME NEW m \in Moderators, NEW i \in ReportIds,
             StartRestore(m, i) \/ \E procedente \in BOOLEAN : ResolveReport(m, i, procedente)
      PROVE  ModeratorsInv'
  BY <1>4, StartRestoreKeeps, ResolveReportKeeps
<1>5. ASSUME NEW m \in Moderators, NEW s \in SuspensionIds,
             StartLift(m, s) \/ \E grant \in BOOLEAN : ResolveAppeal(m, s, grant)
      PROVE  ModeratorsInv'
  BY <1>5, StartLiftKeeps, ResolveAppealKeeps
<1> QED
  BY <1>1, <1>2, <1>3, <1>4, <1>5 DEF ModerationNext

\* The handlers of moderation may wait while time passes and reviews are written.
LEMMA ModeratorsStay ==
  ASSUME ModeratorsInv, UNCHANGED moderation, failures' = 0 => failures = 0
  PROVE  ModeratorsInv'
<1>1. UNCHANGED <<reports, suspensions, accounts, restoreJobs, liftJobs, caso>>
  BY DEF moderation
<1>2. ModerationTypeOK' /\ RowsOK' /\ HoldersOK'
  BY <1>1 DEF ModeratorsInv, ModerationTypeOK, RowsOK, HoldersOK
<1>3. \A m \in Moderators : CasoOK(caso[m])'
  BY <1>1 DEF ModeratorsInv, CasoOK
<1>4. SuspensionHasLiftJob'
  BY <1>1 DEF ModeratorsInv, SuspensionHasLiftJob
<1>5. ClosedOK'
  BY <1>1 DEF ModeratorsInv, ClosedOK, ActiveFor
<1> QED
  BY <1>2, <1>3, <1>4, <1>5 DEF ModeratorsInv

LEMMA InitReputation == Init => ReputationInv
<1> SUFFICES ASSUME Init PROVE ReputationInv
  OBVIOUS
<1>1. /\ reviews = [r \in ReviewIds |-> [status |-> "AUSENTE", nota |-> 0, reveladaEm |-> 0]]
      /\ responses = {} /\ badges = [u \in Users |-> {}]
      /\ revealJobs = EmptyQueue(Bookings) /\ task = [w \in Workers |-> Idle]
      /\ now = 0 /\ failures = 0
  BY DEF Init, ReputationInit
<1>2. \A b \in Bookings : revealJobs[b].state = "absent"
  BY <1>1 DEF EmptyQueue, NoJob
<1>3. \A r \in ReviewIds : reviews[r].status = "AUSENTE"
  BY <1>1
<1>4. \A w \in Workers : task[w] = Idle /\ task[w].job = FALSE
  BY <1>1, IdleTask
<1>5. ReputationTypeOK
  <2>1. reviews \in [ReviewIds -> Review]
    BY <1>1 DEF Review
  <2>2. revealJobs \in Queue(Bookings)
    BY <1>1 DEF EmptyQueue, Queue, NoJob, Job, JobStates
  <2>3. task \in [Workers -> Task]
    BY <1>1, IdleTask
  <2> QED
    BY <1>1, <2>1, <2>2, <2>3 DEF ReputationTypeOK
<1>6. \A w \in Workers : TaskOK(task[w])
  BY <1>4, IdleTask
<1>7. \A b \in Bookings : RevealJobOK(b)
  BY <1>2 DEF RevealJobOK
<1>8. RunnersOK
  BY <1>4 DEF RunnersOK
<1>9. BlindOK /\ TogetherOK /\ ScheduledOK
  BY <1>3 DEF BlindOK, TogetherOK, ScheduledOK
<1> QED
  BY <1>5, <1>6, <1>7, <1>8, <1>9 DEF ReputationInv

LEMMA InitModerators == Init => ModeratorsInv
<1> SUFFICES ASSUME Init PROVE ModeratorsInv
  OBVIOUS
<1>1. /\ reports = [i \in ReportIds |-> [alvo |-> NoTarget, status |-> "AUSENTE"]]
      /\ suspensions = [s \in SuspensionIds |->
           [userId |-> NoUser, apelada |-> FALSE, fimEm |-> 0, status |-> "AUSENTE"]]
      /\ accounts = [u \in Users |-> "ATIVO"]
      /\ restoreJobs = EmptyQueue(ReportIds) /\ liftJobs = EmptyQueue(SuspensionIds)
      /\ caso = [m \in Moderators |-> NoCaso]
  BY DEF Init
<1>2. /\ \A i \in ReportIds : reports[i].status = "AUSENTE" /\ restoreJobs[i].state = "absent"
      /\ \A s \in SuspensionIds : /\ suspensions[s].status = "AUSENTE" /\ suspensions[s].apelada = FALSE
                                  /\ liftJobs[s].state = "absent"
      /\ \A u \in Users : accounts[u] = "ATIVO"
  BY <1>1 DEF EmptyQueue, NoJob
<1>3. \A m \in Moderators : caso[m] = NoCaso
  BY <1>1
<1>4. ModerationTypeOK
  <2>1. reports \in [ReportIds -> Report]
    BY <1>1 DEF Report
  <2>2. suspensions \in [SuspensionIds -> Suspension]
    BY <1>1 DEF Suspension
  <2>3. restoreJobs \in Queue(ReportIds) /\ liftJobs \in Queue(SuspensionIds)
    BY <1>1 DEF EmptyQueue, Queue, NoJob, Job, JobStates
  <2>4. caso \in [Moderators -> Caso]
    BY <1>1, FreeCaso
  <2> QED
    BY <1>1, <2>1, <2>2, <2>3, <2>4 DEF ModerationTypeOK
<1>5. \A m \in Moderators : CasoOK(caso[m])
  BY <1>3, FreeCaso
<1>6. RowsOK
  BY <1>2 DEF RowsOK
<1>7. HoldersOK
  BY <1>3, FreeCaso DEF HoldersOK, Opening
<1>8. SuspensionHasLiftJob
  BY <1>2 DEF SuspensionHasLiftJob
<1>9. ClosedOK
  BY <1>2 DEF ClosedOK
<1> QED
  BY <1>4, <1>5, <1>6, <1>7, <1>8, <1>9 DEF ModeratorsInv

\* The invariant holds at every step, of the reviews, of moderation and of time.
THEOREM ModerationInvariance == Spec => []ModerationInv
<1>1. Init => ModerationInv
  BY InitReputation, InitModerators DEF ModerationInv
<1>2. ASSUME ModerationInv, [Next]_allVars PROVE ModerationInv'
  <2>1. ReputationInv /\ ModeratorsInv
    BY <1>2 DEF ModerationInv
  <2>2. CASE ReputationNext /\ UNCHANGED moderation
    <3>1. failures' = 0 => failures = 0
      <4>1. PICK w \in Workers :
              \/ ReputationStep(w) \/ ReputationFailure(w)
              \/ \E r \in ReviewIds, nota \in Notas : CreateReview(w, r, nota) \/ Respond(w, r)
              \/ \E b \in Bookings : StartReveal(w, b)
        BY <2>2 DEF ReputationNext
      <4>2. CASE ReputationFailure(w)
        BY <2>1, <4>2 DEF ReputationFailure, ReputationInv, ReputationTypeOK
      <4>3. CASE ReputationStep(w)
        BY <4>3 DEF ReputationStep, InsertReview, CountReviews, RevealPending, ReadRatings,
                    ReadActive, ApplyBadges, ScheduleReveal, CompleteReveal, InsertResponse
      <4>4. ASSUME \/ \E r \in ReviewIds, nota \in Notas : CreateReview(w, r, nota) \/ Respond(w, r)
                   \/ \E b \in Bookings : StartReveal(w, b)
            PROVE  failures' = failures
        BY <4>4 DEF CreateReview, Respond, StartReveal
      <4> QED
        BY <4>1, <4>2, <4>3, <4>4
    <3> QED
      BY <2>1, <2>2, <3>1, ReputationNextKeeps, ModeratorsStay DEF ModerationInv
  <2>3. CASE ModerationNext
    BY <2>1, <2>3, ModerationKeepsReputation, ModerationNextKeeps DEF ModerationInv
  <2>4. CASE Tick
    <3>1. UNCHANGED <<failures, moderation>>
      BY <2>4 DEF Tick
    <3> QED
      BY <2>1, <2>4, <3>1, TickKeeps, ModeratorsStay DEF ModerationInv
  <2>5. CASE UNCHANGED allVars
    <3>1. UNCHANGED <<vars, moderation>> /\ failures' = failures
      BY <2>5 DEF allVars, vars
    <3> QED
      BY <2>1, <3>1, UnchangedReputation, ModeratorsStay DEF ModerationInv
  <2> QED
    BY <1>2, <2>2, <2>3, <2>4, <2>5 DEF Next
<1> QED
  BY <1>1, <1>2, PTL DEF Spec

\* Rows, queues and handlers have their types, in both halves.
THEOREM ModerationTypeCorrect == Spec => []TypeOK
<1>1. ModerationInv => TypeOK
  BY DEF ModerationInv, ReputationInv, ModeratorsInv, ModerationTypeOK, TypeOK
<1> QED
  BY <1>1, ModerationInvariance, PTL

\* Double blind: no review is out before its pair is written or the window is closed,
\* whatever the job, the handlers of the two parties and moderation do (shouldReveal).
THEOREM RevealedBlindlyAlways == Spec => []RevealedBlindly
<1>1. ModerationInv => RevealedBlindly
  <2> SUFFICES ASSUME ModerationInv, NEW r \in ReviewIds, reviews[r].status \in {"REVELADA", "OCULTA"}
               PROVE  now >= REVIEW_WINDOW_DAYS \/ Cardinality(Written(r[1])) = 2
    BY DEF RevealedBlindly
  <2>1. now >= REVIEW_WINDOW_DAYS \/ Both(r[1])
    BY DEF ModerationInv, ReputationInv, BlindOK
  <2> QED
    BY <2>1, ReviewParts, WrittenCount
<1> QED
  BY <1>1, ModerationInvariance, PTL

\* Once the handlers are done, no review of a booking waits while the other one is out,
\* though neither handler sees the insert of the other.
THEOREM RevealedTogetherAlways == Spec => []RevealedTogether
<1>1. ModerationInv => RevealedTogether
  <2> SUFFICES ASSUME ModerationInv, ReputationQuiet, failures = 0,
                      NEW b \in Bookings, Pending(b) # {}
               PROVE  Cardinality(Written(b)) = 1
    BY DEF RevealedTogether
  <2>1. PICK r \in ReviewsOf(b) : reviews[r].status = "PENDENTE"
    BY DEF Pending
  <2>2. r \in ReviewIds /\ r[1] = b /\ Some(b)
    BY <2>1 DEF ReviewsOf, Some
  <2>3. \A w \in Workers : task[w].step = "idle"
    BY IdleTask DEF ReputationQuiet, Free
  <2>4. ~Both(b)
    BY <2>1, <2>2, <2>3 DEF ModerationInv, ReputationInv, TogetherOK
  <2> QED
    BY <2>2, <2>4, WrittenCount
<1> QED
  BY <1>1, ModerationInvariance, PTL

\* As long as nothing failed, a review that is pending has its job, or a handler that
\* reveals it or schedules that (createReview; one that dies before it schedules leaves
\* the review without a job).
THEOREM PendingIsScheduledAlways == Spec => []PendingIsScheduled
<1>1. ModerationInv => PendingIsScheduled
  <2> SUFFICES ASSUME ModerationInv, failures = 0, NEW b \in Bookings, Pending(b) # {}
               PROVE  \/ revealJobs[b].state = "delayed"
                      \/ \E w \in Workers : /\ task[w].booking = b
                                            /\ task[w].step \in {"count", "reveal", "schedule"}
    BY DEF PendingIsScheduled
  <2>1. PICK r \in ReviewsOf(b) : reviews[r].status = "PENDENTE"
    BY DEF Pending
  <2>2. r \in ReviewIds /\ r[1] = b
    BY <2>1 DEF ReviewsOf
  <2> QED
    BY <2>1, <2>2 DEF ModerationInv, ReputationInv, ScheduledOK
<1> QED
  BY <1>1, ModerationInvariance, PTL

\* As long as nothing failed, a suspension in force that was not appealed has the job
\* that ends it, or the handler that is going to schedule or to end it (suspend).
THEOREM SuspensionHasLiftJobAlways == Spec => []SuspensionHasLiftJob
<1>1. ModerationInv => SuspensionHasLiftJob
  BY DEF ModerationInv, ModeratorsInv
<1> QED
  BY <1>1, ModerationInvariance, PTL

\* When nothing failed and no handler runs, no account that never appealed is closed
\* without a suspension, though two moderators suspend it twice and the two jobs look
\* for each other's suspension (suspend, lift).
THEOREM ClosedOnlyWhileSuspendedAlways == Spec => []ClosedOnlyWhileSuspended
<1>1. ModerationInv => ClosedOnlyWhileSuspended
  <2> SUFFICES ASSUME ModerationInv, Settled, failures = 0, NEW u \in Users,
                      accounts[u] = "SUSPENSO", \A s \in SuspensionIds : ~suspensions[s].apelada
               PROVE  ActiveFor(u) # {}
    BY DEF ClosedOnlyWhileSuspended
  <2>1. \A m \in Moderators : caso[m].step = "idle"
    BY FreeCaso DEF Settled, Available
  <2> QED
    BY <2>1 DEF ModerationInv, ModeratorsInv, ClosedOK
<1> QED
  BY <1>1, ModerationInvariance, PTL

================================================================================
