-------------------------------- MODULE Booking --------------------------------
(***************************************************************************)
(* Booking of ObraCerta: a contractor asks a professional for a date, the  *)
(* professional approves (which blocks the calendar), declines, or lets    *)
(* the request expire (which costs penalty points); an approved booking    *)
(* can be moved to another date by mutual agreement, cancelled, started    *)
(* and completed.                                                          *)
(*                                                                         *)
(* As in Billing, a handler is run by one worker and each awaited call     *)
(* that touches the state is one step; task[w] holds its local variables.  *)
(* A handler that reads a status and then makes one UPDATE guarded on that *)
(* very status is one action: when the status changed in between it only   *)
(* throws.                                                                 *)
(*                                                                         *)
(* Time is counted in hours.  A handler takes milliseconds, so an hour     *)
(* ends only when no handler is running.                                   *)
(***************************************************************************)
EXTENDS JobQueue, Calendar, Sequences, FiniteSets

CONSTANTS
  Professionals, Contractors, NoUser,
  Dates,                          \* dates a service is asked for
  Workers,                        \* handlers that may run at the same time
  BOOKING_EXPIRY_HOURS,
  MAX_PENDING_PER_ESPECIALIDADE,  \* bookings are of one especialidade
  MaxBookings, MaxTime, MaxFailures, MaxProposals \* bounds

ASSUME BookingUsersAssumption ==
  /\ NoUser \notin Professionals \cup Contractors
  /\ Professionals \cap Contractors = {}
ASSUME BookingNumbersAssumption ==
  /\ Dates \subseteq Nat \ {0}
  /\ BOOKING_EXPIRY_HOURS \in Nat /\ MAX_PENDING_PER_ESPECIALIDADE \in Nat
  /\ MaxBookings \in Nat /\ MaxTime \in Nat /\ MaxFailures \in Nat /\ MaxProposals \in Nat
ASSUME BookingWorkersAssumption == IsFiniteSet(Workers) /\ Workers # {}

Users == Professionals \cup Contractors
BookingIds == 1 .. MaxBookings

VARIABLES
  bookings,    \* booking_requests; status "AUSENTE" is no row
  blocks,      \* schedule_blocks
  penalties,   \* penalties, in the order they were inserted
  expireJobs,  \* the queue booking-expiry
  task,        \* the handler each worker runs
  now, failures,
  propostas    \* history: the booking of each new date proposed so far

clock == <<now, failures>>
vars == <<bookings, blocks, penalties, expireJobs, task, clock, propostas>>

--------------------------------------------------------------------------------
(* Types *)

Statuses == {"PENDENTE", "APROVADO", "RECUSADO", "EXPIRADO", "CANCELADO",
             "INICIADO", "CONCLUIDO"}

BookingRequest ==
  [contractor : Contractors \cup {NoUser}, professional : Professionals \cup {NoUser},
   dataServico : Dates \cup {0}, status : Statuses \cup {"AUSENTE"}, expiraEm : Nat,
   reagendamentoData : Dates \cup {0}, reagendamentoPor : Users \cup {NoUser}]

PenaltyReasons == {"RECUSA_INJUSTIFICADA", "NAO_RESPONDEU"}

Penalty == [booking : BookingIds, motivo : PenaltyReasons, pontos : 1 .. 6]

Ops == {"idle", "create", "approve", "decline", "accept", "reject", "cancel", "expire"}

Steps == {"idle", "createBooking", "scheduleExpiry", "checkConflict", "block", "approveBooking",
          "removeBlocks", "removeOldBlock", "checkNewDate", "restoreOldBlock", "blockNewDate",
          "applyReschedule", "clearReschedule", "countPenalties", "createPenalty", "completeJob"}

\* The local variables of a handler; antiga is the date read before a move.
Task ==
  [op : Ops, step : Steps, booking : BookingIds \cup {0},
   contractor : Contractors \cup {NoUser}, professional : Professionals \cup {NoUser},
   date : Dates \cup {0}, antiga : Dates \cup {0}, prior : Nat]

TypeOK ==
  /\ bookings \in [BookingIds -> BookingRequest]
  /\ blocks \subseteq Block(Professionals, BookingIds, Dates)
  /\ penalties \in Seq(Penalty)
  /\ expireJobs \in Queue(BookingIds)
  /\ task \in [Workers -> Task]
  /\ now \in Nat
  /\ failures \in Nat
  /\ propostas \in Seq(BookingIds)

\* What a handler that neither creates nor moves a booking knows between two calls.
Doing(op, step, b, p, date, prior) ==
  [op |-> op, step |-> step, booking |-> b, contractor |-> NoUser, professional |-> p,
   date |-> date, antiga |-> 0, prior |-> prior]
Idle == Doing("idle", "idle", 0, NoUser, 0, 0)

Init ==
  /\ bookings = [b \in BookingIds |->
       [contractor |-> NoUser, professional |-> NoUser, dataServico |-> 0, status |-> "AUSENTE",
        expiraEm |-> 0, reagendamentoData |-> 0, reagendamentoPor |-> NoUser]]
  /\ blocks = {}
  /\ penalties = <<>>
  /\ expireJobs = EmptyQueue(BookingIds)
  /\ task = [w \in Workers |-> Idle]
  /\ now = 0
  /\ failures = 0
  /\ propostas = <<>>

--------------------------------------------------------------------------------
(* Rules of the domain *)

\* BOOKING_TRANSITIONS
canTransition(from, to) ==
  <<from, to>> \in
    ({"PENDENTE"} \X {"APROVADO", "RECUSADO", "EXPIRADO", "CANCELADO"})
    \cup ({"APROVADO"} \X {"INICIADO", "CANCELADO"})
    \cup ({"INICIADO"} \X {"CONCLUIDO", "CANCELADO"})

\* countPending, of a contractor
Pending(c) ==
  {b \in BookingIds : bookings[b].contractor = c /\ bookings[b].status = "PENDENTE"}

\* Mutated: off by one.
exceedsPendingLimitByOne(n) == n > MAX_PENDING_PER_ESPECIALIDADE

exceedsPendingLimit(n) == n >= MAX_PENDING_PER_ESPECIALIDADE

\* Penalties: base points times 1, 2 or, from the third on, 3.
BASE_POINTS(motivo) == IF motivo = "NAO_RESPONDEU" THEN 2 ELSE 1

escalatePoints(motivo, prior) ==
  BASE_POINTS(motivo) * (IF prior + 1 < 3 THEN prior + 1 ELSE 3)

PenaltiesOf(p) == {k \in DOMAIN penalties : bookings[penalties[k].booking].professional = p}

FreeBookings ==
  {b \in BookingIds : /\ bookings[b].status = "AUSENTE"
                      /\ \A w \in Workers : task[w].booking # b}
First(n, S) == n \in S /\ \A m \in S : n <= m

Participants(b) == {bookings[b].contractor, bookings[b].professional}

--------------------------------------------------------------------------------
(* Handlers *)

At(w, op, step) == task[w].op = op /\ task[w].step = step
Start(w, t) == task' = [task EXCEPT ![w] = t]
Goto(w, step) == task' = [task EXCEPT ![w].step = step]
Finish(w) == Start(w, Idle)
Free(w) == task[w] = Idle

\* transitionStatus where it finds the status it expects.
Transition(b, from, to) ==
  /\ bookings[b].status = from
  /\ bookings' = [bookings EXCEPT ![b].status = to]

\* createForContractor, up to its count of pending requests.
CreateForContractor(w, c, p, date) ==
  /\ Free(w)
  /\ date > now
  /\ ~exceedsPendingLimit(Cardinality(Pending(c)))
  /\ \E b \in BookingIds :
       /\ First(b, FreeBookings)
       /\ Start(w, [op |-> "create", step |-> "createBooking", booking |-> b, contractor |-> c,
                    professional |-> p, date |-> date, antiga |-> 0, prior |-> 0])
  /\ UNCHANGED <<bookings, blocks, penalties, expireJobs, clock, propostas>>

CreateBooking(w) ==
  /\ At(w, "create", "createBooking")
  /\ bookings' = [bookings EXCEPT ![task[w].booking] =
       [contractor |-> task[w].contractor, professional |-> task[w].professional,
        dataServico |-> task[w].date, status |-> "PENDENTE",
        expiraEm |-> now + BOOKING_EXPIRY_HOURS,
        reagendamentoData |-> 0, reagendamentoPor |-> NoUser]]
  /\ Goto(w, "scheduleExpiry")
  /\ UNCHANGED <<blocks, penalties, expireJobs, clock, propostas>>

ScheduleExpiry(w) ==
  /\ At(w, "create", "scheduleExpiry")
  /\ expireJobs' = Add(expireJobs, task[w].booking, bookings[task[w].booking].expiraEm)
  /\ Finish(w)
  /\ UNCHANGED <<bookings, blocks, penalties, clock, propostas>>

\* approve, up to its second call; the date of a booking is final while it is
\* pending.  Whether the plan lets the professional answer is Billing's.
Approve(w, b) ==
  /\ Free(w)
  /\ bookings[b].status = "PENDENTE"
  /\ Start(w, Doing("approve", "checkConflict", b, bookings[b].professional,
                    bookings[b].dataServico, 0))
  /\ UNCHANGED <<bookings, blocks, penalties, expireJobs, clock, propostas>>

\* availability.conflictsWith: "Sua agenda já está bloqueada" or on.
CheckConflict(w) ==
  /\ At(w, "approve", "checkConflict")
  /\ IF hasConflict(blocks, task[w].professional, task[w].date)
       THEN Finish(w)
       ELSE Goto(w, "block")
  /\ UNCHANGED <<bookings, blocks, penalties, expireJobs, clock, propostas>>

\* Mutated: the refusal of the exclusion constraint is swallowed.
BlockSlotSwallowed(w) ==
  /\ At(w, "approve", "block")
  /\ blocks' = IF exclusionAllows(blocks, task[w].professional, task[w].date)
                 THEN createBlock(blocks, task[w].professional, task[w].booking, task[w].date)
                 ELSE blocks
  /\ Goto(w, "approveBooking")
  /\ UNCHANGED <<bookings, penalties, expireJobs, clock, propostas>>

\* availability.blockForBooking: the exclusion constraint may refuse.
BlockSlot(w) ==
  /\ At(w, "approve", "block")
  /\ \/ /\ exclusionAllows(blocks, task[w].professional, task[w].date)
        /\ blocks' = createBlock(blocks, task[w].professional, task[w].booking, task[w].date)
        /\ Goto(w, "approveBooking")
     \/ /\ ~exclusionAllows(blocks, task[w].professional, task[w].date)
        /\ Finish(w)
        /\ UNCHANGED blocks
  /\ UNCHANGED <<bookings, penalties, expireJobs, clock, propostas>>

\* The transition; when the booking is no longer pending the block goes.
ApproveBooking(w) ==
  /\ At(w, "approve", "approveBooking")
  /\ \/ Transition(task[w].booking, "PENDENTE", "APROVADO") /\ Finish(w)
     \/ /\ bookings[task[w].booking].status # "PENDENTE"
        /\ Goto(w, "removeBlocks")
        /\ UNCHANGED bookings
  /\ UNCHANGED <<blocks, penalties, expireJobs, clock, propostas>>

\* availability.removeBlocksForBooking, as the last call of approve, of
\* acceptReschedule (compensation) and of cancel.
RemoveBlocks(w) ==
  /\ task[w].step = "removeBlocks"
  /\ blocks' = deleteBlocksForBooking(blocks, task[w].booking)
  /\ Finish(w)
  /\ UNCHANGED <<bookings, penalties, expireJobs, clock, propostas>>

\* decline, with a reason that is penalised or not.
Decline(w, b, penalizable) ==
  /\ Free(w)
  /\ Transition(b, "PENDENTE", "RECUSADO")
  /\ IF penalizable
       THEN Start(w, Doing("decline", "countPenalties", b, bookings[b].professional, 0, 0))
       ELSE UNCHANGED task
  /\ UNCHANGED <<blocks, penalties, expireJobs, clock, propostas>>

StartBooking(b) ==
  /\ Transition(b, "APROVADO", "INICIADO")
  /\ UNCHANGED <<blocks, penalties, expireJobs, task, clock, propostas>>

CompleteBooking(b) ==
  /\ Transition(b, "INICIADO", "CONCLUIDO")
  /\ UNCHANGED <<blocks, penalties, expireJobs, task, clock, propostas>>

\* Mutated: the calendar is freed only when a pending booking is cancelled.
CancelSwapped(w, b) ==
  /\ Free(w)
  /\ \/ Transition(b, "APROVADO", "CANCELADO") /\ UNCHANGED task
     \/ /\ Transition(b, "PENDENTE", "CANCELADO")
        /\ Start(w, Doing("cancel", "removeBlocks", b, NoUser, 0, 0))
  /\ UNCHANGED <<blocks, penalties, expireJobs, clock, propostas>>

\* cancel: the calendar is freed if the booking was read as approved.
Cancel(w, b) ==
  /\ Free(w)
  /\ \/ Transition(b, "PENDENTE", "CANCELADO") /\ UNCHANGED task
     \/ /\ Transition(b, "APROVADO", "CANCELADO")
        /\ Start(w, Doing("cancel", "removeBlocks", b, NoUser, 0, 0))
  /\ UNCHANGED <<blocks, penalties, expireJobs, clock, propostas>>

--------------------------------------------------------------------------------
(* Moving a booking to another date *)

\* The booking with its date, and the date somebody proposed for it.
Dated(b, date, proposta, por) ==
  [contractor |-> bookings[b].contractor, professional |-> bookings[b].professional,
   dataServico |-> date, status |-> bookings[b].status, expiraEm |-> bookings[b].expiraEm,
   reagendamentoData |-> proposta, reagendamentoPor |-> por]

\* proposeReschedule: a later proposal replaces an earlier one.
ProposeReschedule(b, u, date) ==
  /\ bookings[b].status = "APROVADO"
  /\ u \in Participants(b)
  /\ date > now
  /\ bookings' = [bookings EXCEPT ![b] = Dated(b, bookings[b].dataServico, date, u)]
  /\ Len(propostas) < MaxProposals
  /\ propostas' = Append(propostas, b)
  /\ UNCHANGED <<blocks, penalties, expireJobs, task, clock>>

\* The proposal is answered by the other party.
Proposed(b, u) ==
  /\ bookings[b].reagendamentoData # 0
  /\ u \in Participants(b) \ {bookings[b].reagendamentoPor}

\* acceptReschedule, up to its first call: both dates are read here.
AcceptReschedule(w, b, u) ==
  /\ Free(w)
  /\ Proposed(b, u)
  /\ bookings[b].status = "APROVADO"
  /\ Start(w, [op |-> "accept", step |-> "removeOldBlock", booking |-> b,
               contractor |-> NoUser, professional |-> bookings[b].professional,
               date |-> bookings[b].reagendamentoData, antiga |-> bookings[b].dataServico,
               prior |-> 0])
  /\ UNCHANGED <<bookings, blocks, penalties, expireJobs, clock, propostas>>

RemoveOldBlock(w) ==
  /\ At(w, "accept", "removeOldBlock")
  /\ blocks' = deleteBlocksForBooking(blocks, task[w].booking)
  /\ Goto(w, "checkNewDate")
  /\ UNCHANGED <<bookings, penalties, expireJobs, clock, propostas>>

CheckNewDate(w) ==
  /\ At(w, "accept", "checkNewDate")
  /\ Goto(w, IF hasConflict(blocks, task[w].professional, task[w].date)
               THEN "restoreOldBlock" ELSE "blockNewDate")
  /\ UNCHANGED <<bookings, blocks, penalties, expireJobs, clock, propostas>>

\* The old date is blocked again, whatever became of the booking; the handler
\* throws, also when the exclusion constraint refuses.
RestoreOldBlock(w) ==
  /\ At(w, "accept", "restoreOldBlock")
  /\ blocks' = IF exclusionAllows(blocks, task[w].professional, task[w].antiga)
                 THEN createBlock(blocks, task[w].professional, task[w].booking, task[w].antiga)
                 ELSE blocks
  /\ Finish(w)
  /\ UNCHANGED <<bookings, penalties, expireJobs, clock, propostas>>

\* When the constraint refuses the handler throws, with no block left.
BlockNewDate(w) ==
  /\ At(w, "accept", "blockNewDate")
  /\ \/ /\ exclusionAllows(blocks, task[w].professional, task[w].date)
        /\ blocks' = createBlock(blocks, task[w].professional, task[w].booking, task[w].date)
        /\ Goto(w, "applyReschedule")
     \/ /\ ~exclusionAllows(blocks, task[w].professional, task[w].date)
        /\ Finish(w)
        /\ UNCHANGED blocks
  /\ UNCHANGED <<bookings, penalties, expireJobs, clock, propostas>>

\* applyReschedule: the date that was read, guarded on APROVADO only.
ApplyReschedule(w) ==
  LET b == task[w].booking IN
  /\ At(w, "accept", "applyReschedule")
  /\ \/ /\ bookings[b].status = "APROVADO"
        /\ bookings' = [bookings EXCEPT ![b] = Dated(b, task[w].date, 0, NoUser)]
        /\ Finish(w)
     \/ /\ bookings[b].status # "APROVADO"
        /\ Goto(w, "removeBlocks")
        /\ UNCHANGED bookings
  /\ UNCHANGED <<blocks, penalties, expireJobs, clock, propostas>>

RejectReschedule(w, b, u) ==
  /\ Free(w)
  /\ Proposed(b, u)
  /\ Start(w, Doing("reject", "clearReschedule", b, NoUser, 0, 0))
  /\ UNCHANGED <<bookings, blocks, penalties, expireJobs, clock, propostas>>

\* clearReschedule: whatever proposal is there by now.
ClearReschedule(w) ==
  /\ At(w, "reject", "clearReschedule")
  /\ LET b == task[w].booking
     IN bookings' = [bookings EXCEPT ![b] = Dated(b, bookings[b].dataServico, 0, NoUser)]
  /\ Finish(w)
  /\ UNCHANGED <<blocks, penalties, expireJobs, clock, propostas>>

--------------------------------------------------------------------------------
(* Expiry and penalties *)

\* Mutated: the transition is not guarded on PENDENTE.
ExpireAlways(w, b) ==
  /\ Free(w)
  /\ Due(expireJobs, b, now)
  /\ expireJobs' = Take(expireJobs, b)
  /\ bookings' = [bookings EXCEPT ![b].status = "EXPIRADO"]
  /\ \E step \in {"countPenalties", "completeJob"} :
       Start(w, Doing("expire", step, b, bookings[b].professional, 0, 0))
  /\ UNCHANGED <<blocks, penalties, clock, propostas>>

\* expireIfPending: a professional whose plan lets them answer is penalised;
\* the plan is Billing's, read after the transition, so either may happen.
Expire(w, b) ==
  /\ Free(w)
  /\ Due(expireJobs, b, now)
  /\ expireJobs' = Take(expireJobs, b)
  /\ \E step \in {"countPenalties", "completeJob"} :
       /\ \/ Transition(b, "PENDENTE", "EXPIRADO")
          \/ bookings[b].status # "PENDENTE" /\ step = "completeJob" /\ UNCHANGED bookings
       /\ Start(w, Doing("expire", step, b, bookings[b].professional, 0, 0))
  /\ UNCHANGED <<blocks, penalties, clock, propostas>>

\* penalties.apply, of a decline or an expiry: the earlier ones are counted ...
CountPenalties(w) ==
  /\ task[w].step = "countPenalties"
  /\ Start(w, Doing(task[w].op, "createPenalty", task[w].booking, task[w].professional, 0,
                    Cardinality(PenaltiesOf(task[w].professional))))
  /\ UNCHANGED <<bookings, blocks, penalties, expireJobs, clock, propostas>>

\* Mutated: the new penalty is counted among the earlier ones.
CreatePenaltyCounted(w) ==
  LET motivo == IF task[w].op = "expire" THEN "NAO_RESPONDEU" ELSE "RECUSA_INJUSTIFICADA" IN
  /\ task[w].step = "createPenalty"
  /\ penalties' = Append(penalties,
       [booking |-> task[w].booking, motivo |-> motivo,
        pontos |-> escalatePoints(motivo, task[w].prior + 1)])
  /\ IF task[w].op = "expire" THEN Goto(w, "completeJob") ELSE Finish(w)
  /\ UNCHANGED <<bookings, blocks, expireJobs, clock, propostas>>

\* ... then one is inserted.
CreatePenalty(w) ==
  LET motivo == IF task[w].op = "expire" THEN "NAO_RESPONDEU" ELSE "RECUSA_INJUSTIFICADA" IN
  /\ task[w].step = "createPenalty"
  /\ penalties' = Append(penalties,
       [booking |-> task[w].booking, motivo |-> motivo,
        pontos |-> escalatePoints(motivo, task[w].prior)])
  /\ IF task[w].op = "expire" THEN Goto(w, "completeJob") ELSE Finish(w)
  /\ UNCHANGED <<bookings, blocks, expireJobs, clock, propostas>>

\* The processor returned: removeOnComplete.
CompleteJob(w) ==
  /\ At(w, "expire", "completeJob")
  /\ expireJobs' = Complete(expireJobs, task[w].booking)
  /\ Finish(w)
  /\ UNCHANGED <<bookings, blocks, penalties, clock, propostas>>

--------------------------------------------------------------------------------
(* The environment *)

Tick ==
  /\ now < MaxTime
  /\ \A w \in Workers : Free(w)
  /\ now' = now + 1
  /\ UNCHANGED <<bookings, blocks, penalties, expireJobs, task, failures, propostas>>

\* An awaited call throws, or the process dies; the job of a handler that threw
\* stays failed, that of a dead worker is run again.
Failure(w) ==
  /\ ~Free(w)
  /\ failures < MaxFailures
  /\ failures' = failures + 1
  /\ expireJobs' \in
       IF task[w].op = "expire"
         THEN {Fail(expireJobs, task[w].booking), Stall(expireJobs, task[w].booking)}
         ELSE {expireJobs}
  /\ Finish(w)
  /\ UNCHANGED <<bookings, blocks, penalties, now, propostas>>

--------------------------------------------------------------------------------
(* Specification *)

\* The next awaited call of the handler worker w runs.
Step(w) ==
  \/ CreateBooking(w) \/ ScheduleExpiry(w)
  \/ CheckConflict(w) \/ BlockSlot(w) \/ ApproveBooking(w) \/ RemoveBlocks(w)
  \/ RemoveOldBlock(w) \/ CheckNewDate(w) \/ RestoreOldBlock(w) \/ BlockNewDate(w)
  \/ ApplyReschedule(w) \/ ClearReschedule(w)
  \/ CountPenalties(w) \/ CreatePenalty(w) \/ CompleteJob(w)

\* What the two parties of booking b may ask for.
Request(w, b) ==
  \/ Approve(w, b) \/ Cancel(w, b) \/ StartBooking(b) \/ CompleteBooking(b)
  \/ \E penalizable \in BOOLEAN : Decline(w, b, penalizable)
  \/ \E u \in Users, date \in Dates : ProposeReschedule(b, u, date)
  \/ \E u \in Users : AcceptReschedule(w, b, u) \/ RejectReschedule(w, b, u)

StartExpire(b) == \E w \in Workers : Expire(w, b)

Next ==
  \/ \E w \in Workers, c \in Contractors, p \in Professionals, date \in Dates :
       CreateForContractor(w, c, p, date)
  \/ \E w \in Workers, b \in BookingIds : Request(w, b)
  \/ \E w \in Workers : Step(w) \/ Failure(w)
  \/ \E b \in BookingIds : StartExpire(b)
  \/ Tick

Spec == Init /\ [][Next]_vars

--------------------------------------------------------------------------------
(* Properties *)

Quiet == \A w \in Workers : Free(w)
Confirmed(b) == bookings[b].status \in {"APROVADO", "INICIADO"}
MovedBookings == {propostas[k] : k \in DOMAIN propostas}
Ended(b) == bookings[b].status \in {"RECUSADO", "EXPIRADO", "CANCELADO"}

\* A booking that was approved, and whose date nobody asked to change, holds
\* the calendar at its date until it ends, whatever fails and whoever else
\* approves or cancels in between (approve blocks first, then changes the
\* status, and takes back only a block of its own).
ApprovedHoldsItsSlot ==
  \A b \in BookingIds \ MovedBookings : Confirmed(b) =>
    [professional |-> bookings[b].professional, booking |-> b,
     inicio |-> bookings[b].dataServico] \in blocks

\* Two approved bookings of a professional whose dates were never moved do not
\* overlap (the exclusion constraint behind conflictsWith).
UnmovedDontOverlap ==
  \A a, b \in BookingIds \ MovedBookings :
    /\ a # b /\ Confirmed(a) /\ Confirmed(b)
    /\ bookings[a].professional = bookings[b].professional
    => ~Overlap(bookings[a].dataServico, bookings[b].dataServico)

\* Once its handlers are done, a booking that ended without ever being moved
\* leaves the calendar free (cancel, compensation of approve).
EndedFreesAgenda ==
  Quiet /\ failures = 0 =>
    \A k \in blocks : Ended(k.booking) => k.booking \in MovedBookings

\* Every step of a booking is one of BOOKING_TRANSITIONS (booking-state.ts), so
\* an answer, a cancellation and the expiry job never undo each other.
BookingMachine ==
  [][\A b \in BookingIds :
       \/ bookings'[b].status = bookings[b].status
       \/ bookings[b].status = "AUSENTE" /\ bookings'[b].status = "PENDENTE"
       \/ canTransition(bookings[b].status, bookings'[b].status)]_vars

\* A penalty is for a booking the professional declined or let expire, at most
\* one for each, also when the expiry job runs again after a crash.
PenalisedOnce ==
  /\ \A k \in DOMAIN penalties : bookings[penalties[k].booking].status =
       IF penalties[k].motivo = "NAO_RESPONDEU" THEN "EXPIRADO" ELSE "RECUSADO"
  /\ \A j, k \in DOMAIN penalties : penalties[j].booking = penalties[k].booking => j = k

\* A penalty never weighs more than the penalties before it justify: a race of
\* two may only spare points (penalty.service.ts counts, then inserts).
NeverOverPenalised ==
  \A k \in DOMAIN penalties :
    penalties[k].pontos <= escalatePoints(penalties[k].motivo,
      Cardinality({j \in PenaltiesOf(bookings[penalties[k].booking].professional) : j < k}))

\* The limit of pending requests is exceeded at most by the requests that are
\* handled at the same time (createForContractor counts, then inserts).
PendingNearLimit ==
  \A c \in Contractors :
    Cardinality(Pending(c)) <= MAX_PENDING_PER_ESPECIALIDADE + Cardinality(Workers) - 1

--------------------------------------------------------------------------------
(* What the documentation says and the code does not keep *)

\* "Agenda sem sobreposição GARANTIDA PELO BANCO" (0021 migration): once the
\* handlers are done, no two approved bookings of a professional overlap.
ApprovedDontOverlap ==
  Quiet /\ failures = 0 =>
    \A a, b \in BookingIds :
      /\ a # b /\ Confirmed(a) /\ Confirmed(b)
      /\ bookings[a].professional = bookings[b].professional
      => ~Overlap(bookings[a].dataServico, bookings[b].dataServico)

\* "Contratante cancela (...; libera a agenda)" (booking.service.ts:386).
CancelFreesAgenda ==
  Quiet /\ failures = 0 =>
    \A k \in blocks : bookings[k.booking].status # "CANCELADO"

================================================================================
