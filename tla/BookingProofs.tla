----------------------------- MODULE BookingProofs -----------------------------
(***************************************************************************)
(* Proofs about Booking for any number of users, bookings, dates, workers, *)
(* failures and proposals, in layers.  RowsInv says that the rows, the     *)
(* jobs and what handlers remember have their types and refer to rows that *)
(* exist; over it, AgendaInv says who owns each block of the calendar,     *)
(* PenaltyInv what a handler that is about to insert a penalty has found,  *)
(* and LimitInv how many requests may be about to be inserted.             *)
(***************************************************************************)
EXTENDS Booking, FiniteSetTheorems, TLAPS

Creating(w) == At(w, "create", "createBooking")

RowValid(b) ==
  /\ bookings[b].status # "AUSENTE" =>
       /\ bookings[b].contractor \in Contractors /\ bookings[b].professional \in Professionals
       /\ bookings[b].dataServico \in Dates
  /\ bookings[b].status = "AUSENTE" =>
       bookings[b].reagendamentoData = 0 /\ expireJobs[b].state = "absent"
  /\ bookings[b].reagendamentoData # 0 => b \in MovedBookings
  /\ b \in MovedBookings => bookings[b].status \notin {"AUSENTE", "PENDENTE"}

\* What a handler remembers is of a row that exists, but for the one it creates; a
\* handler that moves a booking works on one whose date somebody proposed to move.
HandlerValid(w) ==
  LET t == task[w] IN
  /\ t.op # "idle" => t.booking \in BookingIds
  /\ t.op # "idle" /\ ~Creating(w) => bookings[t.booking].status # "AUSENTE"
  /\ Creating(w) =>
       /\ bookings[t.booking].status = "AUSENTE" /\ t.contractor \in Contractors
       /\ t.professional \in Professionals /\ t.date \in Dates
  /\ t.op \in {"approve", "accept"} => t.professional \in Professionals /\ t.date \in Dates
  /\ t.op = "accept" => t.booking \in MovedBookings /\ t.antiga \in Dates
  /\ t.op = "idle" => t.step = "idle"
  /\ t.step = "removeBlocks" => t.op \in {"approve", "cancel", "accept"}
  /\ t.step \in {"countPenalties", "createPenalty"} => t.op \in {"decline", "expire"}

\* The row a handler is about to insert is nobody else's.
CreatorsAlone ==
  \A v, w \in Workers : v # w /\ Creating(w) => task[v].booking # task[w].booking

RowsInv ==
  /\ TypeOK
  /\ \A b \in BookingIds : RowValid(b)
  /\ \A w \in Workers : HandlerValid(w)
  /\ CreatorsAlone

--------------------------------------------------------------------------------
(* Moves of the handlers *)

TaskTyped == task \in [Workers -> Task]

OthersWait(w) == \A v \in Workers \ {w} : task'[v] = task[v]

LEMMA Moves ==
  ASSUME TaskTyped, NEW w \in Workers
  PROVE  /\ \A t \in Task : Start(w, t) => TaskTyped' /\ OthersWait(w) /\ task'[w] = t
         /\ \A step \in Steps : Goto(w, step) =>
              /\ TaskTyped' /\ OthersWait(w)
              /\ task'[w] = [op |-> task[w].op, step |-> step, booking |-> task[w].booking,
                             contractor |-> task[w].contractor,
                             professional |-> task[w].professional, date |-> task[w].date,
                             antiga |-> task[w].antiga, prior |-> task[w].prior]
<1>1. ASSUME NEW t \in Task, Start(w, t) PROVE TaskTyped' /\ OthersWait(w) /\ task'[w] = t
  BY <1>1 DEF TaskTyped, Start, OthersWait
<1>2. ASSUME NEW step \in Steps, Goto(w, step)
      PROVE  /\ TaskTyped' /\ OthersWait(w)
             /\ task'[w] = [op |-> task[w].op, step |-> step, booking |-> task[w].booking,
                            contractor |-> task[w].contractor,
                            professional |-> task[w].professional, date |-> task[w].date,
                            antiga |-> task[w].antiga, prior |-> task[w].prior]
  BY <1>2 DEF TaskTyped, Task, Goto, OthersWait
<1> QED
  BY <1>1, <1>2

LEMMA IdleTyped == Idle \in Task /\ Idle.op = "idle" /\ Idle.step = "idle" /\ Idle.booking = 0
BY DEF Idle, Doing, Task, Ops, Steps

LEMMA Finishes ==
  ASSUME TaskTyped, NEW w \in Workers, Finish(w)
  PROVE  /\ TaskTyped' /\ OthersWait(w)
         /\ task'[w].op = "idle" /\ task'[w].step = "idle" /\ task'[w].booking = 0
BY Moves, IdleTyped DEF Finish

LEMMA FreeIsIdle ==
  ASSUME NEW w \in Workers, Free(w)
  PROVE  task[w].op = "idle" /\ task[w].step = "idle" /\ task[w].booking = 0
BY IdleTyped DEF Free

\* A proposal adds its booking to the moved ones.
LEMMA ProposalAdds ==
  ASSUME propostas \in Seq(BookingIds), NEW b \in BookingIds, propostas' = Append(propostas, b)
  PROVE  MovedBookings' = MovedBookings \cup {b} /\ propostas' \in Seq(BookingIds)
BY DEF MovedBookings

--------------------------------------------------------------------------------
(* Rows: what every step keeps *)

\* Rows and proposals only grow; the row a creator is about to insert is not there.
RowsGrow ==
  /\ \A b \in BookingIds : bookings[b].status # "AUSENTE" => bookings'[b].status # "AUSENTE"
  /\ MovedBookings \subseteq MovedBookings'

LEMMA StaysValid ==
  ASSUME RowsInv, RowsGrow, NEW v \in Workers, task'[v] = task[v],
         Creating(v) => bookings'[task[v].booking].status = "AUSENTE"
  PROVE  HandlerValid(v)'
<1>1. HandlerValid(v)
  BY DEF RowsInv
<1> QED
  BY <1>1 DEF HandlerValid, Creating, At, RowsGrow

\* A handler that creates nothing next, and works on the row it worked on or on one
\* that exists, leaves every creator alone.
LEMMA CreatorsStayAlone ==
  ASSUME RowsInv, NEW w \in Workers, OthersWait(w), ~Creating(w)',
         \/ task'[w].booking \in {0, task[w].booking}
         \/ bookings[task'[w].booking].status # "AUSENTE"
  PROVE  CreatorsAlone'
<1> SUFFICES ASSUME NEW u \in Workers, NEW v \in Workers, u # v, Creating(v)'
             PROVE  task'[u].booking # task'[v].booking
  BY DEF CreatorsAlone
<1>1. v # w /\ task'[v] = task[v] /\ Creating(v)
  BY DEF OthersWait, Creating, At
<1>2. /\ task[v].booking \in BookingIds /\ bookings[task[v].booking].status = "AUSENTE"
  BY <1>1 DEF RowsInv, HandlerValid, Creating, At
<1>3. CASE u = w
  BY <1>1, <1>2, <1>3 DEF RowsInv, CreatorsAlone, BookingIds
<1>4. CASE u # w
  BY <1>1, <1>4 DEF RowsInv, CreatorsAlone, OthersWait
<1> QED
  BY <1>3, <1>4

\* A step that leaves the rows, their jobs and the proposals alone has to say what its
\* own handler knows.
LEMMA RowsUntouched ==
  ASSUME RowsInv, NEW w \in Workers, UNCHANGED <<bookings, expireJobs, propostas>>,
         TaskTyped', OthersWait(w), HandlerValid(w)', CreatorsAlone',
         blocks' \subseteq Block(Professionals, BookingIds, Dates), penalties' \in Seq(Penalty),
         now' \in Nat, failures' \in Nat
  PROVE  RowsInv'
<1>1. TypeOK'
  BY DEF RowsInv, TypeOK, TaskTyped
<1>2. ASSUME NEW b \in BookingIds PROVE RowValid(b)'
  BY DEF RowsInv, RowValid, MovedBookings
<1>3. ASSUME NEW v \in Workers, v # w PROVE HandlerValid(v)'
  <2>1. RowsGrow
    BY DEF RowsGrow, MovedBookings
  <2>2. task'[v] = task[v]
    BY <1>3 DEF OthersWait
  <2> QED
    BY <2>1, <2>2, StaysValid DEF RowsInv, HandlerValid, Creating
<1> QED
  BY <1>1, <1>2, <1>3 DEF RowsInv

\* The same of a step that changes rows: it has to say that the rows stay valid.
LEMMA RowsChanged ==
  ASSUME RowsInv, RowsGrow, NEW w \in Workers,
         bookings' \in [BookingIds -> BookingRequest], expireJobs' \in Queue(BookingIds),
         propostas' \in Seq(BookingIds),
         \A b \in BookingIds : RowValid(b)',
         \A v \in Workers \ {w} : Creating(v) => bookings'[task[v].booking].status = "AUSENTE",
         TaskTyped', OthersWait(w), HandlerValid(w)', CreatorsAlone',
         UNCHANGED <<blocks, penalties, now>>, failures' \in Nat
  PROVE  RowsInv'
<1>1. TypeOK'
  BY DEF RowsInv, TypeOK, TaskTyped
<1>2. ASSUME NEW v \in Workers, v # w PROVE HandlerValid(v)'
  BY <1>2, StaysValid DEF OthersWait
<1> QED
  BY <1>1, <1>2 DEF RowsInv

\* A transition of a row that exists keeps every row valid, and every creator's absent.
LEMMA TransitionKeeps ==
  ASSUME RowsInv, NEW b \in BookingIds, NEW from, NEW to \in Statuses \ {"PENDENTE"},
         from \in Statuses, Transition(b, from, to), propostas' = propostas,
         \A c \in BookingIds : expireJobs'[c].state = "absent" \/ expireJobs[c].state # "absent"
  PROVE  /\ RowsGrow /\ bookings' \in [BookingIds -> BookingRequest]
         /\ \A c \in BookingIds : RowValid(c)'
         /\ \A v \in Workers : Creating(v) => bookings'[task[v].booking].status = "AUSENTE"
         /\ bookings'[b].status = to
         /\ \A c \in BookingIds \ {b} : bookings'[c] = bookings[c]
<1>0. /\ bookings \in [BookingIds -> BookingRequest] /\ bookings[b].status = from
      /\ bookings' = [bookings EXCEPT ![b].status = to]
      /\ from # "AUSENTE" /\ to # "AUSENTE" /\ MovedBookings' = MovedBookings
  BY DEF RowsInv, TypeOK, Transition, Statuses, MovedBookings
<1>1. bookings'[b] =
        [contractor |-> bookings[b].contractor, professional |-> bookings[b].professional,
         dataServico |-> bookings[b].dataServico, status |-> to,
         expiraEm |-> bookings[b].expiraEm,
         reagendamentoData |-> bookings[b].reagendamentoData,
         reagendamentoPor |-> bookings[b].reagendamentoPor]
      /\ \A c \in BookingIds \ {b} : bookings'[c] = bookings[c]
  BY <1>0 DEF BookingRequest
<1>2. bookings' \in [BookingIds -> BookingRequest]
  BY <1>0, <1>1 DEF BookingRequest
<1>3. RowsGrow
  BY <1>0, <1>1 DEF RowsGrow
<1>4. ASSUME NEW c \in BookingIds PROVE RowValid(c)'
  <2>1. RowValid(c)
    BY DEF RowsInv
  <2> QED
    BY <1>0, <1>1, <2>1 DEF RowValid
<1>5. ASSUME NEW v \in Workers, Creating(v)
      PROVE  bookings'[task[v].booking].status = "AUSENTE"
  BY <1>0, <1>1, <1>5 DEF RowsInv, HandlerValid, Creating, At
<1> QED
  BY <1>1, <1>2, <1>3, <1>4, <1>5

--------------------------------------------------------------------------------
(* Rows: every step keeps RowsInv *)

LEMMA RowsInvTypes ==
  ASSUME RowsInv
  PROVE  /\ TaskTyped /\ bookings \in [BookingIds -> BookingRequest]
         /\ blocks \subseteq Block(Professionals, BookingIds, Dates)
         /\ penalties \in Seq(Penalty) /\ expireJobs \in Queue(BookingIds)
         /\ propostas \in Seq(BookingIds) /\ now \in Nat /\ failures \in Nat
BY DEF RowsInv, TypeOK, TaskTyped

\* The row of a handler that starts to answer, move or cancel a booking.
LEMMA StartsValid ==
  ASSUME RowsInv, NEW w \in Workers, NEW b \in BookingIds, bookings[b].status # "AUSENTE",
         NEW t \in Task, Start(w, t), RowsGrow, t.booking = b,
         \/ /\ t.op = "approve" /\ t.step = "checkConflict"
            /\ t.professional = bookings[b].professional /\ t.date = bookings[b].dataServico
         \/ /\ t.op = "accept" /\ t.step = "removeOldBlock"
            /\ t.professional = bookings[b].professional /\ t.date \in Dates
            /\ t.antiga = bookings[b].dataServico /\ b \in MovedBookings
         \/ t.op = "reject" /\ t.step = "clearReschedule"
         \/ t.op \in {"decline", "expire"} /\ t.step = "countPenalties"
         \/ t.op = "expire" /\ t.step = "completeJob"
         \/ t.op = "cancel" /\ t.step = "removeBlocks"
  PROVE  TaskTyped' /\ OthersWait(w) /\ HandlerValid(w)' /\ CreatorsAlone' /\ task'[w] = t
<1>1. TaskTyped' /\ OthersWait(w) /\ task'[w] = t
  BY Moves DEF RowsInv, TypeOK, TaskTyped
<1>2. RowValid(b)
  BY DEF RowsInv
<1>3. ~Creating(w)'
  BY <1>1 DEF Creating, At
<1>4. HandlerValid(w)'
  BY <1>1, <1>2, <1>3 DEF HandlerValid, RowValid, RowsGrow
<1> QED
  BY <1>1, <1>3, <1>4, CreatorsStayAlone

\* A handler that goes on to another step of its own keeps what it knows.
LEMMA GoesOnValid ==
  ASSUME RowsInv, NEW w \in Workers, NEW step \in Steps, Goto(w, step),
         UNCHANGED <<bookings, propostas>>, ~Creating(w), task[w].op # "idle",
         step # "createBooking",
         step = "removeBlocks" => task[w].op \in {"approve", "cancel", "accept"},
         step \in {"countPenalties", "createPenalty"} => task[w].op \in {"decline", "expire"}
  PROVE  TaskTyped' /\ OthersWait(w) /\ HandlerValid(w)' /\ CreatorsAlone'
<1>0. HandlerValid(w) /\ TaskTyped
  BY RowsInvTypes DEF RowsInv
<1>1. /\ TaskTyped' /\ OthersWait(w) /\ task'[w].step = step /\ task'[w].op = task[w].op
      /\ task'[w].booking = task[w].booking /\ task'[w].professional = task[w].professional
      /\ task'[w].date = task[w].date /\ task'[w].antiga = task[w].antiga
  <2>1. /\ TaskTyped' /\ OthersWait(w)
        /\ task'[w] = [op |-> task[w].op, step |-> step, booking |-> task[w].booking,
                       contractor |-> task[w].contractor,
                       professional |-> task[w].professional, date |-> task[w].date,
                       antiga |-> task[w].antiga, prior |-> task[w].prior]
    BY <1>0, Moves
  <2> QED
    BY <2>1
<1>2. MovedBookings' = MovedBookings /\ ~Creating(w)'
  BY <1>1 DEF MovedBookings, Creating, At
<1>3. HandlerValid(w)'
  BY <1>0, <1>1, <1>2 DEF HandlerValid
<1> QED
  BY <1>1, <1>2, <1>3, CreatorsStayAlone

LEMMA FinishesValid ==
  ASSUME RowsInv, NEW w \in Workers, Finish(w)
  PROVE  TaskTyped' /\ OthersWait(w) /\ HandlerValid(w)' /\ CreatorsAlone'
<1>1. /\ TaskTyped' /\ OthersWait(w)
      /\ task'[w].op = "idle" /\ task'[w].step = "idle" /\ task'[w].booking = 0
  BY Finishes, RowsInvTypes
<1>2. HandlerValid(w)' /\ ~Creating(w)'
  BY <1>1 DEF HandlerValid, Creating, At
<1> QED
  BY <1>1, <1>2, CreatorsStayAlone

LEMMA CreateForContractorRows ==
  ASSUME RowsInv, NEW w \in Workers, NEW c \in Contractors, NEW p \in Professionals,
         NEW date \in Dates, CreateForContractor(w, c, p, date)
  PROVE  RowsInv'
<1>1. PICK b \in BookingIds :
        /\ First(b, FreeBookings)
        /\ Start(w, [op |-> "create", step |-> "createBooking", booking |-> b,
                     contractor |-> c, professional |-> p, date |-> date, antiga |-> 0,
                     prior |-> 0])
  BY DEF CreateForContractor
<1>2. /\ bookings[b].status = "AUSENTE" /\ \A v \in Workers : task[v].booking # b
  BY <1>1 DEF First, FreeBookings
<1>3. [op |-> "create", step |-> "createBooking", booking |-> b, contractor |-> c,
       professional |-> p, date |-> date, antiga |-> 0, prior |-> 0] \in Task
  BY DEF Task, Ops, Steps
<1>4. /\ TaskTyped' /\ OthersWait(w) /\ task'[w].op = "create"
      /\ task'[w].step = "createBooking" /\ task'[w].booking = b
      /\ task'[w].contractor = c /\ task'[w].professional = p /\ task'[w].date = date
  BY <1>1, <1>3, Moves, RowsInvTypes
<1>5. UNCHANGED <<bookings, blocks, penalties, expireJobs, propostas, now, failures>>
  BY DEF CreateForContractor, clock
<1>6. HandlerValid(w)'
  BY <1>2, <1>4, <1>5 DEF HandlerValid, Creating, At
<1>7. CreatorsAlone'
  <2> SUFFICES ASSUME NEW u \in Workers, NEW v \in Workers, u # v, Creating(v)'
               PROVE  task'[u].booking # task'[v].booking
    BY DEF CreatorsAlone
  <2>1. CASE u # w /\ v # w
    BY <1>4, <2>1 DEF RowsInv, CreatorsAlone, OthersWait, Creating, At
  <2>2. CASE u = w \/ v = w
    BY <1>2, <1>4, <2>2 DEF OthersWait
  <2> QED
    BY <2>1, <2>2
<1> QED
  BY <1>4, <1>5, <1>6, <1>7, RowsUntouched, RowsInvTypes

\* The steps of approve, acceptReschedule and cancel that only touch the calendar.
LEMMA BlockTyped ==
  ASSUME NEW p \in Professionals, NEW b \in BookingIds, NEW date \in Dates,
         blocks \subseteq Block(Professionals, BookingIds, Dates)
  PROVE  /\ createBlock(blocks, p, b, date) \subseteq Block(Professionals, BookingIds, Dates)
         /\ deleteBlocksForBooking(blocks, b) \subseteq Block(Professionals, BookingIds, Dates)
BY DEF createBlock, deleteBlocksForBooking, Block

LEMMA CalendarRows ==
  ASSUME RowsInv, NEW w \in Workers,
         \/ CheckConflict(w) \/ BlockSlot(w) \/ RemoveBlocks(w) \/ RemoveOldBlock(w)
         \/ CheckNewDate(w) \/ RestoreOldBlock(w) \/ BlockNewDate(w)
  PROVE  RowsInv'
<1>0. /\ HandlerValid(w) /\ task[w].op \in {"approve", "accept", "cancel"} /\ ~Creating(w)
      /\ UNCHANGED <<bookings, penalties, expireJobs, propostas, now, failures>>
  BY DEF RowsInv, HandlerValid, Creating, At, CheckConflict, BlockSlot, RemoveBlocks,
         RemoveOldBlock, CheckNewDate, RestoreOldBlock, BlockNewDate, clock
<1>1. \/ Finish(w)
      \/ \E step \in {"block", "approveBooking", "checkNewDate", "restoreOldBlock",
                      "blockNewDate", "applyReschedule"} : Goto(w, step)
  BY DEF CheckConflict, BlockSlot, RemoveBlocks, RemoveOldBlock, CheckNewDate,
         RestoreOldBlock, BlockNewDate
<1>2. TaskTyped' /\ OthersWait(w) /\ HandlerValid(w)' /\ CreatorsAlone'
  BY <1>0, <1>1, FinishesValid, GoesOnValid DEF Steps
<1>3. blocks' \subseteq Block(Professionals, BookingIds, Dates)
  <2>1. /\ task[w].booking \in BookingIds
        /\ task[w].op \in {"approve", "accept"} =>
             task[w].professional \in Professionals /\ task[w].date \in Dates
        /\ task[w].op = "accept" => task[w].antiga \in Dates
    BY <1>0 DEF HandlerValid
  <2>2. \/ blocks' = blocks
        \/ blocks' = deleteBlocksForBooking(blocks, task[w].booking)
        \/ /\ task[w].op \in {"approve", "accept"}
           /\ blocks' = createBlock(blocks, task[w].professional, task[w].booking, task[w].date)
        \/ /\ task[w].op = "accept"
           /\ blocks' = createBlock(blocks, task[w].professional, task[w].booking, task[w].antiga)
    BY DEF At, CheckConflict, BlockSlot, RemoveBlocks, RemoveOldBlock, CheckNewDate,
           RestoreOldBlock, BlockNewDate
  <2> QED
    BY <2>1, <2>2, BlockTyped, RowsInvTypes DEF deleteBlocksForBooking
<1> QED
  BY <1>0, <1>2, <1>3, RowsUntouched, RowsInvTypes

LEMMA StartAnswerRows ==
  ASSUME RowsInv, NEW w \in Workers, NEW b \in BookingIds,
         \/ Approve(w, b)
         \/ \E u \in Users : AcceptReschedule(w, b, u) \/ RejectReschedule(w, b, u)
  PROVE  RowsInv'
<1>0. UNCHANGED <<bookings, blocks, penalties, expireJobs, propostas, now, failures>>
  BY DEF Approve, AcceptReschedule, RejectReschedule, clock
<1>1. RowValid(b) /\ bookings[b] \in BookingRequest /\ RowsGrow
  <2>1. RowsGrow
    BY <1>0 DEF RowsGrow, MovedBookings
  <2> QED
    BY <2>1, RowsInvTypes DEF RowsInv
<1>2. TaskTyped' /\ OthersWait(w) /\ HandlerValid(w)' /\ CreatorsAlone'
  <2>1. CASE Approve(w, b)
    <3> DEFINE t == Doing("approve", "checkConflict", b, bookings[b].professional,
                          bookings[b].dataServico, 0)
    <3>1. bookings[b].status # "AUSENTE" /\ Start(w, t)
      BY <2>1 DEF Approve
    <3>2. t \in Task /\ t.op = "approve" /\ t.step = "checkConflict" /\ t.booking = b
          /\ t.professional = bookings[b].professional /\ t.date = bookings[b].dataServico
      BY <1>1 DEF Doing, Task, Ops, Steps, BookingRequest
    <3> HIDE DEF t
    <3> QED
      BY <1>1, <3>1, <3>2, StartsValid
  <2>2. ASSUME NEW u \in Users, AcceptReschedule(w, b, u)
        PROVE  TaskTyped' /\ OthersWait(w) /\ HandlerValid(w)' /\ CreatorsAlone'
    <3> DEFINE t == [op |-> "accept", step |-> "removeOldBlock", booking |-> b,
                     contractor |-> NoUser, professional |-> bookings[b].professional,
                     date |-> bookings[b].reagendamentoData,
                     antiga |-> bookings[b].dataServico, prior |-> 0]
    <3>1. /\ bookings[b].status = "APROVADO" /\ bookings[b].reagendamentoData # 0
          /\ Start(w, t)
      BY <2>2 DEF AcceptReschedule, Proposed
    <3>2. b \in MovedBookings /\ bookings[b].reagendamentoData \in Dates
      BY <1>1, <3>1 DEF RowValid, BookingRequest
    <3>3. t \in Task /\ t.op = "accept" /\ t.step = "removeOldBlock" /\ t.booking = b
          /\ t.professional = bookings[b].professional /\ t.date \in Dates
          /\ t.antiga = bookings[b].dataServico
      BY <1>1, <3>2 DEF Task, Ops, Steps, BookingRequest
    <3> HIDE DEF t
    <3> QED
      BY <1>1, <3>1, <3>2, <3>3, StartsValid
  <2>3. ASSUME NEW u \in Users, RejectReschedule(w, b, u)
        PROVE  TaskTyped' /\ OthersWait(w) /\ HandlerValid(w)' /\ CreatorsAlone'
    <3> DEFINE t == Doing("reject", "clearReschedule", b, NoUser, 0, 0)
    <3>1. bookings[b].status # "AUSENTE" /\ Start(w, t)
      BY <1>1, <2>3 DEF RejectReschedule, Proposed, RowValid
    <3>2. t \in Task /\ t.op = "reject" /\ t.step = "clearReschedule" /\ t.booking = b
      BY DEF Doing, Task, Ops, Steps
    <3> HIDE DEF t
    <3> QED
      BY <1>1, <3>1, <3>2, StartsValid
  <2> QED
    BY <2>1, <2>2, <2>3
<1> QED
  BY <1>0, <1>2, RowsUntouched, RowsInvTypes

\* The count and the insert of a penalty.
LEMMA EscalatedPoints ==
  ASSUME NEW motivo \in PenaltyReasons, NEW prior \in Nat
  PROVE  escalatePoints(motivo, prior) \in 1 .. 6
<1>1. BASE_POINTS(motivo) \in {1, 2}
  BY DEF BASE_POINTS
<1>2. (IF prior + 1 < 3 THEN prior + 1 ELSE 3) \in {1, 2, 3}
  OBVIOUS
<1> QED
  BY <1>1, <1>2 DEF escalatePoints

LEMMA PenaltiesFinite ==
  ASSUME penalties \in Seq(Penalty), NEW p
  PROVE  IsFiniteSet(PenaltiesOf(p)) /\ Cardinality(PenaltiesOf(p)) \in Nat
<1>1. IsFiniteSet(1 .. Len(penalties))
  BY FS_Interval
<1>2. PenaltiesOf(p) \subseteq 1 .. Len(penalties)
  BY DEF PenaltiesOf
<1> QED
  BY <1>1, <1>2, FS_Subset, FS_CardinalityType

LEMMA PenaltyRows ==
  ASSUME RowsInv, NEW w \in Workers, CountPenalties(w) \/ CreatePenalty(w)
  PROVE  RowsInv'
<1>0. /\ HandlerValid(w) /\ task[w].op \in {"decline", "expire"} /\ ~Creating(w)
      /\ task[w].step \in {"countPenalties", "createPenalty"}
      /\ task[w].booking \in BookingIds /\ bookings[task[w].booking].status # "AUSENTE"
      /\ UNCHANGED <<bookings, blocks, expireJobs, propostas, now, failures>>
  BY DEF RowsInv, HandlerValid, Creating, At, CountPenalties, CreatePenalty, clock
<1>1. CASE CountPenalties(w)
  <2> DEFINE n == Cardinality(PenaltiesOf(task[w].professional))
             t == Doing(task[w].op, "createPenalty", task[w].booking, task[w].professional, 0, n)
  <2>1. n \in Nat
    BY PenaltiesFinite, RowsInvTypes
  <2>2. task[w] \in Task
    BY RowsInvTypes DEF TaskTyped
  <2>3. /\ t \in Task /\ t.op = task[w].op /\ t.step = "createPenalty"
        /\ t.booking = task[w].booking
    BY <2>1, <2>2 DEF Doing, Task, Steps
  <2>4. Start(w, t) /\ penalties' = penalties
    BY <1>1 DEF CountPenalties
  <2> HIDE DEF t
  <2>5. TaskTyped' /\ OthersWait(w) /\ task'[w] = t
    BY <2>3, <2>4, Moves, RowsInvTypes
  <2>6. HandlerValid(w)' /\ ~Creating(w)'
    BY <1>0, <2>3, <2>5 DEF HandlerValid, Creating, At
  <2>7. CreatorsAlone'
    BY <2>3, <2>5, <2>6, CreatorsStayAlone
  <2> QED
    BY <1>0, <2>4, <2>5, <2>6, <2>7, RowsUntouched, RowsInvTypes
<1>2. CASE CreatePenalty(w)
  <2> DEFINE motivo == IF task[w].op = "expire" THEN "NAO_RESPONDEU" ELSE "RECUSA_INJUSTIFICADA"
  <2>1. penalties' = Append(penalties, [booking |-> task[w].booking, motivo |-> motivo,
                                        pontos |-> escalatePoints(motivo, task[w].prior)])
    BY <1>2 DEF CreatePenalty
  <2>2. motivo \in PenaltyReasons /\ task[w].prior \in Nat
    BY RowsInvTypes DEF PenaltyReasons, TaskTyped, Task
  <2>3. penalties' \in Seq(Penalty)
    BY <1>0, <2>1, <2>2, EscalatedPoints, RowsInvTypes DEF Penalty
  <2>4. TaskTyped' /\ OthersWait(w) /\ HandlerValid(w)' /\ CreatorsAlone'
    <3>1. Finish(w) \/ (Goto(w, "completeJob") /\ task[w].op = "expire")
      BY <1>2 DEF CreatePenalty
    <3> QED
      BY <1>0, <3>1, FinishesValid, GoesOnValid DEF Steps
  <2> QED
    BY <1>0, <2>3, <2>4, RowsUntouched, RowsInvTypes
<1> QED
  BY <1>1, <1>2

\* The operations of JobQueue on the job of a booking.
LEMMA QueueTyped ==
  ASSUME NEW q \in Queue(BookingIds), NEW b \in BookingIds, NEW t \in Nat, NEW r,
         r \in {Add(q, b, t), Take(q, b), Complete(q, b), Fail(q, b), Stall(q, b)}
  PROVE  r \in Queue(BookingIds) /\ \A c \in BookingIds \ {b} : r[c] = q[c]
<1>1. /\ \A u \in Nat : [state |-> "delayed", at |-> u] \in Job
      /\ NoJob \in Job
      /\ \A s \in JobStates : [state |-> s, at |-> q[b].at] \in Job
  BY DEF Queue, Job, JobStates, NoJob
<1>2. ASSUME NEW s \in JobStates
      PROVE  [q EXCEPT ![b].state = s] = [q EXCEPT ![b] = [state |-> s, at |-> q[b].at]]
  <2>1. [q[b] EXCEPT !.state = s] = [state |-> s, at |-> q[b].at]
    BY DEF Queue, Job
  <2> QED
    BY <2>1
<1>3. \E j \in Job : r = [q EXCEPT ![b] = j] \/ r = q
  BY <1>1, <1>2 DEF Add, Take, Complete, Fail, Stall, JobStates
<1> QED
  BY <1>3 DEF Queue

\* A handler that only acts on the job of its booking, and is done.
LEMMA JobRows ==
  ASSUME RowsInv, NEW w \in Workers, ScheduleExpiry(w) \/ CompleteJob(w) \/ Failure(w)
  PROVE  RowsInv'
<1>0. /\ HandlerValid(w) /\ Finish(w)
      /\ UNCHANGED <<bookings, blocks, penalties, propostas, now>>
  BY DEF RowsInv, ScheduleExpiry, CompleteJob, Failure, clock
<1>1. /\ \/ expireJobs' = expireJobs
         \/ /\ task[w].booking \in BookingIds /\ bookings[task[w].booking].status # "AUSENTE"
            /\ expireJobs' \in Queue(BookingIds)
            /\ \A c \in BookingIds \ {task[w].booking} : expireJobs'[c] = expireJobs[c]
      /\ failures' \in Nat
  <2>1. task[w].op \in {"create", "expire"} /\ ~Creating(w) =>
          task[w].booking \in BookingIds /\ bookings[task[w].booking].status # "AUSENTE"
    BY <1>0 DEF HandlerValid
  <2>2. CASE ScheduleExpiry(w)
    <3>1. bookings[task[w].booking].expiraEm \in Nat /\ task[w].booking \in BookingIds
          /\ bookings[task[w].booking].status # "AUSENTE"
      BY <2>1, <2>2, RowsInvTypes DEF ScheduleExpiry, At, Creating, BookingRequest
    <3> QED
      BY <2>2, <3>1, QueueTyped, RowsInvTypes DEF ScheduleExpiry, clock
  <2>3. CASE CompleteJob(w)
    <3>1. task[w].booking \in BookingIds /\ bookings[task[w].booking].status # "AUSENTE"
      BY <2>1, <2>3 DEF CompleteJob, At, Creating
    <3> QED
      BY <2>3, <3>1, QueueTyped, RowsInvTypes DEF CompleteJob, clock
  <2>4. CASE Failure(w)
    <3>1. failures' \in Nat
      BY <2>4, RowsInvTypes DEF Failure
    <3>2. CASE task[w].op # "expire"
      BY <2>4, <3>1, <3>2 DEF Failure
    <3>3. CASE task[w].op = "expire"
      <4>1. task[w].booking \in BookingIds /\ bookings[task[w].booking].status # "AUSENTE"
        BY <2>1, <3>3 DEF Creating, At
      <4> QED
        BY <2>4, <3>1, <3>3, <4>1, QueueTyped, RowsInvTypes DEF Failure
    <3> QED
      BY <3>2, <3>3
  <2> QED
    BY <2>2, <2>3, <2>4
<1>2. TaskTyped' /\ OthersWait(w) /\ HandlerValid(w)' /\ CreatorsAlone'
  BY <1>0, FinishesValid
<1>3. RowsGrow /\ MovedBookings' = MovedBookings
  BY <1>0 DEF RowsGrow, MovedBookings
<1>4. ASSUME NEW c \in BookingIds PROVE RowValid(c)'
  BY <1>0, <1>1, <1>3 DEF RowsInv, RowValid
<1>5. ASSUME NEW v \in Workers, Creating(v)
      PROVE  bookings'[task[v].booking].status = "AUSENTE"
  BY <1>0, <1>5 DEF RowsInv, HandlerValid, Creating, At
<1>6. expireJobs' \in Queue(BookingIds) /\ bookings' \in [BookingIds -> BookingRequest]
      /\ propostas' \in Seq(BookingIds)
  BY <1>0, <1>1, RowsInvTypes
<1> QED
  BY <1>0, <1>1, <1>2, <1>3, <1>4, <1>5, <1>6, RowsChanged

LEMMA CreateBookingRows ==
  ASSUME RowsInv, NEW w \in Workers, CreateBooking(w)
  PROVE  RowsInv'
<1> DEFINE b == task[w].booking
           row == [contractor |-> task[w].contractor, professional |-> task[w].professional,
                   dataServico |-> task[w].date, status |-> "PENDENTE",
                   expiraEm |-> now + BOOKING_EXPIRY_HOURS,
                   reagendamentoData |-> 0, reagendamentoPor |-> NoUser]
<1>1. /\ HandlerValid(w) /\ Creating(w) /\ Goto(w, "scheduleExpiry")
      /\ bookings' = [bookings EXCEPT ![b] = row]
      /\ UNCHANGED <<blocks, penalties, expireJobs, propostas, now, failures>>
  BY DEF RowsInv, CreateBooking, Creating, clock
<1>2. /\ b \in BookingIds /\ bookings[b].status = "AUSENTE" /\ task[w].contractor \in Contractors
      /\ task[w].professional \in Professionals /\ task[w].date \in Dates
      /\ task[w].op = "create"
  BY <1>1 DEF HandlerValid, Creating, At
<1>3. RowValid(b) /\ MovedBookings' = MovedBookings
  BY <1>1, <1>2 DEF RowsInv, MovedBookings
<1>4. /\ row \in BookingRequest /\ row.status = "PENDENTE"
      /\ row.contractor = task[w].contractor /\ row.professional = task[w].professional
      /\ row.dataServico = task[w].date /\ row.reagendamentoData = 0
  BY <1>2, RowsInvTypes, BookingNumbersAssumption, SMTT(30) DEF BookingRequest, Statuses
<1> HIDE DEF row
<1>5. /\ bookings' \in [BookingIds -> BookingRequest] /\ bookings'[b] = row
      /\ \A c \in BookingIds \ {b} : bookings'[c] = bookings[c]
  BY <1>1, <1>2, <1>4, RowsInvTypes
<1>6. RowsGrow
  BY <1>3, <1>4, <1>5 DEF RowsGrow
<1>7. ASSUME NEW c \in BookingIds PROVE RowValid(c)'
  <2>1. CASE c = b
    BY <1>2, <1>3, <1>4, <1>5, <2>1 DEF RowValid
  <2>2. CASE c # b
    BY <1>1, <1>3, <1>5, <2>2 DEF RowsInv, RowValid
  <2> QED
    BY <2>1, <2>2
<1>8. ASSUME NEW v \in Workers \ {w}, Creating(v)
      PROVE  bookings'[task[v].booking].status = "AUSENTE"
  <2>1. task[v].booking # b /\ task[v].booking \in BookingIds
        /\ bookings[task[v].booking].status = "AUSENTE"
    BY <1>1, <1>8 DEF RowsInv, CreatorsAlone, HandlerValid, Creating, At
  <2> QED
    BY <1>5, <2>1
<1>9. /\ TaskTyped' /\ OthersWait(w) /\ task'[w].op = "create"
      /\ task'[w].step = "scheduleExpiry" /\ task'[w].booking = b
  <2>1. /\ TaskTyped' /\ OthersWait(w)
        /\ task'[w] = [op |-> task[w].op, step |-> "scheduleExpiry", booking |-> task[w].booking,
                       contractor |-> task[w].contractor,
                       professional |-> task[w].professional, date |-> task[w].date,
                       antiga |-> task[w].antiga, prior |-> task[w].prior]
    BY <1>1, Moves, RowsInvTypes DEF Steps
  <2> QED
    BY <1>2, <2>1
<1>10. HandlerValid(w)' /\ ~Creating(w)'
  BY <1>2, <1>4, <1>5, <1>9 DEF HandlerValid, Creating, At
<1>11. CreatorsAlone'
  BY <1>9, <1>10, CreatorsStayAlone
<1> QED
  BY <1>1, <1>5, <1>6, <1>7, <1>8, <1>9, <1>10, <1>11, RowsChanged, RowsInvTypes

\* A transition: the answer, the cancellation, the start, the end or the expiry of a
\* booking, and what its handler does next.
LEMMA TransitionRows ==
  ASSUME RowsInv, NEW w \in Workers, NEW b \in BookingIds, NEW from \in Statuses,
         NEW to \in Statuses \ {"PENDENTE"}, Transition(b, from, to),
         expireJobs' \in Queue(BookingIds),
         \A c \in BookingIds : expireJobs'[c].state = "absent" \/ expireJobs[c].state # "absent",
         UNCHANGED <<blocks, penalties, propostas, now, failures>>,
         \/ Finish(w) \/ UNCHANGED task
         \/ \E t \in Task :
              /\ Start(w, t) /\ t.booking = b
              /\ \/ t.op \in {"decline", "expire"} /\ t.step = "countPenalties"
                 \/ t.op = "expire" /\ t.step = "completeJob"
                 \/ t.op = "cancel" /\ t.step = "removeBlocks"
  PROVE  RowsInv'
<1>1. /\ RowsGrow /\ bookings' \in [BookingIds -> BookingRequest]
      /\ \A c \in BookingIds : RowValid(c)'
      /\ \A v \in Workers : Creating(v) => bookings'[task[v].booking].status = "AUSENTE"
  BY TransitionKeeps
<1>2. bookings[b].status # "AUSENTE"
  BY DEF Transition, Statuses
<1>3. TaskTyped' /\ OthersWait(w) /\ HandlerValid(w)' /\ CreatorsAlone'
  <2>1. CASE Finish(w)
    BY <2>1, FinishesValid
  <2>2. CASE UNCHANGED task
    <3>1. HandlerValid(w)'
      BY <1>1, <2>2, StaysValid
    <3> QED
      BY <2>2, <3>1, RowsInvTypes DEF RowsInv, TaskTyped, OthersWait, CreatorsAlone, Creating, At
  <2>3. ASSUME NEW t \in Task, Start(w, t), t.booking = b,
               \/ t.op \in {"decline", "expire"} /\ t.step = "countPenalties"
               \/ t.op = "expire" /\ t.step = "completeJob"
               \/ t.op = "cancel" /\ t.step = "removeBlocks"
        PROVE  TaskTyped' /\ OthersWait(w) /\ HandlerValid(w)' /\ CreatorsAlone'
    BY <1>1, <1>2, <2>3, StartsValid
  <2> QED
    BY <2>1, <2>2, <2>3
<1> QED
  BY <1>1, <1>3, RowsChanged, RowsInvTypes

LEMMA AnswerRows ==
  ASSUME RowsInv, NEW w \in Workers, NEW b \in BookingIds,
         \/ StartBooking(b) \/ CompleteBooking(b) \/ Cancel(w, b)
         \/ \E penalizable \in BOOLEAN : Decline(w, b, penalizable)
  PROVE  RowsInv'
<1>1. /\ UNCHANGED <<blocks, penalties, expireJobs, propostas, now, failures>>
      /\ expireJobs' \in Queue(BookingIds)
  BY RowsInvTypes DEF StartBooking, CompleteBooking, Cancel, Decline, clock
<1>2. bookings[b] \in BookingRequest
  BY RowsInvTypes
<1>3. CASE StartBooking(b) \/ CompleteBooking(b)
  BY <1>1, <1>3, TransitionRows DEF StartBooking, CompleteBooking, Statuses
<1>4. CASE Cancel(w, b)
  <2> DEFINE t == Doing("cancel", "removeBlocks", b, NoUser, 0, 0)
  <2>1. t \in Task /\ t.booking = b /\ t.op = "cancel" /\ t.step = "removeBlocks"
    BY DEF Doing, Task, Ops, Steps
  <2>2. \/ Transition(b, "PENDENTE", "CANCELADO") /\ UNCHANGED task
        \/ Transition(b, "APROVADO", "CANCELADO") /\ Start(w, t)
    BY <1>4 DEF Cancel
  <2> HIDE DEF t
  <2> QED
    BY <1>1, <2>1, <2>2, TransitionRows DEF Statuses
<1>5. ASSUME NEW penalizable \in BOOLEAN, Decline(w, b, penalizable) PROVE RowsInv'
  <2> DEFINE t == Doing("decline", "countPenalties", b, bookings[b].professional, 0, 0)
  <2>1. t \in Task /\ t.booking = b /\ t.op = "decline" /\ t.step = "countPenalties"
    BY <1>2 DEF Doing, Task, Ops, Steps, BookingRequest
  <2>2. Transition(b, "PENDENTE", "RECUSADO") /\ (UNCHANGED task \/ Start(w, t))
    BY <1>5 DEF Decline
  <2> HIDE DEF t
  <2> QED
    BY <1>1, <2>1, <2>2, TransitionRows DEF Statuses
<1> QED
  BY <1>3, <1>4, <1>5

LEMMA ApproveBookingRows ==
  ASSUME RowsInv, NEW w \in Workers, ApproveBooking(w)
  PROVE  RowsInv'
<1>1. /\ task[w].op = "approve" /\ task[w].booking \in BookingIds /\ ~Creating(w)
      /\ UNCHANGED <<blocks, penalties, expireJobs, propostas, now, failures>>
      /\ expireJobs' \in Queue(BookingIds)
  BY RowsInvTypes DEF RowsInv, HandlerValid, ApproveBooking, Creating, At, clock
<1>2. CASE Transition(task[w].booking, "PENDENTE", "APROVADO") /\ Finish(w)
  BY <1>1, <1>2, TransitionRows DEF Statuses
<1>3. CASE Goto(w, "removeBlocks") /\ UNCHANGED bookings
  <2>1. TaskTyped' /\ OthersWait(w) /\ HandlerValid(w)' /\ CreatorsAlone'
    BY <1>1, <1>3, GoesOnValid DEF Steps
  <2> QED
    BY <1>1, <1>3, <2>1, RowsUntouched, RowsInvTypes
<1> QED
  BY <1>2, <1>3 DEF ApproveBooking

LEMMA ExpireRows ==
  ASSUME RowsInv, NEW w \in Workers, NEW b \in BookingIds, Expire(w, b)
  PROVE  RowsInv'
<1>1. PICK step \in {"countPenalties", "completeJob"} :
        /\ \/ Transition(b, "PENDENTE", "EXPIRADO")
           \/ bookings[b].status # "PENDENTE" /\ step = "completeJob" /\ UNCHANGED bookings
        /\ Start(w, Doing("expire", step, b, bookings[b].professional, 0, 0))
  BY DEF Expire
<1> DEFINE t == Doing("expire", step, b, bookings[b].professional, 0, 0)
<1>2. bookings[b] \in BookingRequest /\ RowValid(b)
  BY RowsInvTypes DEF RowsInv
<1>3. t \in Task /\ t.booking = b /\ t.op = "expire" /\ t.step = step
  BY <1>2 DEF Doing, Task, Ops, Steps, BookingRequest
<1>4. /\ UNCHANGED <<blocks, penalties, propostas, now, failures>>
      /\ expireJobs[b].state # "absent" /\ bookings[b].status # "AUSENTE"
  BY <1>2 DEF Expire, clock, Due, RowValid
<1>5. /\ expireJobs' \in Queue(BookingIds)
      /\ \A c \in BookingIds \ {b} : expireJobs'[c] = expireJobs[c]
  BY QueueTyped, RowsInvTypes DEF Expire
<1>6. Start(w, t)
  BY <1>1
<1> HIDE DEF t
<1>7. CASE Transition(b, "PENDENTE", "EXPIRADO")
  BY <1>3, <1>4, <1>5, <1>6, <1>7, TransitionRows DEF Statuses
<1>8. CASE step = "completeJob" /\ UNCHANGED bookings
  <2>1. RowsGrow /\ MovedBookings' = MovedBookings
    BY <1>4, <1>8 DEF RowsGrow, MovedBookings
  <2>2. TaskTyped' /\ OthersWait(w) /\ HandlerValid(w)' /\ CreatorsAlone'
    BY <1>3, <1>4, <1>6, <1>8, <2>1, StartsValid
  <2>3. ASSUME NEW c \in BookingIds PROVE RowValid(c)'
    BY <1>4, <1>5, <1>8, <2>1 DEF RowsInv, RowValid
  <2>4. ASSUME NEW v \in Workers, Creating(v)
        PROVE  bookings'[task[v].booking].status = "AUSENTE"
    BY <1>8, <2>4 DEF RowsInv, HandlerValid, Creating, At
  <2> QED
    BY <1>4, <1>5, <1>8, <2>1, <2>2, <2>3, <2>4, RowsChanged, RowsInvTypes
<1> QED
  BY <1>1, <1>7, <1>8

\* A step that writes the dates of a row that exists.
LEMMA DatedRows ==
  ASSUME RowsInv, NEW w \in Workers, NEW b \in BookingIds, NEW date \in Dates,
         NEW proposta \in Dates \cup {0}, NEW por \in Users \cup {NoUser},
         bookings[b].status # "AUSENTE",
         bookings' = [bookings EXCEPT ![b] = Dated(b, date, proposta, por)],
         proposta # 0 => b \in MovedBookings',
         \/ propostas' = propostas
         \/ propostas' = Append(propostas, b) /\ bookings[b].status # "PENDENTE",
         Finish(w) \/ UNCHANGED task,
         UNCHANGED <<blocks, penalties, expireJobs, now, failures>>
  PROVE  /\ RowsInv' /\ RowsGrow /\ \A c \in BookingIds \ {b} : bookings'[c] = bookings[c]
         /\ bookings'[b].status = bookings[b].status
         /\ bookings'[b].professional = bookings[b].professional
         /\ bookings'[b].contractor = bookings[b].contractor
         /\ bookings'[b].dataServico = date
<1> DEFINE row == Dated(b, date, proposta, por)
<1>1. bookings[b] \in BookingRequest /\ RowValid(b)
  BY RowsInvTypes DEF RowsInv
<1>2. /\ row \in BookingRequest /\ row.status = bookings[b].status
      /\ row.professional = bookings[b].professional /\ row.dataServico = date
      /\ row.contractor = bookings[b].contractor /\ row.reagendamentoData = proposta
  BY <1>1 DEF Dated, BookingRequest
<1>3. bookings' = [bookings EXCEPT ![b] = row]
  OBVIOUS
<1> HIDE DEF row
<1>4. /\ bookings' \in [BookingIds -> BookingRequest] /\ bookings'[b] = row
      /\ \A c \in BookingIds \ {b} : bookings'[c] = bookings[c]
  BY <1>2, <1>3, RowsInvTypes
<1>5. /\ MovedBookings \subseteq MovedBookings' /\ propostas' \in Seq(BookingIds)
      /\ MovedBookings' \subseteq MovedBookings \cup {b}
      /\ b \in MovedBookings' => bookings[b].status # "PENDENTE"
  <2>1. CASE propostas' = propostas
    BY <1>1, <2>1, RowsInvTypes DEF MovedBookings, RowValid
  <2>2. CASE propostas' = Append(propostas, b) /\ bookings[b].status # "PENDENTE"
    BY <2>2, ProposalAdds, RowsInvTypes
  <2> QED
    BY <2>1, <2>2
<1>6. RowsGrow
  BY <1>2, <1>4, <1>5 DEF RowsGrow
<1>7. ASSUME NEW c \in BookingIds PROVE RowValid(c)'
  <2>1. CASE c = b
    BY <1>1, <1>2, <1>4, <1>5, <2>1 DEF RowValid
  <2>2. CASE c # b
    BY <1>4, <1>5, <2>2 DEF RowsInv, RowValid
  <2> QED
    BY <2>1, <2>2
<1>8. ASSUME NEW v \in Workers, Creating(v)
      PROVE  bookings'[task[v].booking].status = "AUSENTE"
  BY <1>2, <1>4, <1>8 DEF RowsInv, HandlerValid, Creating, At
<1>9. TaskTyped' /\ OthersWait(w) /\ HandlerValid(w)' /\ CreatorsAlone'
  <2>1. CASE Finish(w)
    BY <2>1, FinishesValid
  <2>2. CASE UNCHANGED task
    <3>1. HandlerValid(w)'
      BY <1>6, <1>8, <2>2, StaysValid
    <3> QED
      BY <2>2, <3>1, RowsInvTypes DEF RowsInv, TaskTyped, OthersWait, CreatorsAlone, Creating, At
  <2> QED
    BY <2>1, <2>2
<1>10. RowsInv'
  BY <1>4, <1>5, <1>6, <1>7, <1>8, <1>9, RowsChanged, RowsInvTypes
<1> QED
  BY <1>2, <1>4, <1>6, <1>10

\* The three steps that write the dates of a booking do it as DatedRows asks.
LEMMA DatedSteps ==
  ASSUME RowsInv, NEW w \in Workers, NEW b \in BookingIds,
         \/ \E u \in Users, date \in Dates : ProposeReschedule(b, u, date)
         \/ ApplyReschedule(w) /\ b = task[w].booking /\ bookings[b].status = "APROVADO"
         \/ ClearReschedule(w) /\ b = task[w].booking
  PROVE  \E date \in Dates, proposta \in Dates \cup {0}, por \in Users \cup {NoUser} :
           /\ bookings[b].status # "AUSENTE"
           /\ bookings' = [bookings EXCEPT ![b] = Dated(b, date, proposta, por)]
           /\ proposta # 0 => b \in MovedBookings'
           /\ \/ propostas' = propostas
              \/ propostas' = Append(propostas, b) /\ bookings[b].status # "PENDENTE"
           /\ Finish(w) \/ UNCHANGED task
           /\ UNCHANGED <<blocks, penalties, expireJobs, now, failures>>
           /\ date = bookings[b].dataServico \/ b \in MovedBookings
<1>1. RowValid(b) /\ HandlerValid(w)
  BY DEF RowsInv
<1>2. ASSUME NEW u \in Users, NEW date \in Dates, ProposeReschedule(b, u, date)
      PROVE  /\ bookings[b].status = "APROVADO" /\ bookings[b].dataServico \in Dates
             /\ bookings' = [bookings EXCEPT ![b] = Dated(b, bookings[b].dataServico, date, u)]
             /\ b \in MovedBookings' /\ propostas' = Append(propostas, b)
             /\ UNCHANGED task
             /\ UNCHANGED <<blocks, penalties, expireJobs, now, failures>>
  BY <1>1, <1>2, ProposalAdds, RowsInvTypes DEF ProposeReschedule, RowValid, clock
<1>3. CASE ApplyReschedule(w) /\ b = task[w].booking /\ bookings[b].status = "APROVADO"
  <2>1. /\ task[w].date \in Dates /\ b \in MovedBookings
        /\ bookings' = [bookings EXCEPT ![b] = Dated(b, task[w].date, 0, NoUser)]
        /\ propostas' = propostas /\ Finish(w)
        /\ UNCHANGED <<blocks, penalties, expireJobs, now, failures>>
    BY <1>1, <1>3 DEF ApplyReschedule, HandlerValid, At, clock
  <2> QED
    BY <1>3, <2>1
<1>4. CASE ClearReschedule(w) /\ b = task[w].booking
  <2>1. /\ bookings[b].status # "AUSENTE" /\ bookings[b].dataServico \in Dates
        /\ bookings' = [bookings EXCEPT ![b] = Dated(b, bookings[b].dataServico, 0, NoUser)]
        /\ propostas' = propostas /\ Finish(w)
        /\ UNCHANGED <<blocks, penalties, expireJobs, now, failures>>
    BY <1>1, <1>4 DEF ClearReschedule, HandlerValid, RowValid, Creating, At, clock
  <2> QED
    BY <2>1
<1> QED
  BY <1>2, <1>3, <1>4

LEMMA RescheduleRows ==
  ASSUME RowsInv, NEW w \in Workers,
         \/ \E b \in BookingIds, u \in Users, date \in Dates : ProposeReschedule(b, u, date)
         \/ ApplyReschedule(w) \/ ClearReschedule(w)
  PROVE  RowsInv'
<1>0. HandlerValid(w)
  BY DEF RowsInv
<1>1. ASSUME NEW b \in BookingIds,
             \/ \E u \in Users, date \in Dates : ProposeReschedule(b, u, date)
             \/ ApplyReschedule(w) /\ b = task[w].booking /\ bookings[b].status = "APROVADO"
             \/ ClearReschedule(w) /\ b = task[w].booking
      PROVE  RowsInv'
  BY <1>1, DatedSteps, DatedRows, SMTT(30)
<1>2. CASE ApplyReschedule(w) /\ bookings[task[w].booking].status # "APROVADO"
  <2>1. /\ task[w].op = "accept" /\ ~Creating(w) /\ Goto(w, "removeBlocks")
        /\ UNCHANGED <<bookings, blocks, penalties, expireJobs, propostas, now, failures>>
    BY <1>2 DEF ApplyReschedule, At, Creating, clock
  <2>2. TaskTyped' /\ OthersWait(w) /\ HandlerValid(w)' /\ CreatorsAlone'
    BY <2>1, GoesOnValid DEF Steps
  <2> QED
    BY <2>1, <2>2, RowsUntouched, RowsInvTypes
<1>3. ApplyReschedule(w) \/ ClearReschedule(w) => task[w].booking \in BookingIds
  BY <1>0 DEF HandlerValid, ApplyReschedule, ClearReschedule, At
<1> QED
  BY <1>1, <1>2, <1>3

\* An hour passes, or nothing happens.
LEMMA TimeRows ==
  ASSUME RowsInv, Tick \/ UNCHANGED vars
  PROVE  RowsInv'
<1>1. /\ UNCHANGED <<bookings, blocks, penalties, expireJobs, task, failures, propostas>>
      /\ now' \in Nat
  BY RowsInvTypes DEF Tick, vars, clock
<1> QED
  BY <1>1 DEF RowsInv, TypeOK, RowValid, HandlerValid, CreatorsAlone, Creating, At, MovedBookings

\* The actions a step may be, and the worker and the booking it is of.
LEMMA Actions ==
  ASSUME Next
  PROVE  \/ \E w \in Workers, c \in Contractors, p \in Professionals, date \in Dates :
              CreateForContractor(w, c, p, date)
         \/ \E w \in Workers, b \in BookingIds :
              \/ Approve(w, b)
              \/ \E u \in Users : AcceptReschedule(w, b, u) \/ RejectReschedule(w, b, u)
              \/ StartBooking(b) \/ CompleteBooking(b) \/ Cancel(w, b)
              \/ \E penalizable \in BOOLEAN : Decline(w, b, penalizable)
              \/ \E u \in Users, date \in Dates : ProposeReschedule(b, u, date)
              \/ Expire(w, b)
         \/ \E w \in Workers : Step(w) \/ Failure(w)
         \/ Tick
BY DEF Next, Request, StartExpire

LEMMA RowsInitially == ASSUME Init PROVE RowsInv
<1>1. bookings \in [BookingIds -> BookingRequest]
  BY DEF Init, BookingRequest
<1>2. expireJobs \in Queue(BookingIds) /\ \A b \in BookingIds : expireJobs[b].state = "absent"
  BY DEF Init, EmptyQueue, Queue, NoJob, Job, JobStates
<1>3. \A w \in Workers : /\ task[w].op = "idle" /\ task[w].step = "idle"
                         /\ task[w].booking = 0 /\ task[w] \in Task
  BY IdleTyped DEF Init
<1>4. TypeOK
  BY <1>1, <1>2, <1>3 DEF TypeOK, Init
<1>5. \A b \in BookingIds : RowValid(b)
  <2>1. propostas = <<>> /\ MovedBookings = {}
    BY DEF Init, MovedBookings
  <2>2. \A b \in BookingIds : bookings[b].status = "AUSENTE" /\ bookings[b].reagendamentoData = 0
    BY DEF Init
  <2> QED
    BY <1>2, <2>1, <2>2 DEF RowValid
<1>6. \A w \in Workers : HandlerValid(w) /\ ~Creating(w)
  BY <1>3 DEF HandlerValid, Creating, At
<1> QED
  BY <1>4, <1>5, <1>6 DEF RowsInv, CreatorsAlone

LEMMA RowsStep == ASSUME RowsInv, [Next]_vars PROVE RowsInv'
<1>1. ASSUME NEW w \in Workers, Step(w) PROVE RowsInv'
  BY <1>1, CreateBookingRows, JobRows, CalendarRows, ApproveBookingRows, RescheduleRows, PenaltyRows
     DEF Step
<1>2. ASSUME NEW w \in Workers, Failure(w) PROVE RowsInv'
  BY <1>2, JobRows
<1>3. ASSUME NEW w \in Workers, NEW b \in BookingIds,
             \/ Approve(w, b)
             \/ \E u \in Users : AcceptReschedule(w, b, u) \/ RejectReschedule(w, b, u)
             \/ StartBooking(b) \/ CompleteBooking(b) \/ Cancel(w, b)
             \/ \E penalizable \in BOOLEAN : Decline(w, b, penalizable)
             \/ \E u \in Users, date \in Dates : ProposeReschedule(b, u, date)
             \/ Expire(w, b)
      PROVE  RowsInv'
  BY <1>3, StartAnswerRows, AnswerRows, RescheduleRows, ExpireRows
<1>4. ASSUME NEW w \in Workers, NEW c \in Contractors, NEW p \in Professionals,
             NEW date \in Dates, CreateForContractor(w, c, p, date)
      PROVE  RowsInv'
  BY <1>4, CreateForContractorRows
<1> QED
  BY <1>1, <1>2, <1>3, <1>4, Actions, TimeRows

\* The rows, jobs and handlers are as RowsInv says in every reachable state.
THEOREM BookingRowsInvariance == Spec => []RowsInv
BY RowsInitially, RowsStep, PTL DEF Spec

\* Every booking, block, penalty, job and handler has its type (booking_requests,
\* schedule_blocks, penalties and the queue booking-expiry), however long it runs.
THEOREM BookingTypeCorrect == Spec => []TypeOK
<1>1. RowsInv => TypeOK
  BY DEF RowsInv
<1> QED
  BY <1>1, BookingRowsInvariance, PTL

--------------------------------------------------------------------------------
(* The machine of a booking *)

\* A step that keeps the status of every booking, creates one, or moves one along
\* BOOKING_TRANSITIONS.
StatusStep(b) ==
  \/ bookings'[b].status = bookings[b].status
  \/ bookings[b].status = "AUSENTE" /\ bookings'[b].status = "PENDENTE"
  \/ canTransition(bookings[b].status, bookings'[b].status)

LEMMA TransitionMoves ==
  ASSUME RowsInv, NEW b \in BookingIds, NEW from \in Statuses, NEW to \in Statuses,
         Transition(b, from, to)
  PROVE  /\ bookings[b].status = from /\ bookings'[b].status = to
         /\ bookings'[b].professional = bookings[b].professional
         /\ bookings'[b].contractor = bookings[b].contractor
         /\ bookings'[b].dataServico = bookings[b].dataServico
         /\ \A c \in BookingIds \ {b} : bookings'[c] = bookings[c]
BY RowsInvTypes DEF Transition, BookingRequest

LEMMA CreateBookingMoves ==
  ASSUME RowsInv, NEW w \in Workers, CreateBooking(w)
  PROVE  /\ task[w].booking \in BookingIds /\ bookings[task[w].booking].status = "AUSENTE"
         /\ bookings'[task[w].booking].status = "PENDENTE"
         /\ bookings'[task[w].booking].contractor = task[w].contractor
         /\ \A c \in BookingIds \ {task[w].booking} : bookings'[c] = bookings[c]
<1>1. /\ task[w].booking \in BookingIds /\ bookings[task[w].booking].status = "AUSENTE"
  BY DEF RowsInv, HandlerValid, CreateBooking, Creating, At
<1> QED
  BY <1>1, RowsInvTypes DEF CreateBooking

\* A row that exists stays its contractor's and its professional's; only the handler
\* that creates it inserts one.
RowStep(b) ==
  /\ StatusStep(b)
  /\ bookings[b].status = "AUSENTE" /\ bookings'[b].status # "AUSENTE" =>
       \E w \in Workers : CreateBooking(w) /\ b = task[w].booking
  /\ bookings[b].status # "AUSENTE" =>
       /\ bookings'[b].professional = bookings[b].professional
       /\ bookings'[b].contractor = bookings[b].contractor

LEMMA RowSteps ==
  ASSUME RowsInv, [Next]_vars, NEW b \in BookingIds
  PROVE  RowStep(b)
<1>0. CASE UNCHANGED bookings
  BY <1>0 DEF RowStep, StatusStep
<1>1. ASSUME NEW c \in BookingIds, NEW from \in Statuses, NEW to \in Statuses,
             Transition(c, from, to), canTransition(from, to)
      PROVE  RowStep(b)
  BY <1>1, TransitionMoves DEF RowStep, StatusStep, Statuses
<1>2. ASSUME NEW w \in Workers, CreateBooking(w) PROVE RowStep(b)
  <2>1. CASE b = task[w].booking
    BY <1>2, <2>1, CreateBookingMoves DEF RowStep, StatusStep
  <2>2. CASE b # task[w].booking
    BY <1>0, <1>2, <2>2, CreateBookingMoves DEF RowStep, StatusStep
  <2> QED
    BY <2>1, <2>2
<1>3. ASSUME NEW w \in Workers, NEW c \in BookingIds,
             \/ \E u \in Users, date \in Dates : ProposeReschedule(c, u, date)
             \/ ApplyReschedule(w) /\ c = task[w].booking /\ bookings[c].status = "APROVADO"
             \/ ClearReschedule(w) /\ c = task[w].booking
      PROVE  RowStep(b)
  <2>1. /\ bookings'[c].status = bookings[c].status
        /\ bookings'[c].professional = bookings[c].professional
        /\ bookings'[c].contractor = bookings[c].contractor
        /\ \A d \in BookingIds \ {c} : bookings'[d] = bookings[d]
    BY <1>3, DatedSteps, DatedRows, SMTT(30)
  <2> QED
    BY <2>1 DEF RowStep, StatusStep
<1>4. ASSUME NEW w \in Workers, Step(w) PROVE RowStep(b)
  <2>1. HandlerValid(w)
    BY DEF RowsInv
  <2>2. CASE ApproveBooking(w)
    <3>1. task[w].booking \in BookingIds
      BY <2>1, <2>2 DEF ApproveBooking, HandlerValid, At
    <3>2. canTransition("PENDENTE", "APROVADO")
      BY DEF canTransition
    <3> QED
      BY <1>0, <1>1, <2>2, <3>1, <3>2 DEF ApproveBooking, Statuses
  <2>3. CASE ApplyReschedule(w) \/ ClearReschedule(w)
    <3>1. task[w].booking \in BookingIds
      BY <2>1, <2>3 DEF ApplyReschedule, ClearReschedule, HandlerValid, At
    <3> QED
      BY <1>0, <1>3, <2>3, <3>1 DEF ApplyReschedule
  <2> QED
    BY <1>0, <1>2, <1>4, <2>2, <2>3
    DEF Step, ScheduleExpiry, CheckConflict, BlockSlot, RemoveBlocks, RemoveOldBlock, CheckNewDate,
        RestoreOldBlock, BlockNewDate, CountPenalties, CreatePenalty, CompleteJob
<1>5. ASSUME NEW w \in Workers, NEW c \in BookingIds,
             \/ StartBooking(c) \/ CompleteBooking(c) \/ Cancel(w, c)
             \/ \E penalizable \in BOOLEAN : Decline(w, c, penalizable)
             \/ Expire(w, c)
      PROVE  RowStep(b)
  <2>1. \/ UNCHANGED bookings \/ Transition(c, "APROVADO", "INICIADO")
        \/ Transition(c, "INICIADO", "CONCLUIDO") \/ Transition(c, "PENDENTE", "CANCELADO")
        \/ Transition(c, "APROVADO", "CANCELADO") \/ Transition(c, "PENDENTE", "RECUSADO")
        \/ Transition(c, "PENDENTE", "EXPIRADO")
    BY <1>5 DEF StartBooking, CompleteBooking, Cancel, Decline, Expire
  <2>2. /\ canTransition("APROVADO", "INICIADO") /\ canTransition("INICIADO", "CONCLUIDO")
        /\ canTransition("PENDENTE", "CANCELADO") /\ canTransition("APROVADO", "CANCELADO")
        /\ canTransition("PENDENTE", "RECUSADO") /\ canTransition("PENDENTE", "EXPIRADO")
    BY DEF canTransition
  <2> QED
    BY <1>0, <1>1, <2>1, <2>2 DEF Statuses
<1>6. ASSUME NEW w \in Workers, NEW c \in BookingIds,
             \/ Approve(w, c)
             \/ \E u \in Users : AcceptReschedule(w, c, u) \/ RejectReschedule(w, c, u)
             \/ Failure(w)
      PROVE  RowStep(b)
  BY <1>0, <1>6 DEF Approve, AcceptReschedule, RejectReschedule, Failure
<1>7. ASSUME NEW w \in Workers, NEW c \in Contractors, NEW p \in Professionals,
             NEW date \in Dates, CreateForContractor(w, c, p, date)
      PROVE  RowStep(b)
  BY <1>0, <1>7 DEF CreateForContractor
<1>8. Tick \/ UNCHANGED vars => RowStep(b)
  BY <1>0 DEF Tick, vars
<1> QED
  BY <1>3, <1>4, <1>5, <1>6, <1>7, <1>8, Actions

\* Every step of a booking is one of BOOKING_TRANSITIONS (booking-state.ts): answers,
\* cancellations and the expiry job never undo each other, for any number of workers.
THEOREM BookingFollowsItsMachine == Spec => BookingMachine
<1>1. RowsInv /\ [Next]_vars =>
        [\A b \in BookingIds :
           \/ bookings'[b].status = bookings[b].status
           \/ bookings[b].status = "AUSENTE" /\ bookings'[b].status = "PENDENTE"
           \/ canTransition(bookings[b].status, bookings'[b].status)]_vars
  BY RowSteps DEF RowStep, StatusStep
<1> QED
  BY <1>1, BookingRowsInvariance, PTL DEF Spec, BookingMachine

--------------------------------------------------------------------------------
(* The calendar *)

Unmoved == BookingIds \ MovedBookings
Kept == {"APROVADO", "INICIADO", "CONCLUIDO"}
Slot(b) == [professional |-> bookings[b].professional, booking |-> b,
            inicio |-> bookings[b].dataServico]
BlocksOf(b) == {k \in blocks : k.booking = b}

\* Between blocking the slot and the transition; taking blocks back.
Owns(w, b) == At(w, "approve", "approveBooking") /\ task[w].booking = b
Frees(w, b) ==
  /\ task[w].step = "removeBlocks" /\ task[w].op \in {"approve", "cancel"}
  /\ task[w].booking = b

\* The slot of a booking nobody asked to move: it is held once the booking is
\* approved, and nobody takes it back; while the booking is pending at most one
\* approval holds it, and nobody takes it back either; if nothing failed, a slot that
\* is held is that of a booking that was approved or of a handler still at work.
AgendaOf(b) ==
  /\ bookings[b].status \in Kept =>
       Slot(b) \in blocks /\ \A w \in Workers : ~Owns(w, b) /\ ~Frees(w, b)
  /\ bookings[b].status = "PENDENTE" =>
       /\ \A w \in Workers : ~Frees(w, b)
       /\ \A w \in Workers : Owns(w, b) => Slot(b) \in blocks
       /\ \A v, w \in Workers : Owns(v, b) /\ Owns(w, b) => v = w
  /\ \A w \in Workers : task[w].op = "approve" /\ task[w].booking = b =>
       /\ task[w].professional = bookings[b].professional
       /\ task[w].date = bookings[b].dataServico
  /\ failures = 0 /\ BlocksOf(b) # {} =>
       bookings[b].status \in Kept \/ \E w \in Workers : Owns(w, b) \/ Frees(w, b)

\* The exclusion constraint: two blocks of a professional never overlap.
BlocksDisjoint ==
  \A k, l \in blocks : k # l /\ k.professional = l.professional => ~Overlap(k.inicio, l.inicio)

AgendaInv == BlocksDisjoint /\ \A b \in Unmoved : AgendaOf(b)

\* A handler that has nothing to do with the slot of booking b.
Aside(w, b) == task[w].booking = b => task[w].op \notin {"approve", "cancel"}

\* The worker stays as it is, or has nothing to do with the slot before and after.
Uninvolved(w, b) == task'[w] = task[w] \/ (Aside(w, b) /\ Aside(w, b)')

SameRow(b) ==
  /\ bookings'[b].status = bookings[b].status
  /\ bookings'[b].professional = bookings[b].professional
  /\ bookings'[b].dataServico = bookings[b].dataServico

SameBlocks(b) == BlocksOf(b)' = BlocksOf(b)

LEMMA AgendaElsewhere ==
  ASSUME NEW b, AgendaOf(b), SameRow(b), SameBlocks(b),
         \A w \in Workers : Uninvolved(w, b), failures' \in {failures, failures + 1},
         failures \in Nat
  PROVE  AgendaOf(b)'
<1>1. Slot(b)' = Slot(b) /\ (Slot(b) \in blocks => Slot(b)' \in blocks')
  <2>1. Slot(b)' = Slot(b)
    BY DEF Slot, SameRow
  <2>2. Slot(b) \in blocks => Slot(b) \in BlocksOf(b)
    BY DEF Slot, BlocksOf
  <2>3. Slot(b) \in BlocksOf(b)' => Slot(b) \in blocks'
    BY DEF BlocksOf
  <2> QED
    BY <2>1, <2>2, <2>3 DEF SameBlocks
<1>2. ASSUME NEW w \in Workers
      PROVE  /\ Owns(w, b)' <=> Owns(w, b)
             /\ Frees(w, b)' <=> Frees(w, b)
             /\ task'[w].op = "approve" /\ task'[w].booking = b => task'[w] = task[w]
  <2>1. Uninvolved(w, b)
    OBVIOUS
  <2> QED
    BY <2>1 DEF Uninvolved, Aside, Owns, Frees, At
<1>3. failures' = 0 => failures = 0
  OBVIOUS
<1> QED
  BY <1>1, <1>2, <1>3 DEF AgendaOf, SameRow, SameBlocks

\* Blocks that are only taken away, and the block of a slot the constraint lets in.
LEMMA Fewer == ASSUME BlocksDisjoint, blocks' \subseteq blocks PROVE BlocksDisjoint'
BY DEF BlocksDisjoint

LEMMA OneMore ==
  ASSUME BlocksDisjoint, NEW p, NEW b, NEW date \in Nat,
         \A k \in blocks : k.inicio \in Nat,
         exclusionAllows(blocks, p, date), blocks' = createBlock(blocks, p, b, date)
  PROVE  BlocksDisjoint'
<1> DEFINE new == [professional |-> p, booking |-> b, inicio |-> date]
<1>1. blocks' = blocks \cup {new} /\ new.professional = p /\ new.inicio = date
  BY DEF createBlock
<1> HIDE DEF new
<1>2. \A k \in blocks : k.professional = p => ~Overlap(k.inicio, date) /\ ~Overlap(date, k.inicio)
  BY DurationAssumption DEF exclusionAllows, Overlap
<1> QED
  BY <1>1, <1>2 DEF BlocksDisjoint

\* Blocks of other bookings than the one a step works on.
LEMMA OtherBlocks ==
  ASSUME NEW b, NEW c, b # c, NEW p, NEW date,
         \/ blocks' = blocks \/ blocks' = createBlock(blocks, p, b, date)
         \/ blocks' = deleteBlocksForBooking(blocks, b)
  PROVE  SameBlocks(c)
<1>1. [professional |-> p, booking |-> b, inicio |-> date].booking = b
  OBVIOUS
<1>2. ASSUME NEW k PROVE (k \in blocks' /\ k.booking = c) <=> (k \in blocks /\ k.booking = c)
  BY <1>1 DEF createBlock, deleteBlocksForBooking
<1> QED
  BY <1>2 DEF SameBlocks, BlocksOf

LEMMA Durable ==
  ASSUME RowsInv, NEW k \in blocks
  PROVE  k.inicio \in Nat /\ k.professional \in Professionals /\ k.booking \in BookingIds
BY RowsInvTypes, BookingNumbersAssumption DEF Block

\* A step that leaves the calendar and the slots' handlers alone.
LEMMA AgendaAside ==
  ASSUME AgendaInv, RowsInv, Unmoved' \subseteq Unmoved, UNCHANGED blocks,
         failures' \in {failures, failures + 1},
         \A b \in Unmoved' : SameRow(b) /\ \A w \in Workers : Uninvolved(w, b)
  PROVE  AgendaInv'
<1>1. BlocksDisjoint'
  BY Fewer DEF AgendaInv
<1>2. ASSUME NEW b \in Unmoved' PROVE AgendaOf(b)'
  BY <1>2, AgendaElsewhere, RowsInvTypes DEF AgendaInv, SameBlocks, BlocksOf
<1> QED
  BY <1>1, <1>2 DEF AgendaInv

\* A step of worker w on the slot of booking b: it has to say what becomes of it.
LEMMA AgendaAt ==
  ASSUME AgendaInv, RowsInv, NEW w \in Workers, NEW b \in BookingIds, OthersWait(w),
         Unmoved' = Unmoved, \A c \in BookingIds \ {b} : SameRow(c) /\ SameBlocks(c),
         UNCHANGED failures, task[w].booking \in {0, b}, task'[w].booking \in {0, b},
         BlocksDisjoint', b \in Unmoved => AgendaOf(b)'
  PROVE  AgendaInv'
<1>1. ASSUME NEW c \in Unmoved, c # b PROVE AgendaOf(c)'
  <2>1. c \in BookingIds /\ AgendaOf(c) /\ c # 0
    BY <1>1 DEF Unmoved, AgendaInv, BookingIds
  <2>2. ASSUME NEW v \in Workers PROVE Uninvolved(v, c)
    BY <1>1, <2>1 DEF Uninvolved, OthersWait, Aside
  <2> QED
    BY <1>1, <2>1, <2>2, AgendaElsewhere, RowsInvTypes
<1> QED
  BY <1>1 DEF AgendaInv

LEMMA Went ==
  ASSUME RowsInv, NEW w \in Workers, NEW step \in Steps, Goto(w, step)
  PROVE  /\ OthersWait(w) /\ task'[w].step = step /\ task'[w].op = task[w].op
         /\ task'[w].booking = task[w].booking /\ task'[w].professional = task[w].professional
         /\ task'[w].date = task[w].date /\ task'[w].prior = task[w].prior
         /\ task'[w].contractor = task[w].contractor
<1>1. /\ OthersWait(w)
      /\ task'[w] = [op |-> task[w].op, step |-> step, booking |-> task[w].booking,
                     contractor |-> task[w].contractor,
                     professional |-> task[w].professional, date |-> task[w].date,
                     antiga |-> task[w].antiga, prior |-> task[w].prior]
  BY Moves, RowsInvTypes
<1> QED
  BY <1>1

LEMMA Finished ==
  ASSUME RowsInv, NEW w \in Workers, Finish(w)
  PROVE  /\ OthersWait(w)
         /\ task'[w].op = "idle" /\ task'[w].step = "idle" /\ task'[w].booking = 0
BY Finishes, RowsInvTypes

\* A worker whose handler neither approves nor cancels, before and after.
StaysAside(w) ==
  /\ OthersWait(w) /\ task[w].op \notin {"approve", "cancel"}
  /\ task'[w].op \notin {"approve", "cancel"}

LEMMA BothAside ==
  ASSUME NEW w \in Workers, StaysAside(w)
  PROVE  \A b, v : v \in Workers => Uninvolved(v, b)
BY DEF StaysAside, OthersWait, Uninvolved, Aside

LEMMA AsideSteps ==
  ASSUME AgendaInv, RowsInv, NEW w \in Workers,
         \/ \E c \in Contractors, p \in Professionals, date \in Dates :
              CreateForContractor(w, c, p, date)
         \/ \E b \in BookingIds, u \in Users : AcceptReschedule(w, b, u) \/ RejectReschedule(w, b, u)
         \/ ScheduleExpiry(w) \/ CheckNewDate(w) \/ CountPenalties(w) \/ CreatePenalty(w)
         \/ CompleteJob(w)
         \/ ApplyReschedule(w) /\ bookings[task[w].booking].status # "APROVADO"
  PROVE  AgendaInv'
<1>0. UNCHANGED <<bookings, blocks, propostas, failures>>
  BY DEF CreateForContractor, AcceptReschedule, RejectReschedule, ScheduleExpiry, CheckNewDate,
         CountPenalties, CreatePenalty, CompleteJob, ApplyReschedule, clock
<1>1. Unmoved' = Unmoved /\ \A b : SameRow(b)
  BY <1>0 DEF Unmoved, MovedBookings, SameRow
<1>2. StaysAside(w)
  <2>0. HandlerValid(w) /\ TaskTyped /\ task[w] \in Task
    BY RowsInvTypes DEF RowsInv, TaskTyped
  <2>1. ASSUME NEW c \in Contractors, NEW p \in Professionals, NEW date \in Dates,
               CreateForContractor(w, c, p, date)
        PROVE  StaysAside(w)
    <3>1. PICK b \in BookingIds : Start(w, [op |-> "create", step |-> "createBooking", booking |-> b,
             contractor |-> c, professional |-> p, date |-> date, antiga |-> 0, prior |-> 0])
      BY <2>1 DEF CreateForContractor
    <3>2. [op |-> "create", step |-> "createBooking", booking |-> b, contractor |-> c,
           professional |-> p, date |-> date, antiga |-> 0, prior |-> 0] \in Task
      BY DEF Task, Ops, Steps
    <3>3. OthersWait(w) /\ task'[w].op = "create"
      BY <2>0, <3>1, <3>2, Moves
    <3> QED
      BY <2>1, <3>3, FreeIsIdle DEF CreateForContractor, StaysAside
  <2>2. ASSUME NEW b \in BookingIds, NEW u \in Users,
               AcceptReschedule(w, b, u) \/ RejectReschedule(w, b, u)
        PROVE  StaysAside(w)
    <3>1. \E t : Start(w, t) /\ t.op \in {"accept", "reject"} /\ Free(w)
      BY <2>2 DEF AcceptReschedule, RejectReschedule, Doing
    <3> QED
      BY <2>0, <3>1, FreeIsIdle DEF Start, OthersWait, TaskTyped, StaysAside
  <2>3. CASE ScheduleExpiry(w) \/ CompleteJob(w)
    BY <2>3, Finished DEF ScheduleExpiry, CompleteJob, At, StaysAside
  <2>4. CheckNewDate(w) => StaysAside(w)
    BY Went DEF CheckNewDate, At, Steps, StaysAside
  <2>10. ApplyReschedule(w) /\ bookings[task[w].booking].status # "APROVADO" => StaysAside(w)
    BY Went DEF ApplyReschedule, At, Steps, StaysAside
  <2>5. CASE CountPenalties(w)
    <3>1. task[w].op \in {"decline", "expire"}
      BY <2>0, <2>5 DEF CountPenalties, HandlerValid
    <3>2. \E t : Start(w, t) /\ t.op = task[w].op
      BY <2>5 DEF CountPenalties, Doing
    <3> QED
      BY <2>0, <3>1, <3>2 DEF Start, OthersWait, TaskTyped, StaysAside
  <2>6. CASE CreatePenalty(w)
    <3>1. task[w].op \in {"decline", "expire"}
      BY <2>0, <2>6 DEF CreatePenalty, HandlerValid
    <3>2. Finish(w) \/ Goto(w, "completeJob")
      BY <2>6 DEF CreatePenalty
    <3> QED
      BY <3>1, <3>2, Went, Finished DEF Steps, StaysAside
  <2> QED
    BY <2>1, <2>2, <2>3, <2>4, <2>5, <2>6, <2>10
<1> QED
  BY <1>0, <1>1, <1>2, BothAside, AgendaAside DEF Unmoved

\* Proposals, new dates and cleared proposals: the booking is or becomes a moved one,
\* or keeps its date.
LEMMA DatesAgenda ==
  ASSUME AgendaInv, RowsInv, NEW w \in Workers,
         \/ \E b \in BookingIds, u \in Users, date \in Dates : ProposeReschedule(b, u, date)
         \/ ApplyReschedule(w) /\ bookings[task[w].booking].status = "APROVADO"
         \/ ClearReschedule(w)
  PROVE  AgendaInv'
<1>1. PICK b \in BookingIds :
        \/ \E u \in Users, date \in Dates : ProposeReschedule(b, u, date)
        \/ ApplyReschedule(w) /\ b = task[w].booking /\ bookings[b].status = "APROVADO"
        \/ ClearReschedule(w) /\ b = task[w].booking
  BY DEF RowsInv, HandlerValid, ApplyReschedule, ClearReschedule, At
<1>2. PICK date \in Dates, proposta \in Dates \cup {0}, por \in Users \cup {NoUser} :
        /\ bookings[b].status # "AUSENTE"
        /\ bookings' = [bookings EXCEPT ![b] = Dated(b, date, proposta, por)]
        /\ proposta # 0 => b \in MovedBookings'
        /\ \/ propostas' = propostas
           \/ propostas' = Append(propostas, b) /\ bookings[b].status # "PENDENTE"
        /\ Finish(w) \/ UNCHANGED task
        /\ UNCHANGED <<blocks, penalties, expireJobs, now, failures>>
        /\ date = bookings[b].dataServico \/ b \in MovedBookings
  BY <1>1, DatedSteps
<1>3. /\ RowsGrow /\ \A c \in BookingIds \ {b} : bookings'[c] = bookings[c]
      /\ bookings'[b].status = bookings[b].status
      /\ bookings'[b].professional = bookings[b].professional
      /\ bookings'[b].dataServico = date
  BY <1>2, DatedRows
<1>4. Unmoved' \subseteq Unmoved
  BY <1>3 DEF Unmoved, RowsGrow
<1>5. ASSUME NEW c \in Unmoved' PROVE SameRow(c)
  BY <1>2, <1>3, <1>4, <1>5 DEF Unmoved, SameRow
<1>6. \A c, v : v \in Workers => Uninvolved(v, c)
  <2>1. CASE UNCHANGED task
    BY <2>1 DEF Uninvolved
  <2>2. CASE Finish(w) /\ (ApplyReschedule(w) \/ ClearReschedule(w))
    <3>1. task[w].op \notin {"approve", "cancel"}
      BY <2>2 DEF ApplyReschedule, ClearReschedule, At
    <3> QED
      BY <2>2, <3>1, Finished, BothAside DEF StaysAside
  <2> QED
    BY <1>1, <1>2, <2>1, <2>2 DEF ProposeReschedule
<1> QED
  BY <1>2, <1>4, <1>5, <1>6, AgendaAside DEF Unmoved

LEMMA TimeAgenda ==
  ASSUME AgendaInv, RowsInv, Tick \/ UNCHANGED vars
  PROVE  AgendaInv'
<1>1. UNCHANGED <<bookings, blocks, task, propostas, failures>>
  BY DEF Tick, vars, clock
<1> QED
  BY <1>1, AgendaAside DEF Unmoved, MovedBookings, SameRow, Uninvolved

\* A failure leaves a slot blocked that nobody approves: of a booking that waits
\* or ended, never of one that is approved.
LEMMA FailureAgenda ==
  ASSUME AgendaInv, RowsInv, NEW w \in Workers, Failure(w)
  PROVE  AgendaInv'
<1>1. UNCHANGED <<bookings, blocks, propostas>> /\ failures' # 0
  BY RowsInvTypes DEF Failure
<1>2. OthersWait(w) /\ task'[w].op = "idle" /\ task'[w].step = "idle" /\ task'[w].booking = 0
  BY Finished DEF Failure
<1>3. Unmoved' = Unmoved
  BY <1>1 DEF Unmoved, MovedBookings
<1>4. ASSUME NEW b \in Unmoved PROVE AgendaOf(b)'
  <2>1. ASSUME NEW v \in Workers
        PROVE  /\ Owns(v, b)' => Owns(v, b)
               /\ Frees(v, b)' => Frees(v, b)
               /\ task'[v].op = "approve" => task'[v] = task[v]
    <3>1. CASE v = w
      BY <1>2, <3>1 DEF Owns, Frees, At
    <3>2. CASE v # w
      <4>1. task'[v] = task[v]
        BY <1>2, <3>2 DEF OthersWait
      <4> QED
        BY <4>1 DEF Owns, Frees, At
    <3> QED
      BY <3>1, <3>2
  <2>2. AgendaOf(b)
    BY DEF AgendaInv
  <2>3. Slot(b)' = Slot(b) /\ (Slot(b)' \in blocks' <=> Slot(b) \in blocks)
    BY <1>1 DEF Slot
  <2>4. /\ (bookings[b].status \in Kept)' =>
             (Slot(b) \in blocks)' /\ \A v \in Workers : ~Owns(v, b)' /\ ~Frees(v, b)'
        /\ (bookings[b].status = "PENDENTE")' =>
             /\ \A v \in Workers : ~Frees(v, b)'
             /\ \A v \in Workers : Owns(v, b)' => (Slot(b) \in blocks)'
             /\ \A u, v \in Workers : Owns(u, b)' /\ Owns(v, b)' => u = v
    BY <1>1, <2>1, <2>2, <2>3 DEF AgendaOf, Kept
  <2>5. \A v \in Workers : task'[v].op = "approve" /\ task'[v].booking = b =>
          /\ task'[v].professional = bookings'[b].professional
          /\ task'[v].date = bookings'[b].dataServico
    BY <1>1, <2>1, <2>2 DEF AgendaOf
  <2> QED
    BY <1>1, <2>4, <2>5 DEF AgendaOf
<1> QED
  BY <1>1, <1>3, <1>4, Fewer DEF AgendaInv

\* Nobody has to do with the slot of a row that is not there yet.
LEMMA CreateBookingAgenda ==
  ASSUME AgendaInv, RowsInv, NEW w \in Workers, CreateBooking(w)
  PROVE  AgendaInv'
<1>1. PICK b \in BookingIds :
        /\ b = task[w].booking
        /\ bookings[b].status = "AUSENTE" /\ bookings'[b].status = "PENDENTE"
        /\ \A c \in BookingIds \ {b} : bookings'[c] = bookings[c]
  BY CreateBookingMoves
<1>2. UNCHANGED <<blocks, propostas, failures>> /\ task[w].op = "create"
  BY DEF CreateBooking, At, clock
<1>3. OthersWait(w) /\ task'[w].op = "create" /\ task'[w].booking = b
  BY <1>1, <1>2, Went DEF CreateBooking, Steps
<1>4. ASSUME NEW v \in Workers PROVE Aside(v, b) /\ Aside(v, b)'
  <2>1. Aside(v, b)
    BY <1>1, <1>2 DEF RowsInv, HandlerValid, Creating, At, Aside
  <2>2. task'[v] = task[v] \/ v = w
    BY <1>3 DEF OthersWait
  <2> QED
    BY <1>3, <2>1, <2>2 DEF Aside
<1>5. Unmoved' = Unmoved /\ b \in Unmoved
  BY <1>1, <1>2 DEF RowsInv, RowValid, Unmoved, MovedBookings
<1>6. AgendaOf(b)'
  <2>1. \A v \in Workers : ~Owns(v, b) /\ ~Frees(v, b) /\ ~Owns(v, b)' /\ ~Frees(v, b)'
                           /\ ~(task'[v].op = "approve" /\ task'[v].booking = b)
    BY <1>4 DEF Aside, Owns, Frees, At
  <2>2. failures = 0 => BlocksOf(b) = {}
    BY <1>1, <1>5, <2>1 DEF AgendaInv, AgendaOf, Kept
  <2> QED
    BY <1>1, <1>2, <2>1, <2>2 DEF AgendaOf, BlocksOf, Kept
<1>7. \A c \in BookingIds \ {b} : SameRow(c) /\ SameBlocks(c)
  BY <1>1, <1>2 DEF SameRow, SameBlocks, BlocksOf
<1> QED
  BY <1>1, <1>2, <1>3, <1>5, <1>6, <1>7, Fewer, AgendaAt DEF AgendaInv

\* A step that changes nobody's hold of the slot.
LEMMA AgendaSame ==
  ASSUME NEW b, AgendaOf(b), SameRow(b), SameBlocks(b), UNCHANGED failures,
         \A v \in Workers :
           /\ Owns(v, b)' <=> Owns(v, b)
           /\ Frees(v, b)' <=> Frees(v, b)
           /\ task'[v].op = "approve" /\ task'[v].booking = b =>
                /\ task'[v].professional = bookings[b].professional
                /\ task'[v].date = bookings[b].dataServico
  PROVE  AgendaOf(b)'
<1>1. Slot(b)' = Slot(b) /\ (Slot(b) \in blocks => Slot(b)' \in blocks')
  <2>1. Slot(b)' = Slot(b)
    BY DEF Slot, SameRow
  <2>2. Slot(b) \in blocks => Slot(b) \in BlocksOf(b)
    BY DEF Slot, BlocksOf
  <2>3. Slot(b) \in BlocksOf(b)' => Slot(b) \in blocks'
    BY DEF BlocksOf
  <2> QED
    BY <2>1, <2>2, <2>3 DEF SameBlocks
<1> QED
  BY <1>1 DEF AgendaOf, SameRow, SameBlocks

\* approve, up to its second call, and the end of a handler that was refused.
LEMMA ApproveAgenda ==
  ASSUME AgendaInv, RowsInv, NEW w \in Workers, NEW b \in BookingIds,
         UNCHANGED <<bookings, blocks, propostas, failures>>, OthersWait(w),
         ~Owns(w, b) /\ ~Frees(w, b) /\ ~Owns(w, b)' /\ ~Frees(w, b)',
         task[w].booking \in {0, b}, task'[w].booking \in {0, b},
         task'[w].op = "approve" =>
           \/ task[w].op = "approve" /\ task[w].booking = b /\
              task'[w].professional = task[w].professional /\ task'[w].date = task[w].date
           \/ task'[w].professional = bookings[b].professional
              /\ task'[w].date = bookings[b].dataServico
  PROVE  AgendaInv'
<1>1. \A c : SameRow(c) /\ SameBlocks(c)
  BY DEF SameRow, SameBlocks, BlocksOf
<1>2. b \in Unmoved => AgendaOf(b)'
  <2> HAVE b \in Unmoved
  <2>1. AgendaOf(b)
    BY DEF AgendaInv
  <2>2. ASSUME NEW v \in Workers
        PROVE  /\ Owns(v, b)' <=> Owns(v, b)
               /\ Frees(v, b)' <=> Frees(v, b)
               /\ task'[v].op = "approve" /\ task'[v].booking = b =>
                    /\ task'[v].professional = bookings[b].professional
                    /\ task'[v].date = bookings[b].dataServico
    <3>1. CASE v = w
      BY <2>1, <3>1 DEF AgendaOf
    <3>2. CASE v # w
      <4>1. task'[v] = task[v]
        BY <3>2 DEF OthersWait
      <4> QED
        BY <2>1, <4>1 DEF AgendaOf, Owns, Frees, At
    <3> QED
      BY <3>1, <3>2
  <2> QED
    BY <1>1, <2>1, <2>2, AgendaSame
<1>3. Unmoved' = Unmoved
  BY DEF Unmoved, MovedBookings
<1> QED
  BY <1>1, <1>2, <1>3, Fewer, AgendaAt DEF AgendaInv

LEMMA ApproveStepsAgenda ==
  ASSUME AgendaInv, RowsInv, NEW w \in Workers,
         \/ \E b \in BookingIds : Approve(w, b)
         \/ CheckConflict(w)
         \/ BlockSlot(w) /\ UNCHANGED blocks /\ Finish(w)
  PROVE  AgendaInv'
<1>1. ASSUME NEW b \in BookingIds, Approve(w, b) PROVE AgendaInv'
  <2> DEFINE t == Doing("approve", "checkConflict", b, bookings[b].professional,
                        bookings[b].dataServico, 0)
  <2>1. t \in Task /\ t.op = "approve" /\ t.step = "checkConflict" /\ t.booking = b
        /\ t.professional = bookings[b].professional /\ t.date = bookings[b].dataServico
    <3>1. bookings[b] \in BookingRequest
      BY RowsInvTypes
    <3> QED
      BY <3>1 DEF Doing, Task, Ops, Steps, BookingRequest
  <2>2. Start(w, t) /\ Free(w) /\ UNCHANGED <<bookings, blocks, propostas, failures>>
    BY <1>1 DEF Approve, clock
  <2> HIDE DEF t
  <2>3. OthersWait(w) /\ task'[w] = t
    BY <2>1, <2>2, Moves, RowsInvTypes
  <2>4. task[w].booking = 0 /\ task[w].step = "idle"
    BY <2>2, FreeIsIdle
  <2>5. ~Owns(w, b) /\ ~Frees(w, b) /\ ~Owns(w, b)' /\ ~Frees(w, b)'
    BY <2>1, <2>3, <2>4 DEF Owns, Frees, At
  <2> QED
    BY <2>1, <2>2, <2>3, <2>4, <2>5, ApproveAgenda
<1>2. CASE CheckConflict(w) \/ (BlockSlot(w) /\ UNCHANGED blocks /\ Finish(w))
  <2>1. /\ task[w].op = "approve" /\ task[w].step \in {"checkConflict", "block"}
        /\ UNCHANGED <<bookings, blocks, propostas, failures>>
        /\ Finish(w) \/ Goto(w, "block")
    BY <1>2 DEF CheckConflict, BlockSlot, At, clock
  <2>2. PICK b \in BookingIds : b = task[w].booking
    BY <2>1 DEF RowsInv, HandlerValid
  <2>3. CASE Finish(w)
    <3>1. OthersWait(w) /\ task'[w].op = "idle" /\ task'[w].step = "idle" /\ task'[w].booking = 0
      BY <2>3, Finished
    <3>2. ~Owns(w, b) /\ ~Frees(w, b) /\ ~Owns(w, b)' /\ ~Frees(w, b)'
      BY <2>1, <3>1 DEF Owns, Frees, At
    <3> QED
      BY <2>1, <2>2, <3>1, <3>2, ApproveAgenda
  <2>4. CASE Goto(w, "block")
    <3>1. /\ OthersWait(w) /\ task'[w].op = "approve" /\ task'[w].step = "block"
          /\ task'[w].booking = b /\ task'[w].professional = task[w].professional
          /\ task'[w].date = task[w].date
      BY <2>1, <2>2, <2>4, Went DEF Steps
    <3>2. ~Owns(w, b) /\ ~Frees(w, b) /\ ~Owns(w, b)' /\ ~Frees(w, b)'
      BY <2>1, <3>1 DEF Owns, Frees, At
    <3> QED
      BY <2>1, <2>2, <3>1, <3>2, ApproveAgenda
  <2> QED
    BY <2>1, <2>3, <2>4
<1> QED
  BY <1>1, <1>2

\* The slot is blocked for an approval only where the constraint lets it in: the
\* booking is not approved yet, and no other approval of it holds the slot.
LEMMA BlockSlotAgenda ==
  ASSUME AgendaInv, RowsInv, NEW w \in Workers, At(w, "approve", "block"),
         exclusionAllows(blocks, task[w].professional, task[w].date),
         blocks' = createBlock(blocks, task[w].professional, task[w].booking, task[w].date),
         Goto(w, "approveBooking"), UNCHANGED <<bookings, propostas, failures>>
  PROVE  AgendaInv'
<1>1. PICK b \in BookingIds : b = task[w].booking
  BY DEF RowsInv, HandlerValid, At
<1>2. /\ task[w].op = "approve" /\ task[w].step = "block"
      /\ task[w].professional \in Professionals /\ task[w].date \in Nat
  BY BookingNumbersAssumption DEF RowsInv, HandlerValid, At
<1>3. /\ OthersWait(w) /\ task'[w].op = "approve" /\ task'[w].step = "approveBooking"
      /\ task'[w].booking = b /\ task'[w].professional = task[w].professional
      /\ task'[w].date = task[w].date
  BY <1>1, <1>2, Went DEF Steps
<1>4. Unmoved' = Unmoved /\ \A c : SameRow(c) /\ Slot(c)' = Slot(c)
  BY DEF Unmoved, MovedBookings, SameRow, Slot
<1>5. BlocksDisjoint'
  BY <1>2, Durable, OneMore DEF AgendaInv
<1>6. ASSUME NEW c \in BookingIds \ {b} PROVE SameBlocks(c)
  BY <1>1, <1>6, OtherBlocks
<1>7. b \in Unmoved => AgendaOf(b)'
  <2> HAVE b \in Unmoved
  <2>1. /\ AgendaOf(b) /\ task[w].professional = bookings[b].professional
        /\ task[w].date = bookings[b].dataServico
    BY <1>1, <1>2 DEF AgendaInv, AgendaOf
  <2>2. Slot(b) \notin blocks
    BY <1>2, <2>1, DurationAssumption DEF Slot, exclusionAllows, Overlap
  <2>3. Slot(b) \in blocks'
    BY <1>1, <2>1 DEF Slot, createBlock
  <2>4. bookings[b].status \notin Kept
    BY <2>1, <2>2 DEF AgendaOf
  <2>5. ASSUME NEW v \in Workers
        PROVE  /\ Owns(v, b)' => v = w \/ Owns(v, b)
               /\ Frees(v, b)' => Frees(v, b)
               /\ task'[v].op = "approve" /\ task'[v].booking = b =>
                    /\ task'[v].professional = bookings[b].professional
                    /\ task'[v].date = bookings[b].dataServico
    <3>1. CASE v = w
      BY <1>3, <2>1, <3>1 DEF Frees
    <3>2. CASE v # w
      <4>1. task'[v] = task[v]
        BY <1>3, <3>2 DEF OthersWait
      <4> QED
        BY <2>1, <4>1 DEF AgendaOf, Owns, Frees, At
    <3> QED
      BY <3>1, <3>2
  <2>6. Owns(w, b)'
    BY <1>3 DEF Owns, At
  <2>7. bookings[b].status = "PENDENTE" =>
          \A v \in Workers : (Owns(v, b)' => v = w) /\ ~Frees(v, b)'
    BY <2>1, <2>2, <2>5 DEF AgendaOf
  <2> QED
    BY <1>4, <2>3, <2>4, <2>5, <2>6, <2>7 DEF AgendaOf, SameRow
<1> QED
  BY <1>1, <1>3, <1>4, <1>5, <1>6, <1>7, AgendaAt

LEMMA ApproveBookingAgenda ==
  ASSUME AgendaInv, RowsInv, NEW w \in Workers, ApproveBooking(w)
  PROVE  AgendaInv'
<1>1. PICK b \in BookingIds : b = task[w].booking
  BY DEF RowsInv, HandlerValid, ApproveBooking, At
<1>2. /\ UNCHANGED <<blocks, propostas, failures>> /\ Owns(w, b) /\ task[w].op = "approve"
      /\ Unmoved' = Unmoved
  BY <1>1 DEF ApproveBooking, Owns, At, clock, Unmoved, MovedBookings
<1>3. CASE Transition(b, "PENDENTE", "APROVADO") /\ Finish(w)
  <2>1. /\ bookings[b].status = "PENDENTE" /\ bookings'[b].status = "APROVADO"
        /\ bookings'[b].professional = bookings[b].professional
        /\ bookings'[b].dataServico = bookings[b].dataServico
        /\ \A c \in BookingIds \ {b} : bookings'[c] = bookings[c]
    BY <1>3, TransitionMoves DEF Statuses
  <2>2. OthersWait(w) /\ task'[w].op = "idle" /\ task'[w].step = "idle" /\ task'[w].booking = 0
    BY <1>3, Finished
  <2>3. b \in Unmoved => AgendaOf(b)'
    <3> HAVE b \in Unmoved
    <3>1. AgendaOf(b)
      BY DEF AgendaInv
    <3>2. Slot(b)' = Slot(b) /\ Slot(b) \in blocks
      BY <1>2, <2>1, <3>1 DEF Slot, AgendaOf
    <3>3. ASSUME NEW v \in Workers
          PROVE  /\ ~Owns(v, b)' /\ ~Frees(v, b)'
                 /\ task'[v].op = "approve" => task'[v] = task[v]
      <4>1. CASE v = w
        BY <2>2, <4>1 DEF Owns, Frees, At
      <4>2. CASE v # w
        <5>1. task'[v] = task[v]
          BY <2>2, <4>2 DEF OthersWait
        <5>2. ~Owns(v, b) /\ ~Frees(v, b)
          BY <1>2, <2>1, <3>1, <4>2 DEF AgendaOf
        <5> QED
          BY <5>1, <5>2 DEF Owns, Frees, At
      <4> QED
        BY <4>1, <4>2
    <3>4. \A v \in Workers : task'[v].op = "approve" /\ task'[v].booking = b =>
            /\ task'[v].professional = bookings'[b].professional
            /\ task'[v].date = bookings'[b].dataServico
      BY <2>1, <3>1, <3>3 DEF AgendaOf
    <3> QED
      BY <1>2, <2>1, <3>2, <3>3, <3>4 DEF AgendaOf, Kept
  <2>4. \A c \in BookingIds \ {b} : SameRow(c) /\ SameBlocks(c)
    BY <1>2, <2>1 DEF SameRow, SameBlocks, BlocksOf
  <2> QED
    BY <1>1, <1>2, <2>2, <2>3, <2>4, Fewer, AgendaAt DEF AgendaInv
<1>4. CASE bookings[b].status # "PENDENTE" /\ Goto(w, "removeBlocks") /\ UNCHANGED bookings
  <2>1. /\ OthersWait(w) /\ task'[w].op = "approve" /\ task'[w].step = "removeBlocks"
        /\ task'[w].booking = b /\ task'[w].professional = task[w].professional
        /\ task'[w].date = task[w].date
    BY <1>1, <1>2, <1>4, Went DEF Steps
  <2>2. \A c : SameRow(c) /\ SameBlocks(c)
    BY <1>2, <1>4 DEF SameRow, SameBlocks, BlocksOf
  <2>3. b \in Unmoved => AgendaOf(b)'
    <3> HAVE b \in Unmoved
    <3>1. AgendaOf(b) /\ bookings[b].status \notin Kept
      BY <1>2 DEF AgendaInv, AgendaOf
    <3>2. Frees(w, b)'
      BY <2>1 DEF Frees
    <3>3. ASSUME NEW v \in Workers, task'[v].op = "approve", task'[v].booking = b
          PROVE  task'[v].professional = bookings[b].professional
                 /\ task'[v].date = bookings[b].dataServico
      <4>1. v = w \/ task'[v] = task[v]
        BY <2>1 DEF OthersWait
      <4> QED
        BY <1>1, <1>2, <2>1, <3>1, <3>3, <4>1 DEF AgendaOf
    <3> QED
      BY <1>4, <3>1, <3>2, <3>3 DEF AgendaOf
  <2> QED
    BY <1>1, <1>2, <2>1, <2>2, <2>3, Fewer, AgendaAt DEF AgendaInv
<1> QED
  BY <1>1, <1>3, <1>4 DEF ApproveBooking

\* A booking whose blocks are taken back is not approved; afterwards it has none.
LEMMA RemoveBlocksAgenda ==
  ASSUME AgendaInv, RowsInv, NEW w \in Workers, RemoveBlocks(w)
  PROVE  AgendaInv'
<1>1. PICK b \in BookingIds : b = task[w].booking
  BY DEF RowsInv, HandlerValid, RemoveBlocks
<1>2. /\ task[w].step = "removeBlocks" /\ task[w].op \in {"approve", "cancel", "accept"}
      /\ task[w].op = "accept" => b \in MovedBookings
      /\ UNCHANGED <<bookings, propostas, failures>> /\ Finish(w)
      /\ blocks' = deleteBlocksForBooking(blocks, b)
      /\ Unmoved' = Unmoved
  BY <1>1 DEF RowsInv, HandlerValid, RemoveBlocks, clock, Unmoved, MovedBookings
<1>3. OthersWait(w) /\ task'[w].op = "idle" /\ task'[w].step = "idle" /\ task'[w].booking = 0
  BY <1>2, Finished
<1>4. BlocksDisjoint'
  BY <1>2, Fewer DEF AgendaInv, deleteBlocksForBooking
<1>5. ASSUME NEW c \in BookingIds \ {b} PROVE SameRow(c) /\ SameBlocks(c)
  BY <1>2, <1>5, OtherBlocks DEF SameRow
<1>6. b \in Unmoved => AgendaOf(b)'
  <2> HAVE b \in Unmoved
  <2>1. AgendaOf(b) /\ Frees(w, b)
    BY <1>1, <1>2 DEF AgendaInv, Frees, Unmoved
  <2>2. bookings[b].status \notin Kept /\ bookings[b].status # "PENDENTE"
    BY <2>1 DEF AgendaOf
  <2>3. BlocksOf(b)' = {}
    BY <1>2 DEF BlocksOf, deleteBlocksForBooking
  <2>4. ASSUME NEW v \in Workers, task'[v].op = "approve", task'[v].booking = b
        PROVE  task'[v].professional = bookings[b].professional
               /\ task'[v].date = bookings[b].dataServico
    <3>1. task'[v] = task[v]
      BY <1>3, <2>4 DEF OthersWait
    <3> QED
      BY <2>1, <2>4, <3>1 DEF AgendaOf
  <2> QED
    BY <1>2, <2>2, <2>3, <2>4 DEF AgendaOf
<1> QED
  BY <1>1, <1>2, <1>3, <1>4, <1>5, <1>6, AgendaAt

\* acceptReschedule changes the blocks of moved bookings only.
LEMMA AcceptStepsAgenda ==
  ASSUME AgendaInv, RowsInv, NEW w \in Workers,
         RemoveOldBlock(w) \/ RestoreOldBlock(w) \/ BlockNewDate(w)
  PROVE  AgendaInv'
<1>1. PICK b \in BookingIds : b = task[w].booking
  BY DEF RowsInv, HandlerValid, RemoveOldBlock, RestoreOldBlock, BlockNewDate, At
<1>2. /\ task[w].op = "accept" /\ b \in MovedBookings /\ task[w].professional \in Professionals
      /\ task[w].date \in Dates /\ task[w].antiga \in Dates
      /\ UNCHANGED <<bookings, propostas, failures>>
  BY <1>1 DEF RowsInv, HandlerValid, RemoveOldBlock, RestoreOldBlock, BlockNewDate, At, clock
<1>3. /\ Finish(w) \/ Goto(w, "checkNewDate") \/ Goto(w, "applyReschedule")
      /\ \/ blocks' = blocks
         \/ blocks' = deleteBlocksForBooking(blocks, b)
         \/ \E date \in {task[w].date, task[w].antiga} :
              /\ exclusionAllows(blocks, task[w].professional, date)
              /\ blocks' = createBlock(blocks, task[w].professional, b, date)
  BY <1>1 DEF RemoveOldBlock, RestoreOldBlock, BlockNewDate
<1>4. OthersWait(w) /\ task'[w].booking \in {0, b}
  BY <1>1, <1>3, Went, Finished DEF Steps
<1>5. BlocksDisjoint'
  <2>1. CASE blocks' \subseteq blocks
    BY <2>1, Fewer DEF AgendaInv
  <2>2. ASSUME NEW date \in {task[w].date, task[w].antiga},
               exclusionAllows(blocks, task[w].professional, date),
               blocks' = createBlock(blocks, task[w].professional, b, date)
        PROVE  BlocksDisjoint'
    <3>1. date \in Nat
      BY <1>2, BookingNumbersAssumption
    <3> QED
      BY <2>2, <3>1, Durable, OneMore DEF AgendaInv
  <2>3. deleteBlocksForBooking(blocks, b) \subseteq blocks
    BY DEF deleteBlocksForBooking
  <2> QED
    BY <1>3, <2>1, <2>2, <2>3
<1>6. ASSUME NEW c \in BookingIds \ {b} PROVE SameRow(c) /\ SameBlocks(c)
  BY <1>2, <1>3, <1>6, OtherBlocks DEF SameRow
<1>7. Unmoved' = Unmoved /\ b \notin Unmoved
  BY <1>2 DEF Unmoved, MovedBookings
<1> QED
  BY <1>1, <1>2, <1>4, <1>5, <1>6, <1>7, AgendaAt

\* The transitions that a request or the expiry job makes, the worker being free
\* before: a pending booking ends, an approved one is cancelled, starts or is done.
LEMMA RequestAgenda ==
  ASSUME AgendaInv, RowsInv, NEW w \in Workers, NEW b \in BookingIds,
         NEW from \in Statuses, NEW to \in Statuses, Transition(b, from, to),
         OthersWait(w), UNCHANGED <<blocks, propostas, failures>>,
         \/ from = "PENDENTE" /\ to \in {"RECUSADO", "EXPIRADO", "CANCELADO"}
         \/ from = "APROVADO" /\ to = "CANCELADO" /\ Frees(w, b)'
         \/ from \in Kept /\ to \in Kept,
         \/ task'[w] = task[w]
         \/ /\ task[w].op = "idle" /\ task[w].booking = 0 /\ task'[w].booking = b
            /\ \/ task'[w].op \notin {"approve", "cancel"}
               \/ task'[w].op = "cancel" /\ from = "APROVADO" /\ to = "CANCELADO"
  PROVE  AgendaInv'
<1>1. /\ bookings[b].status = from /\ bookings'[b].status = to
      /\ bookings'[b].professional = bookings[b].professional
      /\ bookings'[b].dataServico = bookings[b].dataServico
      /\ \A c \in BookingIds \ {b} : bookings'[c] = bookings[c]
  BY TransitionMoves
<1>2. Unmoved' = Unmoved /\ BlocksDisjoint'
  BY Fewer DEF Unmoved, MovedBookings, AgendaInv
<1>3. ASSUME NEW c \in Unmoved, c # b PROVE AgendaOf(c)'
  <2>1. SameRow(c) /\ SameBlocks(c) /\ AgendaOf(c) /\ c # 0
    BY <1>1, <1>3 DEF SameRow, SameBlocks, BlocksOf, Unmoved, AgendaInv, BookingIds
  <2>2. ASSUME NEW v \in Workers PROVE Uninvolved(v, c)
    BY <1>3, <2>1 DEF Uninvolved, OthersWait, Aside
  <2> QED
    BY <2>1, <2>2, AgendaElsewhere, RowsInvTypes
<1>4. ASSUME b \in Unmoved PROVE AgendaOf(b)'
  <2>1. AgendaOf(b) /\ Slot(b)' = Slot(b) /\ BlocksOf(b)' = BlocksOf(b)
    BY <1>1, <1>4 DEF AgendaInv, Slot, BlocksOf
  <2>2. ASSUME NEW v \in Workers
        PROVE  /\ Owns(v, b)' => Owns(v, b)
               /\ from # "APROVADO" \/ to # "CANCELADO" => (Frees(v, b)' => Frees(v, b))
               /\ Owns(v, b) => Owns(v, b)'
               /\ Frees(v, b) => Frees(v, b)'
               /\ task'[v].op = "approve" => task'[v] = task[v]
    <3>1. CASE task'[v] = task[v]
      BY <3>1 DEF Owns, Frees, At
    <3>2. CASE task'[v] # task[v]
      <4>1. v = w
        BY <3>2 DEF OthersWait
      <4> QED
        BY <3>2, <4>1 DEF Owns, Frees, At
    <3> QED
      BY <3>1, <3>2
  <2>3. \A v \in Workers : task'[v].op = "approve" /\ task'[v].booking = b =>
          /\ task'[v].professional = bookings'[b].professional
          /\ task'[v].date = bookings'[b].dataServico
    BY <1>1, <2>1, <2>2 DEF AgendaOf
  <2>4. CASE from = "PENDENTE" /\ to \in {"RECUSADO", "EXPIRADO", "CANCELADO"}
    <3>1. bookings[b].status \notin Kept /\ bookings'[b].status \notin Kept
          /\ bookings'[b].status # "PENDENTE"
      BY <1>1, <2>4 DEF Kept
    <3>2. failures = 0 /\ BlocksOf(b) # {} => \E v \in Workers : Owns(v, b)' \/ Frees(v, b)'
      BY <2>1, <2>2, <3>1 DEF AgendaOf
    <3> QED
      BY <2>1, <2>3, <3>1, <3>2 DEF AgendaOf
  <2>5. CASE from = "APROVADO" /\ to = "CANCELADO" /\ Frees(w, b)'
    BY <1>1, <2>1, <2>3, <2>5 DEF AgendaOf, Kept
  <2>6. CASE from \in Kept /\ to \in Kept
    <3>1. Slot(b) \in blocks /\ \A v \in Workers : ~Owns(v, b)' /\ ~Frees(v, b)'
      BY <1>1, <2>1, <2>2, <2>6 DEF AgendaOf, Kept
    <3> QED
      BY <1>1, <2>1, <2>3, <2>6, <3>1 DEF AgendaOf, Kept
  <2> QED
    BY <2>4, <2>5, <2>6
<1> QED
  BY <1>2, <1>3, <1>4 DEF AgendaInv

LEMMA RequestsAgenda ==
  ASSUME AgendaInv, RowsInv, NEW w \in Workers, NEW b \in BookingIds,
         \/ StartBooking(b) \/ CompleteBooking(b) \/ Cancel(w, b)
         \/ \E penalizable \in BOOLEAN : Decline(w, b, penalizable)
         \/ Expire(w, b)
  PROVE  AgendaInv'
<1>0. UNCHANGED <<blocks, propostas, failures>> /\ bookings[b] \in BookingRequest
  BY RowsInvTypes DEF StartBooking, CompleteBooking, Cancel, Decline, Expire, clock
<1>1. CASE UNCHANGED task /\ \E to \in Statuses :
        \/ Transition(b, "PENDENTE", to) /\ to \in {"RECUSADO", "CANCELADO"}
        \/ Transition(b, "APROVADO", to) /\ to = "INICIADO"
        \/ Transition(b, "INICIADO", to) /\ to = "CONCLUIDO"
  <2>1. OthersWait(w)
    BY <1>1 DEF OthersWait
  <2> QED
    BY <1>0, <1>1, <2>1, RequestAgenda DEF Kept, Statuses
<1>2. ASSUME NEW t \in Task, Start(w, t), Free(w), t.op \in {"decline", "expire"}, t.booking = b,
             \/ Transition(b, "PENDENTE", "RECUSADO")
             \/ Transition(b, "PENDENTE", "EXPIRADO")
             \/ UNCHANGED bookings
      PROVE  AgendaInv'
  <2>1. OthersWait(w) /\ task'[w] = t /\ task[w].op = "idle" /\ task[w].booking = 0
    BY <1>2, Moves, FreeIsIdle, RowsInvTypes
  <2>2. CASE Transition(b, "PENDENTE", "RECUSADO") \/ Transition(b, "PENDENTE", "EXPIRADO")
    BY <1>0, <1>2, <2>1, <2>2, RequestAgenda DEF Statuses
  <2>3. CASE UNCHANGED bookings
    <3>1. StaysAside(w)
      BY <1>2, <2>1 DEF StaysAside
    <3>2. Unmoved' = Unmoved /\ \A c : SameRow(c)
      BY <1>0, <2>3 DEF Unmoved, MovedBookings, SameRow
    <3> QED
      BY <1>0, <3>1, <3>2, BothAside, AgendaAside DEF Unmoved
  <2> QED
    BY <1>2, <2>2, <2>3
<1>3. CASE Cancel(w, b) /\ Transition(b, "APROVADO", "CANCELADO")
           /\ Start(w, Doing("cancel", "removeBlocks", b, NoUser, 0, 0))
  <2> DEFINE t == Doing("cancel", "removeBlocks", b, NoUser, 0, 0)
  <2>1. t \in Task /\ t.op = "cancel" /\ t.step = "removeBlocks" /\ t.booking = b
    BY DEF Doing, Task, Ops, Steps
  <2>2. Start(w, t) /\ Free(w)
    BY <1>3 DEF Cancel
  <2> HIDE DEF t
  <2>3. OthersWait(w) /\ task'[w] = t /\ task[w].op = "idle" /\ task[w].booking = 0
    BY <2>1, <2>2, Moves, FreeIsIdle, RowsInvTypes
  <2>4. Frees(w, b)'
    BY <2>1, <2>3 DEF Frees
  <2> QED
    BY <1>0, <1>3, <2>1, <2>3, <2>4, RequestAgenda DEF Statuses
<1>4. CASE StartBooking(b) \/ CompleteBooking(b)
  BY <1>1, <1>4 DEF StartBooking, CompleteBooking, Statuses
<1>5. CASE Cancel(w, b)
  BY <1>1, <1>3, <1>5 DEF Cancel, Statuses
<1>6. ASSUME NEW penalizable \in BOOLEAN, Decline(w, b, penalizable) PROVE AgendaInv'
  <2> DEFINE t == Doing("decline", "countPenalties", b, bookings[b].professional, 0, 0)
  <2>1. t \in Task /\ t.booking = b /\ t.op = "decline"
    BY <1>0 DEF Doing, Task, Ops, Steps, BookingRequest
  <2>2. /\ Transition(b, "PENDENTE", "RECUSADO") /\ Free(w)
        /\ UNCHANGED task \/ Start(w, t)
    BY <1>6 DEF Decline
  <2> HIDE DEF t
  <2> QED
    BY <1>1, <1>2, <2>1, <2>2 DEF Statuses
<1>7. CASE Expire(w, b)
  <2>1. PICK step \in {"countPenalties", "completeJob"} :
          /\ \/ Transition(b, "PENDENTE", "EXPIRADO")
             \/ UNCHANGED bookings
          /\ Start(w, Doing("expire", step, b, bookings[b].professional, 0, 0))
    BY <1>7 DEF Expire
  <2> DEFINE t == Doing("expire", step, b, bookings[b].professional, 0, 0)
  <2>2. t \in Task /\ t.booking = b /\ t.op = "expire"
    BY <1>0 DEF Doing, Task, Ops, Steps, BookingRequest
  <2>3. Start(w, t) /\ Free(w)
    BY <1>7, <2>1 DEF Expire
  <2> HIDE DEF t
  <2> QED
    BY <1>2, <2>1, <2>2, <2>3
<1> QED
  BY <1>4, <1>5, <1>6, <1>7

LEMMA AgendaInitially == ASSUME Init PROVE AgendaInv
<1>1. \A w \in Workers : task[w].op = "idle" /\ task[w].step = "idle" /\ task[w].booking = 0
  BY IdleTyped DEF Init
<1>2. blocks = {} /\ \A b \in BookingIds : bookings[b].status = "AUSENTE"
  BY DEF Init
<1> QED
  BY <1>1, <1>2
     DEF AgendaInv, BlocksDisjoint, AgendaOf, Unmoved, Kept, Owns, Frees, At, BlocksOf

LEMMA AgendaStep == ASSUME AgendaInv, RowsInv, [Next]_vars PROVE AgendaInv'
<1>1. ASSUME NEW w \in Workers, Step(w) PROVE AgendaInv'
  <2>1. CASE BlockSlot(w)
    <3>1. CASE UNCHANGED blocks /\ Finish(w)
      BY <2>1, <3>1, ApproveStepsAgenda
    <3>2. CASE /\ exclusionAllows(blocks, task[w].professional, task[w].date)
               /\ blocks' = createBlock(blocks, task[w].professional, task[w].booking, task[w].date)
               /\ Goto(w, "approveBooking")
      BY <2>1, <3>2, BlockSlotAgenda DEF BlockSlot, clock
    <3> QED
      BY <2>1, <3>1, <3>2 DEF BlockSlot
  <2>2. CASE ApplyReschedule(w)
    BY <2>2, AsideSteps, DatesAgenda
  <2>3. CASE ScheduleExpiry(w) \/ CheckNewDate(w) \/ CountPenalties(w) \/ CreatePenalty(w)
             \/ CompleteJob(w)
    BY <2>3, AsideSteps
  <2>4. CASE ClearReschedule(w)
    BY <2>4, DatesAgenda
  <2>5. CASE CreateBooking(w) \/ CheckConflict(w) \/ ApproveBooking(w) \/ RemoveBlocks(w)
             \/ RemoveOldBlock(w) \/ RestoreOldBlock(w) \/ BlockNewDate(w)
    BY <2>5, CreateBookingAgenda, ApproveStepsAgenda, ApproveBookingAgenda, RemoveBlocksAgenda,
       AcceptStepsAgenda
  <2> QED
    BY <1>1, <2>1, <2>2, <2>3, <2>4, <2>5 DEF Step
<1>2. ASSUME NEW w \in Workers, Failure(w) PROVE AgendaInv'
  BY <1>2, FailureAgenda
<1>3. ASSUME NEW w \in Workers, NEW b \in BookingIds,
             \/ StartBooking(b) \/ CompleteBooking(b) \/ Cancel(w, b)
             \/ \E penalizable \in BOOLEAN : Decline(w, b, penalizable)
             \/ Expire(w, b)
      PROVE  AgendaInv'
  BY <1>3, RequestsAgenda
<1>4. ASSUME NEW w \in Workers, NEW b \in BookingIds,
             \/ Approve(w, b)
             \/ \E u \in Users : AcceptReschedule(w, b, u) \/ RejectReschedule(w, b, u)
             \/ \E u \in Users, date \in Dates : ProposeReschedule(b, u, date)
      PROVE  AgendaInv'
  <2>1. CASE Approve(w, b)
    BY <2>1, ApproveStepsAgenda
  <2>2. CASE \E u \in Users : AcceptReschedule(w, b, u) \/ RejectReschedule(w, b, u)
    BY <2>2, AsideSteps
  <2>3. CASE \E u \in Users, date \in Dates : ProposeReschedule(b, u, date)
    BY <2>3, DatesAgenda
  <2> QED
    BY <1>4, <2>1, <2>2, <2>3
<1>5. ASSUME NEW w \in Workers, NEW c \in Contractors, NEW p \in Professionals,
             NEW date \in Dates, CreateForContractor(w, c, p, date)
      PROVE  AgendaInv'
  BY <1>5, AsideSteps
<1> QED
  BY <1>1, <1>2, <1>3, <1>4, <1>5, Actions, TimeAgenda

\* The calendar is as AgendaInv says in every reachable state.
THEOREM AgendaInvariance == Spec => []AgendaInv
BY AgendaInitially, AgendaStep, BookingRowsInvariance, PTL DEF Spec

\* A booking that was approved and that nobody asked to move holds its slot until it
\* ends, for any number of handlers, bookings and failures (approve, cancel).
THEOREM ApprovedHoldsItsSlotAlways == Spec => []ApprovedHoldsItsSlot
<1>1. AgendaInv => ApprovedHoldsItsSlot
  BY DEF AgendaInv, AgendaOf, ApprovedHoldsItsSlot, Confirmed, Kept, Unmoved, Slot
<1> QED
  BY <1>1, AgendaInvariance, PTL

\* Two approved bookings of a professional that were never moved do not overlap: each
\* holds its slot, and the constraint of schedule_blocks keeps slots apart.
THEOREM UnmovedNeverOverlap == Spec => []UnmovedDontOverlap
<1>1. ASSUME AgendaInv, NEW a \in Unmoved, NEW b \in Unmoved, a # b, Confirmed(a), Confirmed(b),
             bookings[a].professional = bookings[b].professional
      PROVE  ~Overlap(bookings[a].dataServico, bookings[b].dataServico)
  <2>1. Slot(a) \in blocks /\ Slot(b) \in blocks
    BY <1>1 DEF AgendaInv, AgendaOf, Confirmed, Kept
  <2>2. /\ Slot(a).booking = a /\ Slot(b).booking = b
        /\ Slot(a).professional = Slot(b).professional
        /\ Slot(a).inicio = bookings[a].dataServico /\ Slot(b).inicio = bookings[b].dataServico
    BY <1>1 DEF Slot
  <2> QED
    BY <1>1, <2>1, <2>2 DEF AgendaInv, BlocksDisjoint
<1>2. AgendaInv => UnmovedDontOverlap
  BY <1>1 DEF UnmovedDontOverlap, Unmoved
<1> QED
  BY <1>2, AgendaInvariance, PTL

\* When nothing failed and no handler runs, a booking that ended, and that nobody had
\* proposed to move, holds no block (cancel, compensation of approve).
THEOREM EndedFreesTheAgenda == Spec => []EndedFreesAgenda
<1>1. ASSUME AgendaInv, RowsInv, Quiet, failures = 0, NEW k \in blocks, Ended(k.booking),
             k.booking \notin MovedBookings
      PROVE  FALSE
  <2>1. k.booking \in Unmoved /\ k \in BlocksOf(k.booking)
    BY <1>1, Durable DEF Unmoved, BlocksOf
  <2>2. bookings[k.booking].status \notin Kept
    BY <1>1 DEF Ended, Kept
  <2>3. PICK w \in Workers : Owns(w, k.booking) \/ Frees(w, k.booking)
    BY <1>1, <2>1, <2>2 DEF AgendaInv, AgendaOf
  <2> QED
    BY <1>1, <2>3, FreeIsIdle DEF Quiet, Owns, Frees, At
<1>2. AgendaInv /\ RowsInv => EndedFreesAgenda
  BY <1>1 DEF EndedFreesAgenda
<1> QED
  BY <1>2, AgendaInvariance, BookingRowsInvariance, PTL

--------------------------------------------------------------------------------
(* Penalties *)

\* Between the transition and the insert of its penalty.
Penalising(w) == task[w].step \in {"countPenalties", "createPenalty"}

\* Whoever is about to insert a penalty has declined the booking or let it expire, is
\* alone, finds no penalty of it, and has counted no more than there are.
PenaliserOf(w) ==
  LET b == task[w].booking IN
  /\ bookings[b].status = IF task[w].op = "expire" THEN "EXPIRADO" ELSE "RECUSADO"
  /\ task[w].professional = bookings[b].professional
  /\ \A k \in DOMAIN penalties : penalties[k].booking # b
  /\ \A v \in Workers : Penalising(v) /\ task[v].booking = b => v = w
  /\ task[w].step = "createPenalty" =>
       task[w].prior <= Cardinality(PenaltiesOf(task[w].professional))

PenaltyInv ==
  /\ PenalisedOnce /\ NeverOverPenalised
  /\ \A w \in Workers : Penalising(w) => PenaliserOf(w)

\* Rows that are declined or expired stay as they are.
Settled(b) == bookings[b].status \in {"RECUSADO", "EXPIRADO"}

LEMMA SettledStays ==
  ASSUME RowsInv, [Next]_vars
  PROVE  \A b \in BookingIds : Settled(b) =>
           /\ bookings'[b].status = bookings[b].status
           /\ bookings'[b].professional = bookings[b].professional
BY RowSteps DEF RowStep, StatusStep, canTransition, Settled

LEMMA PenaltyTyped ==
  ASSUME RowsInv, NEW k \in DOMAIN penalties
  PROVE  /\ k \in 1 .. Len(penalties) /\ penalties[k].booking \in BookingIds
         /\ penalties[k].motivo \in PenaltyReasons
<1>1. penalties \in Seq(Penalty) /\ DOMAIN penalties = 1 .. Len(penalties)
  BY RowsInvTypes
<1>2. penalties[k] \in Penalty
  BY <1>1
<1> QED
  BY <1>1, <1>2 DEF Penalty

\* What a penalty is weighed against: the earlier ones of its professional.
Before(k) == {j \in PenaltiesOf(bookings[penalties[k].booking].professional) : j < k}

\* Penalties stay those of the professional they were of.
LEMMA PenaltiesStay ==
  ASSUME RowsInv, [Next]_vars, PenaltyInv, NEW k \in DOMAIN penalties
  PROVE  /\ bookings'[penalties[k].booking].status = bookings[penalties[k].booking].status
         /\ bookings'[penalties[k].booking].professional
              = bookings[penalties[k].booking].professional
<1>1. penalties[k].booking \in BookingIds
  BY PenaltyTyped
<1>2. Settled(penalties[k].booking)
  BY DEF PenaltyInv, PenalisedOnce, Settled
<1> QED
  BY <1>1, <1>2, SettledStays

LEMMA PenaltiesSame ==
  ASSUME RowsInv, [Next]_vars, PenaltyInv, UNCHANGED penalties
  PROVE  PenalisedOnce' /\ NeverOverPenalised' /\ \A p : PenaltiesOf(p)' = PenaltiesOf(p)
<1>1. ASSUME NEW p PROVE PenaltiesOf(p)' = PenaltiesOf(p)
  BY PenaltiesStay DEF PenaltiesOf
<1>2. PenalisedOnce'
  BY PenaltiesStay DEF PenaltyInv, PenalisedOnce
<1>3. NeverOverPenalised'
  <2>1. ASSUME NEW k \in DOMAIN penalties PROVE Before(k)' = Before(k)
    BY PenaltiesStay DEF Before, PenaltiesOf
  <2>2. \A k \in DOMAIN penalties :
          penalties[k].pontos <= escalatePoints(penalties[k].motivo, Cardinality(Before(k)))
    BY DEF PenaltyInv, NeverOverPenalised, Before
  <2>3. \A k \in DOMAIN penalties' :
          penalties'[k].pontos <= escalatePoints(penalties'[k].motivo, Cardinality(Before(k)'))
    BY <2>1, <2>2
  <2> QED
    BY <2>3 DEF NeverOverPenalised, Before
<1> QED
  BY <1>1, <1>2, <1>3

\* A penaliser that did not move still is one, alone unless somebody joined.
LEMMA PenaliserStays ==
  ASSUME RowsInv, [Next]_vars, PenaltyInv, UNCHANGED penalties, NEW v \in Workers,
         Penalising(v), task'[v] = task[v],
         \A u \in Workers \ {v} : Penalising(u)' => task'[u].booking # task[v].booking
  PROVE  PenaliserOf(v)'
<1>1. PenaliserOf(v) /\ task[v].booking \in BookingIds
  BY DEF PenaltyInv, RowsInv, HandlerValid, Penalising
<1>2. Settled(task[v].booking)
  BY <1>1 DEF PenaliserOf, Settled
<1>3. PenaltiesOf(task[v].professional)' = PenaltiesOf(task[v].professional)
  BY PenaltiesSame DEF PenaltiesOf
<1> QED
  BY <1>1, <1>2, <1>3, SettledStays DEF PenaliserOf, Penalising

\* A step that inserts no penalty and starts none.
LEMMA PenaltyAside ==
  ASSUME PenaltyInv, RowsInv, [Next]_vars, UNCHANGED penalties,
         \A v \in Workers : Penalising(v)' => task'[v] = task[v]
  PROVE  PenaltyInv'
<1>1. ASSUME NEW v \in Workers, Penalising(v)' PROVE PenaliserOf(v)'
  <2>1. task'[v] = task[v] /\ Penalising(v)
    BY <1>1 DEF Penalising
  <2>2. ASSUME NEW u \in Workers \ {v}, Penalising(u)' PROVE task'[u].booking # task[v].booking
    <3>1. task'[u] = task[u] /\ Penalising(u)
      BY <2>2 DEF Penalising
    <3> QED
      BY <2>1, <2>2, <3>1 DEF PenaltyInv, PenaliserOf
  <2> QED
    BY <2>1, <2>2, PenaliserStays
<1> QED
  BY <1>1, PenaltiesSame DEF PenaltyInv

LEMMA HandlerAside ==
  ASSUME PenaltyInv, RowsInv, [Next]_vars, UNCHANGED penalties,
         NEW w \in Workers, OthersWait(w), ~Penalising(w)'
  PROVE  PenaltyInv'
<1>1. \A v \in Workers : Penalising(v)' => task'[v] = task[v]
  BY DEF OthersWait, Penalising
<1> QED
  BY <1>1, PenaltyAside

\* A decline or an expiry that is to be penalised: nobody penalised the booking.
LEMMA StartsPenalty ==
  ASSUME PenaltyInv, RowsInv, [Next]_vars, UNCHANGED penalties, NEW w \in Workers,
         NEW b \in BookingIds, NEW t \in Task, Start(w, t), t.booking = b,
         t.step = "countPenalties", t.professional = bookings[b].professional,
         \/ t.op = "decline" /\ Transition(b, "PENDENTE", "RECUSADO")
         \/ t.op = "expire" /\ Transition(b, "PENDENTE", "EXPIRADO")
  PROVE  PenaltyInv'
<1>1. OthersWait(w) /\ task'[w] = t
  BY Moves, RowsInvTypes
<1>2. /\ bookings[b].status = "PENDENTE"
      /\ bookings'[b].status = IF t.op = "expire" THEN "EXPIRADO" ELSE "RECUSADO"
      /\ bookings'[b].professional = t.professional
  BY TransitionMoves DEF Statuses
<1>3. \A k \in DOMAIN penalties : penalties[k].booking # b
  BY <1>2 DEF PenaltyInv, PenalisedOnce
<1>4. \A v \in Workers : Penalising(v) => task[v].booking # b
  BY <1>2 DEF PenaltyInv, PenaliserOf
<1>5. PenaliserOf(w)'
  <2>1. \A v \in Workers : Penalising(v)' /\ task'[v].booking = b => v = w
    BY <1>1, <1>4 DEF OthersWait, Penalising
  <2> QED
    BY <1>1, <1>2, <1>3, <2>1 DEF PenaliserOf
<1>6. ASSUME NEW v \in Workers, v # w, Penalising(v)' PROVE PenaliserOf(v)'
  <2>1. task'[v] = task[v] /\ Penalising(v)
    BY <1>1, <1>6 DEF OthersWait, Penalising
  <2>2. ASSUME NEW u \in Workers \ {v}, Penalising(u)' PROVE task'[u].booking # task[v].booking
    <3>1. CASE u = w
      BY <1>1, <1>4, <2>1, <3>1
    <3>2. CASE u # w
      <4>1. task'[u] = task[u] /\ Penalising(u)
        BY <1>1, <2>2, <3>2 DEF OthersWait, Penalising
      <4> QED
        BY <2>1, <2>2, <4>1 DEF PenaltyInv, PenaliserOf
    <3> QED
      BY <3>1, <3>2
  <2> QED
    BY <2>1, <2>2, PenaliserStays
<1> QED
  BY <1>5, <1>6, PenaltiesSame DEF PenaltyInv

LEMMA CountPenaltiesKeeps ==
  ASSUME PenaltyInv, RowsInv, [Next]_vars, NEW w \in Workers, CountPenalties(w)
  PROVE  PenaltyInv'
<1> DEFINE n == Cardinality(PenaltiesOf(task[w].professional))
           t == Doing(task[w].op, "createPenalty", task[w].booking, task[w].professional, 0, n)
<1>1. n \in Nat /\ task[w] \in Task
  BY PenaltiesFinite, RowsInvTypes DEF TaskTyped
<1>2. /\ t \in Task /\ t.op = task[w].op /\ t.step = "createPenalty" /\ t.prior = n
      /\ t.booking = task[w].booking /\ t.professional = task[w].professional
  BY <1>1 DEF Doing, Task, Steps
<1>3. Start(w, t) /\ UNCHANGED <<penalties, bookings>> /\ Penalising(w)
  BY DEF CountPenalties, Penalising
<1> HIDE DEF t
<1>4. OthersWait(w) /\ task'[w] = t
  BY <1>2, <1>3, Moves, RowsInvTypes
<1>5. PenaliserOf(w)
  BY <1>3 DEF PenaltyInv
<1>6. \A v \in Workers : Penalising(v)' => Penalising(v) /\ task'[v].booking = task[v].booking
  BY <1>2, <1>3, <1>4 DEF OthersWait, Penalising
<1>7. PenaliserOf(w)'
  <2>1. \A p : PenaltiesOf(p)' = PenaltiesOf(p)
    BY PenaltiesSame, <1>3
  <2>2. /\ task'[w].op = task[w].op /\ task'[w].step = "createPenalty" /\ task'[w].prior = n
        /\ task'[w].booking = task[w].booking
        /\ task'[w].professional = task[w].professional
    BY <1>2, <1>4
  <2>3. Cardinality(PenaltiesOf(task[w].professional)) = Cardinality(PenaltiesOf(task[w].professional))'
    BY <1>3, <2>2 DEF PenaltiesOf
  <2>4. \A v \in Workers : Penalising(v)' /\ task'[v].booking = task[w].booking => v = w
    BY <1>5, <1>6 DEF PenaliserOf
  <2> QED
    BY <1>1, <1>3, <1>5, <2>2, <2>3, <2>4 DEF PenaliserOf
<1>8. ASSUME NEW v \in Workers, v # w, Penalising(v)' PROVE PenaliserOf(v)'
  <2>1. task'[v] = task[v] /\ Penalising(v)
    BY <1>4, <1>8 DEF OthersWait, Penalising
  <2>2. ASSUME NEW u \in Workers \ {v}, Penalising(u)' PROVE task'[u].booking # task[v].booking
    BY <1>6, <2>1, <2>2 DEF PenaltyInv, PenaliserOf
  <2> QED
    BY <1>3, <2>1, <2>2, PenaliserStays
<1> QED
  BY <1>3, <1>7, <1>8, PenaltiesSame DEF PenaltyInv

\* More earlier penalties never make a penalty lighter.
LEMMA EscalationGrows ==
  ASSUME NEW motivo \in PenaltyReasons, NEW m \in Nat, NEW n \in Nat, m <= n
  PROVE  escalatePoints(motivo, m) <= escalatePoints(motivo, n)
<1>1. BASE_POINTS(motivo) = 1 \/ BASE_POINTS(motivo) = 2
  BY DEF BASE_POINTS
<1>2. /\ (IF m + 1 < 3 THEN m + 1 ELSE 3) <= (IF n + 1 < 3 THEN n + 1 ELSE 3)
      /\ (IF m + 1 < 3 THEN m + 1 ELSE 3) \in Nat /\ (IF n + 1 < 3 THEN n + 1 ELSE 3) \in Nat
  OBVIOUS
<1> QED
  BY <1>1, <1>2 DEF escalatePoints

\* A row inserted at the end leaves the rows before it where they were.
LEMMA LastAppended ==
  ASSUME NEW S, NEW s \in Seq(S), NEW e \in S
  PROVE  /\ Len(s) \in Nat /\ DOMAIN s = 1 .. Len(s)
         /\ DOMAIN Append(s, e) = 1 .. (Len(s) + 1)
         /\ \A k \in 1 .. Len(s) : Append(s, e)[k] = s[k]
         /\ Append(s, e)[Len(s) + 1] = e
<1>1. Len(s) \in Nat /\ DOMAIN s = 1 .. Len(s)
  OBVIOUS
<1>2. Append(s, e) \in Seq(S) /\ Len(Append(s, e)) = Len(s) + 1
  OBVIOUS
<1>3. DOMAIN Append(s, e) = 1 .. (Len(s) + 1)
  BY <1>2
<1>4. \A k \in 1 .. Len(s) : Append(s, e)[k] = s[k]
  OBVIOUS
<1>5. Append(s, e)[Len(s) + 1] = e
  OBVIOUS
<1> QED
  BY <1>1, <1>3, <1>4, <1>5

LEMMA CreatePenaltyKeeps ==
  ASSUME PenaltyInv, RowsInv, [Next]_vars, NEW w \in Workers, CreatePenalty(w)
  PROVE  PenaltyInv'
<1>1. PICK b \in BookingIds, p \in Professionals \cup {NoUser}, n \in Nat, motivo \in PenaltyReasons :
        /\ b = task[w].booking /\ p = task[w].professional /\ n = task[w].prior
        /\ motivo = IF task[w].op = "expire" THEN "NAO_RESPONDEU" ELSE "RECUSA_INJUSTIFICADA"
  <2>1. task[w] \in Task /\ task[w].booking \in BookingIds
    BY RowsInvTypes DEF RowsInv, HandlerValid, CreatePenalty, TaskTyped
  <2> QED
    BY <2>1 DEF Task, PenaltyReasons
<1> DEFINE new == [booking |-> b, motivo |-> motivo, pontos |-> escalatePoints(motivo, n)]
<1>2. /\ penalties' = Append(penalties, new) /\ UNCHANGED bookings
      /\ Finish(w) \/ Goto(w, "completeJob")
  BY <1>1 DEF CreatePenalty
<1>3. new.booking = b /\ new.motivo = motivo /\ new.pontos = escalatePoints(motivo, n)
  OBVIOUS
<1> HIDE DEF new
<1>4. PenaliserOf(w)
  BY DEF PenaltyInv, CreatePenalty, Penalising
<1>5. /\ bookings[b].status = (IF motivo = "NAO_RESPONDEU" THEN "EXPIRADO" ELSE "RECUSADO")
      /\ bookings[b].professional = p /\ n <= Cardinality(PenaltiesOf(p))
      /\ \A k \in DOMAIN penalties : penalties[k].booking # b
      /\ \A v \in Workers : Penalising(v) /\ task[v].booking = b => v = w
  BY <1>1, <1>4 DEF PenaliserOf, CreatePenalty
<1>6. PICK len \in Nat :
        /\ len = Len(penalties) /\ DOMAIN penalties = 1 .. len /\ DOMAIN penalties' = 1 .. (len + 1)
        /\ \A k \in 1 .. len : penalties'[k] = penalties[k]
        /\ penalties'[len + 1] = new
  <2>1. new \in Penalty /\ penalties \in Seq(Penalty)
    BY EscalatedPoints, RowsInvTypes DEF Penalty, new
  <2>2. penalties' = Append(penalties, new)
    BY <1>2
  <2>3. Len(penalties) \in Nat
    BY <2>1, LastAppended
  <2>4. /\ DOMAIN penalties = 1 .. Len(penalties) /\ DOMAIN penalties' = 1 .. (Len(penalties) + 1)
        /\ \A k \in 1 .. Len(penalties) : penalties'[k] = penalties[k]
        /\ penalties'[Len(penalties) + 1] = new
    BY <2>1, <2>2, LastAppended
  <2> QED
    BY <2>3, <2>4
<1>7. OthersWait(w) /\ ~Penalising(w)'
  BY <1>2, Went, Finished DEF Penalising, Steps
<1>8. PenalisedOnce'
  <2>1. PenalisedOnce
    BY DEF PenaltyInv
  <2>2. \A k \in DOMAIN penalties' : k \in 1 .. len \/ k = len + 1
    BY <1>6
  <2>3. \A k \in DOMAIN penalties' : bookings'[penalties'[k].booking].status =
          IF penalties'[k].motivo = "NAO_RESPONDEU" THEN "EXPIRADO" ELSE "RECUSADO"
    BY <1>2, <1>3, <1>5, <1>6, <2>1, <2>2 DEF PenalisedOnce
  <2>4. \A j, k \in DOMAIN penalties' : penalties'[j].booking = penalties'[k].booking => j = k
    BY <1>3, <1>5, <1>6, <2>1, <2>2 DEF PenalisedOnce
  <2> QED
    BY <2>3, <2>4 DEF PenalisedOnce
<1>9. \A q : /\ PenaltiesOf(q) \subseteq PenaltiesOf(q)'
             /\ \A k \in 1 .. len : {j \in PenaltiesOf(q)' : j < k} = {j \in PenaltiesOf(q) : j < k}
             /\ {j \in PenaltiesOf(q)' : j < len + 1} = PenaltiesOf(q)
  <2> TAKE q
  <2>1. ASSUME NEW j PROVE (j \in PenaltiesOf(q)' /\ j \in 1 .. len) <=> j \in PenaltiesOf(q)
    BY <1>2, <1>6 DEF PenaltiesOf
  <2>2. PenaltiesOf(q)' \subseteq 1 .. (len + 1) /\ PenaltiesOf(q) \subseteq 1 .. len
    BY <1>6 DEF PenaltiesOf
  <2>3. PenaltiesOf(q) \subseteq PenaltiesOf(q)'
    BY <2>1
  <2>4. ASSUME NEW k \in 1 .. (len + 1)
        PROVE  {j \in PenaltiesOf(q)' : j < k} = {j \in PenaltiesOf(q) : j < k}
    <3>1. ASSUME NEW j PROVE (j \in PenaltiesOf(q)' /\ j < k) <=> (j \in PenaltiesOf(q) /\ j < k)
      <4>1. j \in 1 .. (len + 1) /\ j < k => j \in 1 .. len
        OBVIOUS
      <4> QED
        BY <2>1, <2>2, <4>1
    <3> QED
      BY <3>1
  <2>5. {j \in PenaltiesOf(q) : j < len + 1} = PenaltiesOf(q)
    BY <2>2
  <2> QED
    BY <2>3, <2>4, <2>5
<1>10. NeverOverPenalised'
  <2>1. ASSUME NEW k \in DOMAIN penalties'
        PROVE  penalties'[k].pontos <= escalatePoints(penalties'[k].motivo, Cardinality(Before(k)'))
    <3>1. CASE k \in 1 .. len
      <4>1. k \in DOMAIN penalties /\ penalties'[k] = penalties[k]
        BY <1>6, <3>1
      <4>2. PICK q : q = bookings[penalties[k].booking].professional
        OBVIOUS
      <4>3. Before(k)' = {j \in PenaltiesOf(q)' : j < k} /\ Before(k) = {j \in PenaltiesOf(q) : j < k}
        BY <1>2, <4>1, <4>2 DEF Before, PenaltiesOf
      <4>4. Before(k)' = Before(k)
        BY <1>9, <3>1, <4>3
      <4> QED
        BY <4>1, <4>4 DEF PenaltyInv, NeverOverPenalised, Before
    <3>2. CASE k = len + 1
      <4>1. penalties'[k] = new
        BY <1>6, <3>2
      <4>2. Before(k)' = {j \in PenaltiesOf(p)' : j < len + 1}
        BY <1>2, <1>3, <1>5, <3>2, <4>1 DEF Before, PenaltiesOf
      <4>3. Before(k)' = PenaltiesOf(p)
        BY <1>9, <4>2
      <4>4. escalatePoints(motivo, n) <= escalatePoints(motivo, Cardinality(PenaltiesOf(p)))
        BY <1>5, PenaltiesFinite, EscalationGrows, RowsInvTypes
      <4> QED
        BY <1>3, <4>1, <4>3, <4>4
    <3> QED
      BY <1>6, <3>1, <3>2
  <2> QED
    BY <2>1 DEF NeverOverPenalised, Before
<1>11. ASSUME NEW v \in Workers, Penalising(v)' PROVE PenaliserOf(v)'
  <2>1. v # w /\ task'[v] = task[v] /\ Penalising(v) /\ PenaliserOf(v)
    BY <1>7, <1>11 DEF OthersWait, Penalising, PenaltyInv
  <2>2. task[v].booking # b
    BY <1>5, <2>1
  <2>3. \A k \in DOMAIN penalties' : penalties'[k].booking # task[v].booking
    BY <1>3, <1>6, <2>1, <2>2 DEF PenaliserOf
  <2>4. \A u \in Workers : Penalising(u)' /\ task'[u].booking = task[v].booking => u = v
    <3>1. \A u \in Workers : Penalising(u)' => task'[u] = task[u] /\ Penalising(u)
      BY <1>7 DEF OthersWait, Penalising
    <3> QED
      BY <2>1, <3>1 DEF PenaliserOf
  <2>5. task[v].step = "createPenalty" =>
          task[v].prior <= Cardinality(PenaltiesOf(task[v].professional)')
    <3> HAVE task[v].step = "createPenalty"
    <3>0. PICK q : q = task[v].professional
      OBVIOUS
    <3>1. PICK m \in Nat : q = task[v].professional /\ m = task[v].prior
      BY <3>0, RowsInvTypes DEF TaskTyped, Task
    <3>2. PenaltiesOf(q) \subseteq PenaltiesOf(q)' /\ IsFiniteSet(PenaltiesOf(q)')
      <4>1. PenaltiesOf(q)' \subseteq 1 .. (len + 1)
        BY <1>6 DEF PenaltiesOf
      <4>2. IsFiniteSet(1 .. (len + 1))
        BY FS_Interval
      <4>3. IsFiniteSet(PenaltiesOf(q)')
        BY <4>1, <4>2, FS_Subset
      <4> QED
        BY <1>9, <4>3
    <3>3. /\ Cardinality(PenaltiesOf(q)) <= Cardinality(PenaltiesOf(q)')
          /\ Cardinality(PenaltiesOf(q)) \in Nat /\ Cardinality(PenaltiesOf(q)') \in Nat
      BY <3>2, FS_Subset, FS_CardinalityType
    <3>4. m <= Cardinality(PenaltiesOf(q))
      BY <2>1, <3>1 DEF PenaliserOf
    <3>5. PenaltiesOf(task[v].professional)' = PenaltiesOf(q)'
      BY <2>1, <3>1 DEF PenaltiesOf
    <3> QED
      BY <3>1, <3>3, <3>4, <3>5
  <2> QED
    BY <1>2, <2>1, <2>3, <2>4, <2>5 DEF PenaliserOf
<1> QED
  BY <1>8, <1>10, <1>11 DEF PenaltyInv

LEMMA Started ==
  ASSUME RowsInv, NEW w \in Workers, NEW t, Start(w, t)
  PROVE  OthersWait(w) /\ task'[w] = t
BY RowsInvTypes DEF TaskTyped, Start, OthersWait

\* What a step does to the handlers that create a booking or insert a penalty: one
\* starts or goes on, or nobody enters those steps.
AsideStep ==
  /\ UNCHANGED penalties
  /\ \A v \in Workers : \/ task'[v] = task[v]
                        \/ task'[v].step \notin {"createBooking", "countPenalties", "createPenalty"}

PenaltyStart(w, b) ==
  /\ UNCHANGED penalties
  /\ \E t \in Task :
       /\ Start(w, t) /\ t.booking = b /\ t.step = "countPenalties"
       /\ t.professional = bookings[b].professional
       /\ \/ t.op = "decline" /\ Transition(b, "PENDENTE", "RECUSADO")
          \/ t.op = "expire" /\ Transition(b, "PENDENTE", "EXPIRADO")

LEMMA OneAside ==
  ASSUME NEW w \in Workers, OthersWait(w), UNCHANGED penalties,
         task'[w].step \notin {"createBooking", "countPenalties", "createPenalty"}
  PROVE  AsideStep
BY DEF OthersWait, AsideStep

LEMMA StepsAside ==
  ASSUME RowsInv, NEW w \in Workers,
         Step(w) \/ Failure(w), ~CountPenalties(w), ~CreatePenalty(w)
  PROVE  AsideStep
<1>1. UNCHANGED penalties /\
      \/ Finish(w)
      \/ \E step \in {"scheduleExpiry", "block", "approveBooking", "removeBlocks", "checkNewDate",
                      "restoreOldBlock", "blockNewDate", "applyReschedule"} : Goto(w, step)
  BY DEF Step, Failure, CreateBooking, ScheduleExpiry, CheckConflict, BlockSlot, ApproveBooking,
         RemoveBlocks, RemoveOldBlock, CheckNewDate, RestoreOldBlock, BlockNewDate,
         ApplyReschedule, ClearReschedule, CompleteJob
<1> QED
  BY <1>1, Went, Finished, OneAside DEF Steps

LEMMA RequestsAside ==
  ASSUME RowsInv, NEW w \in Workers, NEW b \in BookingIds,
         \/ Approve(w, b)
         \/ \E u \in Users : AcceptReschedule(w, b, u) \/ RejectReschedule(w, b, u)
         \/ StartBooking(b) \/ CompleteBooking(b) \/ Cancel(w, b)
         \/ \E penalizable \in BOOLEAN : Decline(w, b, penalizable)
         \/ \E u \in Users, date \in Dates : ProposeReschedule(b, u, date)
         \/ Expire(w, b)
  PROVE  AsideStep \/ PenaltyStart(w, b)
<1>0. UNCHANGED penalties /\ bookings[b] \in BookingRequest
  BY RowsInvTypes DEF Approve, AcceptReschedule, RejectReschedule, StartBooking, CompleteBooking,
                      Cancel, Decline, ProposeReschedule, Expire
<1>1. CASE UNCHANGED task
  BY <1>0, <1>1 DEF AsideStep
<1>2. ASSUME NEW t, Start(w, t), t.step \notin {"createBooking", "countPenalties", "createPenalty"}
      PROVE  AsideStep
  BY <1>0, <1>2, Started, OneAside
<1>3. CASE Approve(w, b)
  BY <1>2, <1>3 DEF Approve, Doing
<1>4. CASE \E u \in Users : AcceptReschedule(w, b, u) \/ RejectReschedule(w, b, u)
  BY <1>2, <1>4 DEF AcceptReschedule, RejectReschedule, Doing
<1>5. CASE Cancel(w, b)
  BY <1>1, <1>2, <1>5 DEF Cancel, Doing
<1>6. ASSUME NEW penalizable \in BOOLEAN, Decline(w, b, penalizable)
      PROVE  AsideStep \/ PenaltyStart(w, b)
  <2> DEFINE t == Doing("decline", "countPenalties", b, bookings[b].professional, 0, 0)
  <2>1. /\ t \in Task /\ t.booking = b /\ t.op = "decline" /\ t.step = "countPenalties"
        /\ t.professional = bookings[b].professional
    BY <1>0 DEF Doing, Task, Ops, Steps, BookingRequest
  <2>2. Transition(b, "PENDENTE", "RECUSADO") /\ (UNCHANGED task \/ Start(w, t))
    BY <1>6 DEF Decline
  <2> HIDE DEF t
  <2> QED
    BY <1>0, <1>1, <2>1, <2>2 DEF PenaltyStart
<1>7. CASE Expire(w, b)
  <2>1. PICK step \in {"countPenalties", "completeJob"} :
          /\ \/ Transition(b, "PENDENTE", "EXPIRADO")
             \/ step = "completeJob"
          /\ Start(w, Doing("expire", step, b, bookings[b].professional, 0, 0))
    BY <1>7 DEF Expire
  <2> DEFINE t == Doing("expire", step, b, bookings[b].professional, 0, 0)
  <2>2. /\ t \in Task /\ t.booking = b /\ t.op = "expire" /\ t.step = step
        /\ t.professional = bookings[b].professional
    BY <1>0 DEF Doing, Task, Ops, Steps, BookingRequest
  <2>3. Start(w, t)
    BY <2>1
  <2> HIDE DEF t
  <2>4. CASE step = "completeJob"
    BY <1>2, <2>2, <2>3, <2>4
  <2>5. CASE step = "countPenalties"
    BY <1>0, <2>1, <2>2, <2>3, <2>5 DEF PenaltyStart
  <2> QED
    BY <2>1, <2>4, <2>5
<1> QED
  BY <1>1, <1>3, <1>4, <1>5, <1>6, <1>7 DEF StartBooking, CompleteBooking, ProposeReschedule

\* A request that starts: its handler is to insert the row.
LEMMA CreateStarts ==
  ASSUME RowsInv, NEW w \in Workers, NEW c \in Contractors, NEW p \in Professionals,
         NEW date \in Dates, CreateForContractor(w, c, p, date)
  PROVE  /\ OthersWait(w) /\ task'[w].step = "createBooking" /\ task'[w].contractor = c
         /\ UNCHANGED <<bookings, penalties>>
<1>1. PICK b \in BookingIds :
        Start(w, [op |-> "create", step |-> "createBooking", booking |-> b, contractor |-> c,
                  professional |-> p, date |-> date, antiga |-> 0, prior |-> 0])
  BY DEF CreateForContractor
<1> QED
  BY <1>1, Started DEF CreateForContractor

LEMMA PenaltyInitially == ASSUME Init PROVE PenaltyInv
<1>1. penalties = <<>> /\ DOMAIN penalties = {} /\ \A w \in Workers : ~Penalising(w)
  BY IdleTyped DEF Init, Penalising
<1> QED
  BY <1>1 DEF PenaltyInv, PenalisedOnce, NeverOverPenalised

LEMMA PenaltyStep == ASSUME PenaltyInv, RowsInv, [Next]_vars PROVE PenaltyInv'
<1>1. CASE AsideStep
  BY <1>1, PenaltyAside DEF AsideStep, Penalising
<1>2. ASSUME NEW w \in Workers, Step(w) \/ Failure(w) PROVE PenaltyInv'
  BY <1>1, <1>2, StepsAside, CountPenaltiesKeeps, CreatePenaltyKeeps
<1>3. ASSUME NEW w \in Workers, NEW b \in BookingIds, PenaltyStart(w, b) PROVE PenaltyInv'
  BY <1>3, StartsPenalty DEF PenaltyStart
<1>4. ASSUME NEW w \in Workers, NEW c \in Contractors, NEW p \in Professionals,
             NEW date \in Dates, CreateForContractor(w, c, p, date)
      PROVE  PenaltyInv'
  BY <1>4, CreateStarts, HandlerAside DEF Penalising
<1>5. Tick \/ UNCHANGED vars => AsideStep
  BY DEF Tick, vars, AsideStep
<1> QED
  BY <1>1, <1>2, <1>3, <1>4, <1>5, Actions, RequestsAside

\* PenaltyInv holds in every reachable state: whoever is between the transition of a
\* booking and its penalty (decline, booking-expiry processor) is alone with it.
THEOREM PenaltyInvariance == Spec => []PenaltyInv
BY PenaltyInitially, PenaltyStep, BookingRowsInvariance, PTL DEF Spec

\* A penalty is for a booking that was declined or expired, at most one for each, also
\* when the expiry job runs again (penalty.service.ts, booking-expiry processor).
THEOREM PenalisedOnceAlways == Spec => []PenalisedOnce
<1>1. PenaltyInv => PenalisedOnce
  BY DEF PenaltyInv
<1> QED
  BY <1>1, PenaltyInvariance, PTL

\* No penalty weighs more than the earlier ones justify, however many are inserted at
\* once (penalty.service.ts counts, then inserts).
THEOREM NeverOverPenalisedAlways == Spec => []NeverOverPenalised
<1>1. PenaltyInv => NeverOverPenalised
  BY DEF PenaltyInv
<1> QED
  BY <1>1, PenaltyInvariance, PTL

--------------------------------------------------------------------------------
(* The limit of pending requests *)

CreatorsOf(c) == {w \in Workers : Creating(w) /\ task[w].contractor = c}

LimitInv ==
  \A c \in Contractors :
    Cardinality(Pending(c)) + Cardinality(CreatorsOf(c))
      <= MAX_PENDING_PER_ESPECIALIDADE + Cardinality(Workers) - 1

LEMMA LimitTyped ==
  /\ IsFiniteSet(Workers) /\ Cardinality(Workers) \in Nat /\ Cardinality(Workers) >= 1
  /\ MAX_PENDING_PER_ESPECIALIDADE \in Nat
  /\ \A S : S \subseteq Workers =>
       /\ IsFiniteSet(S) /\ Cardinality(S) \in Nat /\ Cardinality(S) <= Cardinality(Workers)
  /\ \A S : S \subseteq BookingIds => IsFiniteSet(S) /\ Cardinality(S) \in Nat
<1>1. IsFiniteSet(BookingIds)
  BY FS_Interval, BookingNumbersAssumption DEF BookingIds
<1>2. IsFiniteSet(Workers) /\ Cardinality(Workers) \in Nat /\ Cardinality(Workers) # 0
  BY BookingWorkersAssumption, FS_CardinalityType, FS_EmptySet
<1>3. ASSUME NEW S, S \subseteq Workers
      PROVE  IsFiniteSet(S) /\ Cardinality(S) \in Nat /\ Cardinality(S) <= Cardinality(Workers)
  BY <1>2, <1>3, FS_Subset, FS_CardinalityType
<1>4. ASSUME NEW S, S \subseteq BookingIds PROVE IsFiniteSet(S) /\ Cardinality(S) \in Nat
  BY <1>1, <1>4, FS_Subset, FS_CardinalityType
<1> QED
  BY <1>2, <1>3, <1>4, BookingNumbersAssumption

LEMMA Shrinks ==
  ASSUME LimitInv, NEW c \in Contractors,
         Pending(c)' \subseteq Pending(c), CreatorsOf(c)' \subseteq CreatorsOf(c)
  PROVE  Cardinality(Pending(c)') + Cardinality(CreatorsOf(c)')
           <= MAX_PENDING_PER_ESPECIALIDADE + Cardinality(Workers) - 1
<1>1. Pending(c) \subseteq BookingIds /\ CreatorsOf(c) \subseteq Workers
  BY DEF Pending, CreatorsOf
<1>2. IsFiniteSet(Pending(c)) /\ IsFiniteSet(CreatorsOf(c))
  BY <1>1, LimitTyped
<1>3. /\ Cardinality(Pending(c)') <= Cardinality(Pending(c))
      /\ Cardinality(CreatorsOf(c)') <= Cardinality(CreatorsOf(c))
  BY <1>2, FS_Subset
<1>4. /\ Cardinality(Pending(c)') \in Nat /\ Cardinality(Pending(c)) \in Nat
      /\ Cardinality(CreatorsOf(c)') \in Nat /\ Cardinality(CreatorsOf(c)) \in Nat
  BY <1>1, LimitTyped
<1> QED
  BY <1>3, <1>4, LimitTyped DEF LimitInv

\* Unless a row is inserted, the pending ones were pending before.
LEMMA PendingShrinks ==
  ASSUME RowsInv, [Next]_vars, NEW c \in Contractors,
         \A w \in Workers : CreateBooking(w) => task[w].contractor # c
  PROVE  Pending(c)' \subseteq Pending(c)
<1> SUFFICES ASSUME NEW b \in BookingIds, bookings'[b].status = "PENDENTE",
                    bookings'[b].contractor = c
             PROVE  bookings[b].status = "PENDENTE" /\ bookings[b].contractor = c
  BY DEF Pending
<1>1. RowStep(b)
  BY RowSteps
<1>2. bookings[b].status # "AUSENTE"
  <2>1. ASSUME NEW w \in Workers, CreateBooking(w), b = task[w].booking PROVE FALSE
    BY <2>1, CreateBookingMoves
  <2> QED
    BY <1>1, <2>1 DEF RowStep
<1>3. bookings[b].status = "PENDENTE"
  BY <1>1, <1>2 DEF RowStep, StatusStep, canTransition
<1> QED
  BY <1>1, <1>2, <1>3 DEF RowStep

LEMMA CreateStartsLimit ==
  ASSUME LimitInv, RowsInv, [Next]_vars, NEW w \in Workers, NEW c0 \in Contractors,
         NEW p \in Professionals, NEW date \in Dates, CreateForContractor(w, c0, p, date)
  PROVE  LimitInv'
<1>1. /\ OthersWait(w) /\ task'[w].contractor = c0 /\ UNCHANGED bookings
      /\ ~(Cardinality(Pending(c0)) >= MAX_PENDING_PER_ESPECIALIDADE)
  BY CreateStarts DEF CreateForContractor, exceedsPendingLimit
<1>2. \A c : Pending(c)' = Pending(c)
  BY <1>1 DEF Pending
<1> SUFFICES ASSUME NEW c \in Contractors
             PROVE  Cardinality(Pending(c)') + Cardinality(CreatorsOf(c)')
                      <= MAX_PENDING_PER_ESPECIALIDADE + Cardinality(Workers) - 1
  BY DEF LimitInv
<1>3. CASE c = c0
  <2>1. Cardinality(CreatorsOf(c)') \in Nat /\ Cardinality(CreatorsOf(c)') <= Cardinality(Workers)
    <3>1. CreatorsOf(c)' \subseteq Workers
      BY DEF CreatorsOf
    <3> QED
      BY <3>1, LimitTyped
  <2>2. Cardinality(Pending(c)) \in Nat
    <3>1. Pending(c) \subseteq BookingIds
      BY DEF Pending
    <3> QED
      BY <3>1, LimitTyped
  <2>3. Pending(c)' = Pending(c) /\ ~(Cardinality(Pending(c)) >= MAX_PENDING_PER_ESPECIALIDADE)
    BY <1>1, <1>2, <1>3
  <2> QED
    BY <2>1, <2>2, <2>3, LimitTyped
<1>4. CASE c # c0
  <2>1. CreatorsOf(c)' \subseteq CreatorsOf(c)
    BY <1>1, <1>4 DEF CreatorsOf, Creating, At, OthersWait
  <2> QED
    BY <1>2, <2>1, Shrinks
<1> QED
  BY <1>3, <1>4

LEMMA CreateBookingLimit ==
  ASSUME LimitInv, RowsInv, [Next]_vars, NEW w \in Workers, CreateBooking(w)
  PROVE  LimitInv'
<1>1. PICK b \in BookingIds :
        /\ b = task[w].booking /\ bookings[b].status = "AUSENTE"
        /\ bookings'[b].contractor = task[w].contractor
        /\ \A d \in BookingIds \ {b} : bookings'[d] = bookings[d]
  BY CreateBookingMoves
<1>2. OthersWait(w) /\ task'[w].step = "scheduleExpiry" /\ Creating(w)
  BY Went DEF CreateBooking, Creating, Steps
<1> SUFFICES ASSUME NEW c \in Contractors
             PROVE  Cardinality(Pending(c)') + Cardinality(CreatorsOf(c)')
                      <= MAX_PENDING_PER_ESPECIALIDADE + Cardinality(Workers) - 1
  BY DEF LimitInv
<1>3. CreatorsOf(c)' \subseteq CreatorsOf(c) \ {w}
  BY <1>2 DEF CreatorsOf, Creating, At, OthersWait
<1>4. CASE task[w].contractor # c
  <2>1. Pending(c)' \subseteq Pending(c)
    BY <1>1, <1>4 DEF Pending
  <2> QED
    BY <1>3, <2>1, Shrinks
<1>5. CASE task[w].contractor = c
  <2>1. w \in CreatorsOf(c) /\ CreatorsOf(c) \subseteq Workers
    BY <1>2, <1>5 DEF CreatorsOf
  <2>2. Pending(c)' \subseteq Pending(c) \cup {b} /\ Pending(c) \subseteq BookingIds
    BY <1>1 DEF Pending
  <2>3. /\ IsFiniteSet(CreatorsOf(c)) /\ Cardinality(CreatorsOf(c)) \in Nat
        /\ IsFiniteSet(Pending(c)) /\ Cardinality(Pending(c)) \in Nat
    BY <2>1, <2>2, LimitTyped
  <2>4. /\ Cardinality(CreatorsOf(c) \ {w}) = Cardinality(CreatorsOf(c)) - 1
        /\ IsFiniteSet(CreatorsOf(c) \ {w})
    BY <2>1, <2>3, FS_RemoveElement
  <2>5. /\ Cardinality(CreatorsOf(c)') <= Cardinality(CreatorsOf(c) \ {w})
        /\ Cardinality(CreatorsOf(c)') \in Nat
    BY <1>3, <2>4, FS_Subset, FS_CardinalityType
  <2>6. /\ Cardinality(Pending(c) \cup {b}) <= Cardinality(Pending(c)) + 1
        /\ IsFiniteSet(Pending(c) \cup {b}) /\ Cardinality(Pending(c) \cup {b}) \in Nat
    <3>1. /\ IsFiniteSet(Pending(c) \cup {b})
          /\ Cardinality(Pending(c) \cup {b}) =
               IF b \in Pending(c) THEN Cardinality(Pending(c)) ELSE Cardinality(Pending(c)) + 1
      BY <2>3, FS_AddElement
    <3> QED
      BY <2>3, <3>1
  <2>7. Cardinality(Pending(c)') <= Cardinality(Pending(c) \cup {b}) /\ Cardinality(Pending(c)') \in Nat
    BY <2>2, <2>6, FS_Subset, FS_CardinalityType
  <2> QED
    BY <2>3, <2>4, <2>5, <2>6, <2>7, LimitTyped DEF LimitInv
<1> QED
  BY <1>4, <1>5

LEMMA LimitInitially == ASSUME Init PROVE LimitInv
<1>1. \A c \in Contractors : Pending(c) = {} /\ CreatorsOf(c) = {}
  BY IdleTyped DEF Init, Pending, CreatorsOf, Creating, At
<1> QED
  BY <1>1, FS_EmptySet, LimitTyped DEF LimitInv

LEMMA LimitStep == ASSUME LimitInv, RowsInv, [Next]_vars PROVE LimitInv'
<1>1. ASSUME \A w \in Workers : Creating(w)' => task'[w] = task[w],
             \A w \in Workers : ~CreateBooking(w)
      PROVE  LimitInv'
  <2>1. \A c : CreatorsOf(c)' \subseteq CreatorsOf(c)
    BY <1>1 DEF CreatorsOf, Creating, At
  <2> QED
    BY <1>1, <2>1, PendingShrinks, Shrinks DEF LimitInv
<1>2. CASE \E w \in Workers : CreateBooking(w)
  BY <1>2, CreateBookingLimit
<1>3. CASE \E w \in Workers, c \in Contractors, p \in Professionals, date \in Dates :
             CreateForContractor(w, c, p, date)
  BY <1>3, CreateStartsLimit
<1>4. CASE AsideStep /\ \A w \in Workers : ~CreateBooking(w)
  BY <1>1, <1>4 DEF AsideStep, Creating, At
<1>5. ASSUME NEW w \in Workers, NEW b \in BookingIds, PenaltyStart(w, b),
             \A v \in Workers : ~CreateBooking(v)
      PROVE  LimitInv'
  <2>1. OthersWait(w) /\ task'[w].step = "countPenalties"
    BY <1>5, Started DEF PenaltyStart
  <2> QED
    BY <1>1, <1>5, <2>1 DEF OthersWait, Creating, At
<1>6. ASSUME NEW w \in Workers, CountPenalties(w) \/ CreatePenalty(w),
             \A v \in Workers : ~CreateBooking(v)
      PROVE  LimitInv'
  <2>1. OthersWait(w) /\ task'[w].step # "createBooking"
    <3>1. CASE CountPenalties(w)
      BY <3>1, Started DEF CountPenalties, Doing
    <3>2. CASE CreatePenalty(w)
      BY <3>2, Went, Finished DEF CreatePenalty, Steps
    <3> QED
      BY <1>6, <3>1, <3>2
  <2> QED
    BY <1>1, <1>6, <2>1 DEF OthersWait, Creating, At
<1>7. Tick \/ UNCHANGED vars => AsideStep
  BY DEF Tick, vars, AsideStep
<1> QED
  BY <1>2, <1>3, <1>4, <1>5, <1>6, <1>7, Actions, RequestsAside, StepsAside

\* LimitInv holds in every reachable state: a contractor's pending requests and the
\* ones about to be inserted (createForContractor) exceed the limit by less than the
\* handlers that run at the same time.
THEOREM LimitInvariance == Spec => []LimitInv
BY LimitInitially, LimitStep, BookingRowsInvariance, PTL DEF Spec

\* The limit of pending requests is exceeded at most by the requests that are handled
\* at the same time, whatever their number (createForContractor).
THEOREM PendingNearTheLimit == Spec => []PendingNearLimit
<1>1. ASSUME LimitInv, NEW c \in Contractors
      PROVE  Cardinality(Pending(c)) <= MAX_PENDING_PER_ESPECIALIDADE + Cardinality(Workers) - 1
  <2>1. Pending(c) \subseteq BookingIds /\ CreatorsOf(c) \subseteq Workers
    BY DEF Pending, CreatorsOf
  <2>2. Cardinality(Pending(c)) \in Nat /\ Cardinality(CreatorsOf(c)) \in Nat
    BY <2>1, LimitTyped
  <2> QED
    BY <1>1, <2>2, LimitTyped DEF LimitInv
<1>2. LimitInv => PendingNearLimit
  BY <1>1 DEF PendingNearLimit
<1> QED
  BY <1>2, LimitInvariance, PTL

================================================================================
