--------------------------- MODULE WorkOrdersProofs ---------------------------
(***************************************************************************)
(* Proofs about work orders, for any number of users, orders, workers and  *)
(* failures: the handlers implement Auction, an order has one winner and   *)
(* is awarded by its own side, its expiry is scheduled, and what is stored *)
(* keeps its type, the floor computed from the bids included.              *)
(*                                                                         *)
(* The guards of the handlers are about rows as they were when the handler *)
(* started.  What makes the properties inductive is which of those facts   *)
(* are still true when the handler writes: an order keeps its owner and    *)
(* never goes away, a proposal never goes away, who acted for somebody has *)
(* acted for them, and the order about to be inserted is nobody else's.    *)
(***************************************************************************)
EXTENDS WorkOrders, FiniteSetTheorems, WellFoundedInduction, TLAPS

\* The shape of the rows, of the jobs and of what the workers remember.
OrdersShape ==
  orders = [o \in OrderIds |->
    [contractorId |-> orders[o].contractorId, status |-> orders[o].status,
     expiraEm |-> orders[o].expiraEm, piso |-> orders[o].piso,
     adjudicador |-> orders[o].adjudicador]]

ProposalsShape ==
  proposals = [op \in Proposals |->
    [valor |-> proposals[op].valor, status |-> proposals[op].status]]

JobsShape ==
  expireJobs = [o \in OrderIds |-> [state |-> expireJobs[o].state, at |-> expireJobs[o].at]]

TaskShape ==
  task = [w \in Workers |->
    Doing(task[w].step, task[w].user, task[w].order, task[w].bidder, task[w].valor)]

Shape == OrdersShape /\ ProposalsShape /\ JobsShape /\ TaskShape /\ failures \in Nat

Statuses ==
  /\ \A o \in OrderIds : orders[o].status \in {"AUSENTE", "ABERTA", "ADJUDICADA", "EXPIRADA"}
  /\ \A op \in Proposals : proposals[op].status \in {"AUSENTE", "ENVIADA", "ACEITA", "RECUSADA"}

\* Handlers that have the expiry job of their order in hand: it is not scheduled yet,
\* or they run it.
HoldsJobId(w) == task[w].step \in {"createOrder", "scheduleExpiry", "completeJob"}

OnOwnSide(o, u) ==
  \/ u = orders[o].contractorId
  \/ <<orders[o].contractorId, u>> \in acted

\* What holds of the rows a handler has read for as long as it works on them.
HandlerConsistent(w) ==
  LET o == task[w].order IN
  /\ task[w].step # "idle" => o \in OrderIds
  /\ At(w, "createOrder") => orders[o].status = "AUSENTE"
  /\ task[w].step \in {"scheduleExpiry", "upsert", "readValues", "setPiso", "adjudicate"} =>
       orders[o].status # "AUSENTE"
  /\ task[w].step \in {"createOrder", "scheduleExpiry"} => expireJobs[o].state = "absent"
  /\ task[w].step \in {"upsert", "adjudicate"} => task[w].bidder \in Professionals
  /\ At(w, "adjudicate") =>
       proposals[<<o, task[w].bidder>>].status # "AUSENTE" /\ OnOwnSide(o, task[w].user)
  /\ At(w, "completeJob") =>
       orders[o].status \in {"ADJUDICADA", "EXPIRADA"} /\ expireJobs[o].state = "active"

HoldersDistinct ==
  \A v, w \in Workers : v # w /\ HoldsJobId(v) /\ HoldsJobId(w) => task[v].order # task[w].order

NoJobBeforeOrder ==
  \A o \in OrderIds : orders[o].status = "AUSENTE" => expireJobs[o].state = "absent"

\* The inductive invariant.
OrdersInv ==
  /\ Shape /\ Statuses
  /\ \A w \in Workers : HandlerConsistent(w)
  /\ HoldersDistinct /\ NoJobBeforeOrder
  /\ OneWinner /\ AwardedByOwnSide /\ OpenHasExpiryJob

--------------------------------------------------------------------------------
(* Moves of the handlers *)

OthersWait(w) == \A v \in Workers \ {w} : task'[v] = task[v]

LEMMA Moves ==
  ASSUME TaskShape, NEW w \in Workers
  PROVE  /\ \A step, u, o, p, valor : Start(w, Doing(step, u, o, p, valor)) =>
              TaskShape' /\ OthersWait(w) /\ task'[w] = Doing(step, u, o, p, valor)
         /\ \A step : Goto(w, step) =>
              /\ TaskShape' /\ OthersWait(w)
              /\ task'[w] = Doing(step, task[w].user, task[w].order, task[w].bidder,
                                  task[w].valor)
         /\ Finish(w) => TaskShape' /\ OthersWait(w) /\ task'[w] = Idle
BY DEF TaskShape, Start, Goto, Finish, Idle, Doing, OthersWait

\* A step that leaves the tables and the queue alone has only to say what its own
\* handler knows; it may add to acted and to failures.
LEMMA TablesUntouched ==
  ASSUME OrdersInv, NEW w \in Workers,
         UNCHANGED <<orders, proposals, expireJobs>>,
         acted \subseteq acted', failures' \in Nat, failures <= failures',
         TaskShape', OthersWait(w), HandlerConsistent(w)',
         HoldsJobId(w)' =>
           \A v \in Workers \ {w} : HoldsJobId(v) => task[v].order # task'[w].order,
         At(w, "scheduleExpiry") => failures' > 0
  PROVE  OrdersInv'
<1> USE DEF At, OthersWait
<1>0. Shape /\ orders' = orders /\ proposals' = proposals /\ expireJobs' = expireJobs
  BY DEF OrdersInv
<1>1. Shape' /\ Statuses' /\ NoJobBeforeOrder'
  BY <1>0 DEF OrdersInv, Shape, OrdersShape, ProposalsShape, JobsShape, Statuses,
              NoJobBeforeOrder
<1>2. ASSUME NEW v \in Workers PROVE HandlerConsistent(v)'
  BY <1>0 DEF OrdersInv, HandlerConsistent, HoldsJobId, OnOwnSide
<1>3. HoldersDistinct'
  BY <1>0 DEF OrdersInv, HoldersDistinct, HoldsJobId
<1>4. OneWinner'
  BY <1>0 DEF OrdersInv, OneWinner
<1>5. AwardedByOwnSide'
  BY <1>0 DEF OrdersInv, AwardedByOwnSide
<1>6. OpenHasExpiryJob'
  <2> SUFFICES ASSUME NEW o \in OrderIds, orders[o].status = "ABERTA", ~(failures' > 0),
                      ~(expireJobs[o].state = "delayed" /\ expireJobs[o].at = orders[o].expiraEm)
               PROVE  \E v \in Workers : At(v, "scheduleExpiry")' /\ task'[v].order = o
    BY <1>0 DEF OpenHasExpiryJob
  <2>1. ~(failures > 0)
    BY DEF OrdersInv, Shape
  <2>2. PICK v \in Workers : At(v, "scheduleExpiry") /\ task[v].order = o
    BY <2>1 DEF OrdersInv, OpenHasExpiryJob
  <2>3. v # w
    BY <2>2
  <2> QED
    BY <2>2, <2>3
<1> QED
  BY <1>1, <1>2, <1>3, <1>4, <1>5, <1>6 DEF OrdersInv

--------------------------------------------------------------------------------
(* Every step keeps the invariant *)

\* The store and the clock of a step that begins or ends outside the tables.
LEMMA Untouched ==
  ASSUME OrdersInv, UNCHANGED <<orders, proposals, expireJobs>>, UNCHANGED failures
  PROVE  failures' \in Nat /\ failures <= failures'
BY DEF OrdersInv, Shape

LEMMA RequestStep ==
  ASSUME OrdersInv, NEW w \in Workers, NEW u \in Users, Request(w, u)
  PROVE  OrdersInv'
<1> USE Untouched DEF store, clock, At
<1>0. /\ TaskShape /\ task[w].step = "idle" /\ acted \subseteq acted'
      /\ UNCHANGED <<orders, proposals, expireJobs, failures>>
  <2>1. TaskShape
    BY DEF OrdersInv, Shape
  <2>2. task[w].step = "idle" /\ acted \subseteq acted'
    <3>1. Asks(w, u)
      BY DEF Request, OpenWorkOrder, UploadFoto, AcceptProposal, SubmitProposal
    <3> QED
      BY <3>1 DEF Asks, Free, Idle, Doing
  <2>3. UNCHANGED <<orders, proposals, expireJobs, failures>>
    BY DEF Request, OpenWorkOrder, UploadFoto, AcceptProposal, SubmitProposal
  <2> QED
    BY <2>1, <2>2, <2>3
<1>1. CASE OpenWorkOrder(w, u)
  <2>1. PICK o \in OrderIds :
          /\ orders[o].status = "AUSENTE"
          /\ \A v \in Workers : task[v].order # o
          /\ Start(w, Doing("createOrder", effectiveOwner(u), o, NoUser, 0))
    BY <1>1 DEF OpenWorkOrder
  <2>2. /\ TaskShape' /\ OthersWait(w) /\ task'[w].step = "createOrder" /\ task'[w].order = o
    BY <1>0, <2>1, Moves DEF Doing
  <2>3. expireJobs[o].state = "absent"
    BY <2>1 DEF OrdersInv, NoJobBeforeOrder
  <2>4. HandlerConsistent(w)'
    BY <1>0, <2>1, <2>2, <2>3 DEF HandlerConsistent, HoldsJobId
  <2> QED
    BY <1>0, <2>1, <2>2, <2>4, TablesUntouched
<1>2. CASE \E o \in OrderIds : UploadFoto(w, u, o)
  <2>1. PICK o \in OrderIds : UploadFoto(w, u, o)
    BY <1>2
  <2>2. /\ TaskShape' /\ OthersWait(w) /\ task'[w].step = "addFoto" /\ task'[w].order = o
    BY <1>0, <2>1, Moves DEF UploadFoto, Doing
  <2>3. HandlerConsistent(w)'
    BY <2>2 DEF HandlerConsistent, HoldsJobId
  <2> QED
    BY <1>0, <2>2, <2>3, TablesUntouched DEF HoldsJobId
<1>3. CASE \E o \in OrderIds, p \in Professionals : AcceptProposal(w, u, o, p)
  <2>1. PICK o \in OrderIds, p \in Professionals : AcceptProposal(w, u, o, p)
    BY <1>3
  <2>2. /\ TaskShape' /\ OthersWait(w) /\ task'[w].step = "adjudicate" /\ task'[w].order = o
        /\ task'[w].bidder = p /\ task'[w].user = u
    BY <1>0, <2>1, Moves DEF AcceptProposal, Doing
  <2>3. OnOwnSide(o, u)'
    BY <1>0, <2>1 DEF AcceptProposal, Asks, OnOwnSide
  <2>4. HandlerConsistent(w)'
    BY <1>0, <2>1, <2>2, <2>3 DEF HandlerConsistent, HoldsJobId, AcceptProposal
  <2> QED
    BY <1>0, <2>2, <2>4, TablesUntouched DEF HoldsJobId
<1>4. CASE \E o \in OrderIds, valor \in Valores :
             u \in Professionals /\ SubmitProposal(w, u, o, valor)
  <2>1. PICK o \in OrderIds, valor \in Valores :
          u \in Professionals /\ SubmitProposal(w, u, o, valor)
    BY <1>4
  <2>2. /\ TaskShape' /\ OthersWait(w) /\ task'[w].step = "upsert" /\ task'[w].order = o
        /\ task'[w].bidder = u
    BY <1>0, <2>1, Moves DEF SubmitProposal, Doing
  <2>3. HandlerConsistent(w)'
    BY <1>0, <2>1, <2>2 DEF HandlerConsistent, HoldsJobId, SubmitProposal
  <2> QED
    BY <1>0, <2>2, <2>3, TablesUntouched DEF HoldsJobId
<1> QED
  BY <1>1, <1>2, <1>3, <1>4 DEF Request

\* addFoto writes only photos, readValues only what its handler remembers.
LEMMA SideStep ==
  ASSUME OrdersInv, NEW w \in Workers, AddFoto(w) \/ ReadValues(w)
  PROVE  OrdersInv'
<1> USE Untouched DEF store, clock, At
<1>0. /\ TaskShape /\ acted \subseteq acted' /\ task[w].step \in {"addFoto", "readValues"}
      /\ UNCHANGED <<orders, proposals, expireJobs, failures>>
  BY DEF OrdersInv, Shape, AddFoto, ReadValues
<1>1. task[w].order \in OrderIds
  BY <1>0 DEF OrdersInv, HandlerConsistent
<1>2. /\ TaskShape' /\ OthersWait(w)
      /\ task'[w].step \in {"idle", "setPiso"}
      /\ task'[w].step = "setPiso" => task'[w].order = task[w].order
  BY <1>0, Moves DEF AddFoto, ReadValues, Idle, Doing
<1>3. ReadValues(w) => orders[task[w].order].status # "AUSENTE"
  BY DEF OrdersInv, HandlerConsistent, ReadValues
<1>4. HandlerConsistent(w)'
  <2>1. task'[w].step = "setPiso" => ReadValues(w)
    BY <1>0, Moves DEF AddFoto, Idle, Doing
  <2> QED
    BY <1>0, <1>1, <1>2, <1>3, <2>1 DEF HandlerConsistent, HoldsJobId
<1> QED
  BY <1>0, <1>2, <1>4, TablesUntouched DEF HoldsJobId

LEMMA CreateOrderStep ==
  ASSUME OrdersInv, NEW w \in Workers, CreateOrder(w)
  PROVE  OrdersInv'
<1> DEFINE o == task[w].order
<1> USE DEF At, clock
<1>0. /\ OrdersShape /\ ProposalsShape /\ JobsShape /\ TaskShape /\ failures \in Nat
      /\ o \in OrderIds
      /\ task[w].step = "createOrder" /\ orders[o].status = "AUSENTE"
      /\ expireJobs[o].state = "absent"
      /\ UNCHANGED <<proposals, expireJobs, failures, acted>>
  BY DEF OrdersInv, Shape, HandlerConsistent, CreateOrder, HoldsJobId
<1>1. PICK prazo \in URGENCY_DEADLINE_HOURS :
        orders' = [orders EXCEPT ![o] =
          [contractorId |-> task[w].user, status |-> "ABERTA", expiraEm |-> now + prazo,
           piso |-> NoPiso, adjudicador |-> NoUser]]
  BY DEF CreateOrder
<1>2. /\ TaskShape' /\ OthersWait(w) /\ task'[w].step = "scheduleExpiry" /\ task'[w].order = o
  <2>1. TaskShape /\ Goto(w, "scheduleExpiry")
    BY <1>0 DEF CreateOrder
  <2>2. /\ TaskShape' /\ OthersWait(w)
        /\ task'[w] = Doing("scheduleExpiry", task[w].user, o, task[w].bidder, task[w].valor)
    BY <2>1, Moves
  <2> QED
    BY <2>2 DEF Doing
<1>2a. task'[w].step = "scheduleExpiry" /\ task'[w].order = o
       /\ \A v \in Workers \ {w} : task'[v] = task[v]
  BY <1>2 DEF OthersWait
<1>3. /\ orders'[o].status = "ABERTA"
      /\ \A q \in OrderIds \ {o} : orders'[q] = orders[q]
  BY <1>0, <1>1 DEF OrdersShape
<1>4. Shape'
  <2>1. OrdersShape'
    BY <1>0, <1>1 DEF OrdersShape
  <2> QED
    BY <1>0, <1>2, <2>1 DEF Shape, ProposalsShape, JobsShape
<1>10. Statuses' /\ NoJobBeforeOrder'
  BY <1>0, <1>3 DEF OrdersInv, Statuses, NoJobBeforeOrder
<1>5. ASSUME NEW v \in Workers PROVE HandlerConsistent(v)'
  <2>1. CASE v = w
    BY <1>0, <1>2a, <1>3, <2>1 DEF HandlerConsistent, HoldsJobId
  <2>2. CASE v # w
    <3>1. task'[v] = task[v] /\ HandlerConsistent(v)
      BY <1>2a, <2>2 DEF OrdersInv
    <3>2. HoldsJobId(v) => task[v].order # o
      BY <1>0, <2>2 DEF OrdersInv, HoldersDistinct, HoldsJobId
    <3> QED
      BY <1>0, <1>3, <3>1, <3>2 DEF HandlerConsistent, HoldsJobId, OnOwnSide
  <2> QED
    BY <2>1, <2>2
<1>6. HoldersDistinct'
  BY <1>0, <1>2a DEF OrdersInv, HoldersDistinct, HoldsJobId
<1>7. OneWinner'
  BY <1>0, <1>3 DEF OrdersInv, OneWinner, Proposals
<1>8. AwardedByOwnSide'
  BY <1>0, <1>3 DEF OrdersInv, AwardedByOwnSide
<1>9. OpenHasExpiryJob'
  <2> SUFFICES ASSUME NEW q \in OrderIds, orders'[q].status = "ABERTA"
               PROVE \/ expireJobs[q].state = "delayed" /\ expireJobs[q].at = orders'[q].expiraEm
                     \/ \E v \in Workers : task'[v].step = "scheduleExpiry" /\ task'[v].order = q
                     \/ failures > 0
    BY <1>0 DEF OpenHasExpiryJob
  <2>1. CASE q = o
    BY <1>2a, <2>1
  <2>2. CASE q # o
    <3>1. orders'[q] = orders[q]
      BY <1>3, <2>2
    <3>2. \/ expireJobs[q].state = "delayed" /\ expireJobs[q].at = orders[q].expiraEm
          \/ \E v \in Workers : task[v].step = "scheduleExpiry" /\ task[v].order = q
          \/ failures > 0
      BY <3>1 DEF OrdersInv, OpenHasExpiryJob
    <3> QED
      BY <1>0, <1>2a, <3>1, <3>2
  <2> QED
    BY <2>1, <2>2
<1> QED
  BY <1>2, <1>4, <1>5, <1>6, <1>7, <1>8, <1>9, <1>10 DEF OrdersInv

\* What the steps of one handler let happen to the rows keeps what every other handler
\* relies on: an order keeps its owner and stays closed, a proposal stays, and a job
\* that is not waiting changes only in the hands of the handler that holds it.
LEMMA OthersStayConsistent ==
  ASSUME OrdersInv, NEW w \in Workers, OthersWait(w), acted \subseteq acted',
         \A o \in OrderIds :
           /\ orders'[o].contractorId = orders[o].contractorId
           /\ (orders[o].status = "AUSENTE") <=> (orders'[o].status = "AUSENTE")
           /\ orders[o].status \in {"ADJUDICADA", "EXPIRADA"} =>
                orders'[o].status \in {"ADJUDICADA", "EXPIRADA"},
         \A op \in Proposals :
           proposals[op].status # "AUSENTE" => proposals'[op].status # "AUSENTE",
         \A o \in OrderIds :
           \/ expireJobs'[o].state = expireJobs[o].state
           \/ expireJobs[o].state = "delayed"
           \/ HoldsJobId(w) /\ task[w].order = o
  PROVE  \A v \in Workers \ {w} : HandlerConsistent(v)'
<1> SUFFICES ASSUME NEW v \in Workers \ {w} PROVE HandlerConsistent(v)'
  OBVIOUS
<1>1. HandlerConsistent(v) /\ task'[v] = task[v]
  BY DEF OrdersInv, OthersWait
<1>2. HoldsJobId(v) => ~(HoldsJobId(w) /\ task[w].order = task[v].order)
  BY DEF OrdersInv, HoldersDistinct
<1>3. \A o \in OrderIds, p \in Professionals :
        proposals[<<o, p>>].status # "AUSENTE" => proposals'[<<o, p>>].status # "AUSENTE"
  BY DEF Proposals
<1> QED
  BY <1>1, <1>2, <1>3 DEF HandlerConsistent, HoldsJobId, OnOwnSide, At

\* A handler that does not hold a job next leaves the holders distinct.
LEMMA HoldersStayDistinct ==
  ASSUME OrdersInv, NEW w \in Workers, OthersWait(w), ~HoldsJobId(w)'
  PROVE  HoldersDistinct'
BY DEF OrdersInv, HoldersDistinct, OthersWait, HoldsJobId

\* Orders that are open as before, with the job they had, still have it.
LEMMA JobsStay ==
  ASSUME OrdersInv, NEW w \in Workers, OthersWait(w),
         task[w].step # "scheduleExpiry", failures' = failures,
         \A o \in OrderIds : orders'[o].status = "ABERTA" =>
           /\ orders[o].status = "ABERTA" /\ orders'[o].expiraEm = orders[o].expiraEm
           /\ expireJobs'[o] = expireJobs[o]
  PROVE  OpenHasExpiryJob'
<1> SUFFICES ASSUME NEW o \in OrderIds, orders'[o].status = "ABERTA"
             PROVE  \/ expireJobs'[o].state = "delayed" /\ expireJobs'[o].at = orders'[o].expiraEm
                    \/ \E v \in Workers : task'[v].step = "scheduleExpiry" /\ task'[v].order = o
                    \/ failures' > 0
  BY DEF OpenHasExpiryJob, At
<1>1. \/ expireJobs[o].state = "delayed" /\ expireJobs[o].at = orders[o].expiraEm
      \/ \E v \in Workers : task[v].step = "scheduleExpiry" /\ task[v].order = o
      \/ failures > 0
  BY DEF OrdersInv, OpenHasExpiryJob, At
<1> QED
  BY <1>1 DEF OthersWait

LEMMA ScheduleExpiryStep ==
  ASSUME OrdersInv, NEW w \in Workers, ScheduleExpiry(w)
  PROVE  OrdersInv'
<1> DEFINE o == task[w].order
<1> USE DEF At, clock
<1>0. /\ OrdersShape /\ ProposalsShape /\ JobsShape /\ TaskShape /\ failures \in Nat
      /\ o \in OrderIds /\ task[w].step = "scheduleExpiry" /\ orders[o].status # "AUSENTE"
      /\ expireJobs[o].state = "absent"
      /\ UNCHANGED <<orders, proposals, failures, acted>>
  BY DEF OrdersInv, Shape, HandlerConsistent, ScheduleExpiry, HoldsJobId
<1>1. expireJobs' = [expireJobs EXCEPT ![o] = [state |-> "delayed", at |-> orders[o].expiraEm]]
  BY <1>0 DEF ScheduleExpiry, Add
<1>2. TaskShape' /\ OthersWait(w) /\ task'[w] = Idle
  BY <1>0, Moves DEF ScheduleExpiry
<1>3. task'[w].step = "idle" /\ (\A v \in Workers \ {w} : task'[v] = task[v])
  BY <1>2 DEF Idle, Doing, OthersWait
<1>4. /\ expireJobs'[o].state = "delayed" /\ expireJobs'[o].at = orders[o].expiraEm
      /\ \A q \in OrderIds \ {o} : expireJobs'[q] = expireJobs[q]
  BY <1>0, <1>1 DEF JobsShape
<1>5. Shape'
  <2>1. JobsShape'
    BY <1>0, <1>1 DEF JobsShape
  <2> QED
    BY <1>0, <1>2, <2>1 DEF Shape, OrdersShape, ProposalsShape
<1>6. Statuses' /\ NoJobBeforeOrder'
  BY <1>0, <1>4 DEF OrdersInv, Statuses, NoJobBeforeOrder
<1>7. ASSUME NEW v \in Workers PROVE HandlerConsistent(v)'
  <2>0. \A q \in OrderIds :
          \/ expireJobs'[q].state = expireJobs[q].state
          \/ expireJobs[q].state = "delayed"
          \/ HoldsJobId(w) /\ task[w].order = q
    BY <1>0, <1>4 DEF HoldsJobId
  <2>1. \A u \in Workers \ {w} : HandlerConsistent(u)'
    BY <1>0, <1>2, <2>0, OthersStayConsistent
  <2>2. HandlerConsistent(w)'
    BY <1>3 DEF HandlerConsistent, HoldsJobId
  <2> QED
    BY <2>1, <2>2
<1>8. HoldersDistinct'
  BY <1>2, <1>3, HoldersStayDistinct DEF HoldsJobId
<1>9. OneWinner' /\ AwardedByOwnSide'
  BY <1>0 DEF OrdersInv, OneWinner, AwardedByOwnSide
<1>10. OpenHasExpiryJob'
  <2> SUFFICES ASSUME NEW q \in OrderIds, orders[q].status = "ABERTA"
               PROVE \/ expireJobs'[q].state = "delayed" /\ expireJobs'[q].at = orders[q].expiraEm
                     \/ \E v \in Workers : task'[v].step = "scheduleExpiry" /\ task'[v].order = q
                     \/ failures > 0
    BY <1>0 DEF OpenHasExpiryJob
  <2>1. \/ expireJobs[q].state = "delayed" /\ expireJobs[q].at = orders[q].expiraEm
        \/ \E v \in Workers : task[v].step = "scheduleExpiry" /\ task[v].order = q
        \/ failures > 0
    BY DEF OrdersInv, OpenHasExpiryJob
  <2> QED
    BY <1>3, <1>4, <2>1
<1> QED
  BY <1>5, <1>6, <1>7, <1>8, <1>9, <1>10 DEF OrdersInv

\* The proposal is sent again: were it the accepted one, it no longer is.
LEMMA UpsertStep ==
  ASSUME OrdersInv, NEW w \in Workers, Upsert(w)
  PROVE  OrdersInv'
<1> DEFINE op == <<task[w].order, task[w].bidder>>
<1> USE DEF At, clock
<1>0. /\ OrdersShape /\ ProposalsShape /\ JobsShape /\ TaskShape /\ failures \in Nat
      /\ op \in Proposals /\ task[w].step = "upsert" /\ task[w].order \in OrderIds
      /\ UNCHANGED <<orders, expireJobs, failures, acted>>
  BY DEF OrdersInv, Shape, HandlerConsistent, Upsert, Proposals
<1>1. proposals' = [proposals EXCEPT ![op] = [valor |-> task[w].valor, status |-> "ENVIADA"]]
  BY DEF Upsert
<1>2. TaskShape' /\ OthersWait(w) /\ task'[w].step = "readValues"
      /\ task'[w].order = task[w].order
  <2>1. TaskShape /\ Goto(w, "readValues")
    BY <1>0 DEF Upsert
  <2>2. /\ TaskShape' /\ OthersWait(w)
        /\ task'[w] = Doing("readValues", task[w].user, task[w].order, task[w].bidder,
                            task[w].valor)
    BY <2>1, Moves
  <2> QED
    BY <2>2 DEF Doing
<1>3. /\ proposals'[op].status = "ENVIADA"
      /\ \A oq \in Proposals \ {op} : proposals'[oq] = proposals[oq]
  BY <1>0, <1>1 DEF ProposalsShape
<1>4. Shape'
  <2>1. ProposalsShape'
    BY <1>0, <1>1 DEF ProposalsShape
  <2> QED
    BY <1>0, <1>2, <2>1 DEF Shape, OrdersShape, JobsShape
<1>5. Statuses' /\ NoJobBeforeOrder'
  BY <1>0, <1>3 DEF OrdersInv, Statuses, NoJobBeforeOrder
<1>6. ASSUME NEW v \in Workers PROVE HandlerConsistent(v)'
  <2>0. \A oq \in Proposals :
          proposals[oq].status # "AUSENTE" => proposals'[oq].status # "AUSENTE"
    BY <1>3
  <2>1. \A u \in Workers \ {w} : HandlerConsistent(u)'
    BY <1>0, <1>2, <2>0, OthersStayConsistent
  <2>2. task[w].order \in OrderIds /\ orders[task[w].order].status # "AUSENTE"
    BY DEF OrdersInv, HandlerConsistent, Upsert
  <2>3. HandlerConsistent(w)'
    BY <1>0, <1>2, <2>2 DEF HandlerConsistent, HoldsJobId
  <2> QED
    BY <2>1, <2>3
<1>7. HoldersDistinct'
  BY <1>2, HoldersStayDistinct DEF HoldsJobId
<1>8. OneWinner'
  BY <1>0, <1>3 DEF OrdersInv, OneWinner
<1>9. AwardedByOwnSide' /\ OpenHasExpiryJob'
  BY <1>0, <1>2, JobsStay DEF OrdersInv, AwardedByOwnSide
<1> QED
  BY <1>4, <1>5, <1>6, <1>7, <1>8, <1>9 DEF OrdersInv

\* A floor computed from a stale list changes nothing else.
LEMMA SetPisoStep ==
  ASSUME OrdersInv, NEW w \in Workers, SetPiso(w)
  PROVE  OrdersInv'
<1> USE DEF At, clock
<1>0. /\ OrdersShape /\ ProposalsShape /\ JobsShape /\ TaskShape /\ failures \in Nat
      /\ task[w].step = "setPiso" /\ task[w].order \in OrderIds
      /\ UNCHANGED <<proposals, expireJobs, failures, acted>>
  BY DEF OrdersInv, Shape, HandlerConsistent, SetPiso
<1>1. orders' = [orders EXCEPT ![task[w].order].piso = task[w].valor]
  BY DEF SetPiso
<1>2. TaskShape' /\ OthersWait(w) /\ task'[w].step = "idle"
  BY <1>0, Moves DEF SetPiso, Idle, Doing
<1>3. OrdersShape' /\ \A o \in OrderIds :
        /\ orders'[o].status = orders[o].status
        /\ orders'[o].contractorId = orders[o].contractorId
        /\ orders'[o].expiraEm = orders[o].expiraEm
        /\ orders'[o].adjudicador = orders[o].adjudicador
  <2>1. orders' = [o \in OrderIds |->
          [contractorId |-> orders[o].contractorId, status |-> orders[o].status,
           expiraEm |-> orders[o].expiraEm,
           piso |-> IF o = task[w].order THEN task[w].valor ELSE orders[o].piso,
           adjudicador |-> orders[o].adjudicador]]
    BY <1>0, <1>1, SMTT(60) DEF OrdersShape
  <2> QED
    BY <2>1 DEF OrdersShape
<1>4. Shape' /\ Statuses' /\ NoJobBeforeOrder'
  BY <1>0, <1>2, <1>3 DEF OrdersInv, Shape, ProposalsShape, JobsShape, Statuses,
                          NoJobBeforeOrder
<1>5. ASSUME NEW v \in Workers PROVE HandlerConsistent(v)'
  <2>1. \A u \in Workers \ {w} : HandlerConsistent(u)'
    BY <1>0, <1>2, <1>3, OthersStayConsistent
  <2>2. HandlerConsistent(w)'
    BY <1>2 DEF HandlerConsistent, HoldsJobId
  <2> QED
    BY <2>1, <2>2
<1>6. HoldersDistinct'
  BY <1>2, HoldersStayDistinct DEF HoldsJobId
<1>7. OneWinner'
  BY <1>0, <1>3 DEF OrdersInv, OneWinner, Proposals
<1>8. AwardedByOwnSide'
  BY <1>0, <1>3 DEF OrdersInv, AwardedByOwnSide
<1>9. OpenHasExpiryJob'
  BY <1>0, <1>2, <1>3, JobsStay
<1> QED
  BY <1>4, <1>5, <1>6, <1>7, <1>8, <1>9 DEF OrdersInv

\* An open order has no accepted proposal yet, so the one accepted is the only one.
LEMMA AdjudicateStep ==
  ASSUME OrdersInv, NEW w \in Workers, Adjudicate(w)
  PROVE  OrdersInv'
<1> DEFINE o == task[w].order
           p == task[w].bidder
<1> USE DEF At, clock
<1>0. /\ OrdersShape /\ ProposalsShape /\ JobsShape /\ TaskShape /\ failures \in Nat
      /\ o \in OrderIds /\ p \in Professionals /\ task[w].step = "adjudicate"
      /\ proposals[<<o, p>>].status # "AUSENTE" /\ OnOwnSide(o, task[w].user)
      /\ UNCHANGED <<expireJobs, failures, acted>>
  BY DEF OrdersInv, Shape, HandlerConsistent, Adjudicate
<1>1. TaskShape' /\ OthersWait(w) /\ task'[w].step = "idle"
  BY <1>0, Moves DEF Adjudicate, Idle, Doing
<1>2. HandlerConsistent(w)' /\ HoldersDistinct'
  BY <1>1, HoldersStayDistinct DEF HandlerConsistent, HoldsJobId
<1>3. CASE orders[o].status = "ABERTA"
  <2>1. /\ orders' = [orders EXCEPT ![o] = AwardedBy(o, task[w].user)]
        /\ proposals' = Adjudicated(o, p)
    BY <1>3 DEF Adjudicate
  <2>2. /\ OrdersShape'
        /\ orders'[o] = AwardedBy(o, task[w].user)
        /\ \A q \in OrderIds \ {o} : orders'[q] = orders[q]
    BY <1>0, <2>1 DEF OrdersShape, AwardedBy
  <2>3. /\ orders'[o].status = "ADJUDICADA" /\ orders'[o].adjudicador = task[w].user
        /\ orders'[o].contractorId = orders[o].contractorId
    BY <2>2 DEF AwardedBy
  <2>4. /\ ProposalsShape'
        /\ \A oq \in Proposals : proposals'[oq].status =
             CASE oq = <<o, p>> -> "ACEITA"
               [] oq[1] = o /\ oq[2] # p /\ proposals[oq].status = "ENVIADA" -> "RECUSADA"
               [] OTHER -> proposals[oq].status
    BY <2>1 DEF Adjudicated, ProposalsShape
  <2>5. \A oq \in Proposals :
          /\ proposals'[oq].status = "ACEITA" =>
               oq = <<o, p>> \/ (oq[1] # o /\ proposals[oq].status = "ACEITA")
          /\ proposals[oq].status # "AUSENTE" => proposals'[oq].status # "AUSENTE"
          /\ proposals'[oq].status \in {proposals[oq].status, "ACEITA", "RECUSADA"}
    <3> SUFFICES ASSUME NEW oq \in Proposals
                 PROVE /\ proposals'[oq].status = "ACEITA" =>
                            oq = <<o, p>> \/ (oq[1] # o /\ proposals[oq].status = "ACEITA")
                       /\ proposals[oq].status # "AUSENTE" => proposals'[oq].status # "AUSENTE"
                       /\ proposals'[oq].status \in {proposals[oq].status, "ACEITA", "RECUSADA"}
      OBVIOUS
    <3>1. oq[1] = o => proposals[oq].status # "ACEITA"
      BY <1>3 DEF OrdersInv, OneWinner
    <3> QED
      BY <2>4, <3>1
  <2>6. Shape' /\ Statuses' /\ NoJobBeforeOrder'
    BY <1>0, <1>1, <2>2, <2>3, <2>4, <2>5, SMTT(30)
       DEF OrdersInv, Shape, JobsShape, Statuses, NoJobBeforeOrder
  <2>7. \A v \in Workers \ {w} : HandlerConsistent(v)'
    <3>1. \A q \in OrderIds :
            /\ orders'[q].contractorId = orders[q].contractorId
            /\ (orders[q].status = "AUSENTE") <=> (orders'[q].status = "AUSENTE")
            /\ orders[q].status \in {"ADJUDICADA", "EXPIRADA"} =>
                 orders'[q].status \in {"ADJUDICADA", "EXPIRADA"}
      BY <1>3, <2>2, <2>3
    <3> QED
      BY <1>0, <1>1, <2>5, <3>1, OthersStayConsistent
  <2>8. OneWinner'
    <3> SUFFICES ASSUME NEW oq \in Proposals, NEW or \in Proposals,
                        proposals'[oq].status = "ACEITA"
                 PROVE  /\ orders'[oq[1]].status = "ADJUDICADA"
                        /\ proposals'[or].status = "ACEITA" /\ or[1] = oq[1] => or = oq
      BY DEF OneWinner
    <3>1. CASE oq = <<o, p>>
      BY <2>3, <2>5, <3>1
    <3>2. CASE oq[1] # o /\ proposals[oq].status = "ACEITA"
      <4>1. oq[1] \in OrderIds
        BY DEF Proposals
      <4> QED
        BY <2>2, <2>5, <3>2, <4>1 DEF OrdersInv, OneWinner
    <3> QED
      BY <2>5, <3>1, <3>2
  <2>9. AwardedByOwnSide'
    BY <1>0, <2>2, <2>3 DEF OrdersInv, AwardedByOwnSide, OnOwnSide
  <2>10. OpenHasExpiryJob'
    BY <1>0, <1>1, <2>2, <2>3, JobsStay
  <2> QED
    BY <1>2, <2>6, <2>7, <2>8, <2>9, <2>10 DEF OrdersInv
<1>4. CASE orders[o].status # "ABERTA"
  <2>1. UNCHANGED <<orders, proposals>>
    BY <1>4 DEF Adjudicate
  <2> QED
    BY <1>0, <1>1, <1>2, <2>1, TablesUntouched DEF HoldsJobId
<1> QED
  BY <1>3, <1>4

\* The expiry closes an open order, and its job runs until the handler returns.
LEMMA ExpireStep ==
  ASSUME OrdersInv, NEW w \in Workers, NEW o \in OrderIds, ExpireIfOpen(w, o)
  PROVE  OrdersInv'
<1> USE DEF At, clock
<1>0. /\ OrdersShape /\ ProposalsShape /\ JobsShape /\ TaskShape /\ failures \in Nat
      /\ task[w].step = "idle" /\ expireJobs[o].state = "delayed"
      /\ UNCHANGED <<proposals, failures, acted>>
  BY DEF OrdersInv, Shape, ExpireIfOpen, Free, Idle, Doing, Due
<1>1. /\ orders[o].status # "AUSENTE"
      /\ orders[o].status \in {"AUSENTE", "ABERTA", "ADJUDICADA", "EXPIRADA"}
  BY <1>0 DEF OrdersInv, NoJobBeforeOrder, Statuses
<1>2. TaskShape' /\ OthersWait(w) /\ task'[w].step = "completeJob" /\ task'[w].order = o
  <2>1. TaskShape /\ Start(w, Doing("completeJob", NoUser, o, NoUser, 0))
    BY <1>0 DEF ExpireIfOpen
  <2>2. /\ TaskShape' /\ OthersWait(w)
        /\ task'[w] = Doing("completeJob", NoUser, o, NoUser, 0)
    BY <2>1, Moves
  <2> QED
    BY <2>2 DEF Doing
<1>3. JobsShape' /\ (\A q \in OrderIds \ {o} : expireJobs'[q] = expireJobs[q])
      /\ expireJobs'[o].state = "active"
  <2>1. expireJobs' = [q \in OrderIds |->
          [state |-> IF q = o THEN "active" ELSE expireJobs[q].state, at |-> expireJobs[q].at]]
    BY <1>0 DEF ExpireIfOpen, Take, JobsShape
  <2> QED
    BY <1>0, <2>1 DEF JobsShape
<1>4. OrdersShape' /\ \A q \in OrderIds :
        /\ orders'[q].status = IF q = o /\ orders[o].status = "ABERTA" THEN "EXPIRADA"
                               ELSE orders[q].status
        /\ orders'[q].contractorId = orders[q].contractorId
        /\ orders'[q].expiraEm = orders[q].expiraEm
        /\ orders'[q].adjudicador = orders[q].adjudicador
  <2>1. orders' = [q \in OrderIds |->
          [contractorId |-> orders[q].contractorId,
           status |-> IF q = o /\ orders[o].status = "ABERTA" THEN "EXPIRADA"
                      ELSE orders[q].status,
           expiraEm |-> orders[q].expiraEm, piso |-> orders[q].piso,
           adjudicador |-> orders[q].adjudicador]]
    <3>1. CASE orders[o].status = "ABERTA"
      BY <1>0, <3>1 DEF ExpireIfOpen, OrdersShape
    <3>2. CASE orders[o].status # "ABERTA"
      BY <1>0, <3>2 DEF ExpireIfOpen, OrdersShape
    <3> QED
      BY <3>1, <3>2
  <2> QED
    BY <2>1 DEF OrdersShape
<1>5. Shape' /\ Statuses' /\ NoJobBeforeOrder'
  BY <1>0, <1>1, <1>2, <1>3, <1>4
     DEF OrdersInv, Shape, ProposalsShape, Statuses, NoJobBeforeOrder
<1>6. ASSUME NEW v \in Workers PROVE HandlerConsistent(v)'
  <2>1. \A q \in OrderIds :
          expireJobs'[q].state = expireJobs[q].state \/ expireJobs[q].state = "delayed"
    BY <1>0, <1>3
  <2>2. \A q \in OrderIds :
          /\ (orders[q].status = "AUSENTE") <=> (orders'[q].status = "AUSENTE")
          /\ orders[q].status \in {"ADJUDICADA", "EXPIRADA"} =>
               orders'[q].status \in {"ADJUDICADA", "EXPIRADA"}
    BY <1>4
  <2>3. \A u \in Workers \ {w} : HandlerConsistent(u)'
    BY <1>0, <1>2, <1>4, <2>1, <2>2, OthersStayConsistent
  <2>4. HandlerConsistent(w)'
    BY <1>1, <1>2, <1>3, <1>4 DEF HandlerConsistent
  <2> QED
    BY <2>3, <2>4
<1>7. HoldersDistinct'
  <2>1. \A v \in Workers : HoldsJobId(v) => task[v].order # o
    BY <1>0 DEF OrdersInv, HandlerConsistent, HoldsJobId
  <2> QED
    BY <1>2, <2>1 DEF OrdersInv, HoldersDistinct, HoldsJobId, OthersWait
<1>8. OneWinner'
  BY <1>0, <1>4 DEF OrdersInv, OneWinner, Proposals
<1>9. AwardedByOwnSide'
  BY <1>0, <1>4 DEF OrdersInv, AwardedByOwnSide
<1>10. OpenHasExpiryJob'
  BY <1>0, <1>2, <1>3, <1>4, JobsStay
<1> QED
  BY <1>5, <1>6, <1>7, <1>8, <1>9, <1>10 DEF OrdersInv

\* The end of the expiry job, or its failure: the order is closed, its job is not needed.
LEMMA JobEnds ==
  ASSUME OrdersInv, NEW w \in Workers, At(w, "completeJob"),
         UNCHANGED <<orders, proposals, acted>>, Finish(w),
         failures' \in Nat, failures <= failures', JobsShape',
         \A q \in OrderIds \ {task[w].order} : expireJobs'[q] = expireJobs[q]
  PROVE  OrdersInv'
<1> DEFINE o == task[w].order
<1> USE DEF At
<1>0. /\ OrdersShape /\ ProposalsShape /\ JobsShape /\ TaskShape /\ failures \in Nat
      /\ o \in OrderIds /\ orders[o].status \in {"ADJUDICADA", "EXPIRADA"}
      /\ orders' = orders /\ proposals' = proposals
  BY DEF OrdersInv, Shape, HandlerConsistent
<1>1. TaskShape' /\ OthersWait(w) /\ task'[w].step = "idle"
  BY <1>0, Moves DEF Idle, Doing
<1>2. Shape' /\ Statuses' /\ NoJobBeforeOrder'
  BY <1>0, <1>1 DEF OrdersInv, Shape, OrdersShape, ProposalsShape, Statuses, NoJobBeforeOrder
<1>3. ASSUME NEW v \in Workers PROVE HandlerConsistent(v)'
  <2>1. \A q \in OrderIds :
          expireJobs'[q].state = expireJobs[q].state \/ (HoldsJobId(w) /\ task[w].order = q)
    BY <1>0 DEF HoldsJobId
  <2>2. \A u \in Workers \ {w} : HandlerConsistent(u)'
    BY <1>0, <1>1, <2>1, OthersStayConsistent
  <2>3. HandlerConsistent(w)'
    BY <1>1 DEF HandlerConsistent
  <2> QED
    BY <2>2, <2>3
<1>4. HoldersDistinct'
  BY <1>1, HoldersStayDistinct DEF HoldsJobId
<1>5. OneWinner' /\ AwardedByOwnSide'
  BY <1>0 DEF OrdersInv, OneWinner, AwardedByOwnSide
<1>6. OpenHasExpiryJob'
  <2> SUFFICES ASSUME NEW q \in OrderIds, orders[q].status = "ABERTA"
               PROVE  \/ expireJobs'[q].state = "delayed" /\ expireJobs'[q].at = orders[q].expiraEm
                      \/ \E v \in Workers : task'[v].step = "scheduleExpiry" /\ task'[v].order = q
                      \/ failures' > 0
    BY <1>0 DEF OpenHasExpiryJob
  <2>1. \/ expireJobs[q].state = "delayed" /\ expireJobs[q].at = orders[q].expiraEm
        \/ \E v \in Workers : task[v].step = "scheduleExpiry" /\ task[v].order = q
        \/ failures > 0
    BY DEF OrdersInv, OpenHasExpiryJob
  <2>2. q # o
    BY <1>0
  <2> QED
    BY <1>0, <1>1, <2>1, <2>2 DEF OthersWait
<1> QED
  BY <1>2, <1>3, <1>4, <1>5, <1>6 DEF OrdersInv

LEMMA CompleteJobStep ==
  ASSUME OrdersInv, NEW w \in Workers, CompleteJob(w)
  PROVE  OrdersInv'
<1>1. /\ JobsShape /\ failures \in Nat /\ At(w, "completeJob") /\ Finish(w)
      /\ UNCHANGED <<orders, proposals, acted, failures>>
      /\ expireJobs' = [expireJobs EXCEPT ![task[w].order] = [state |-> "absent", at |-> 0]]
  BY DEF OrdersInv, Shape, CompleteJob, Complete, NoJob, clock
<1>2. JobsShape' /\ \A q \in OrderIds \ {task[w].order} : expireJobs'[q] = expireJobs[q]
  BY <1>1 DEF JobsShape
<1> QED
  BY <1>1, <1>2, JobEnds

LEMMA FailureStep ==
  ASSUME OrdersInv, NEW w \in Workers, Failure(w)
  PROVE  OrdersInv'
<1>0. /\ Shape /\ JobsShape /\ Finish(w) /\ failures' = failures + 1 /\ failures' \in Nat
      /\ UNCHANGED <<orders, proposals, acted>>
  BY DEF OrdersInv, Shape, Failure
<1>1. CASE At(w, "completeJob")
  <2>0. task[w].order \in OrderIds
    BY <1>1 DEF OrdersInv, HandlerConsistent, At
  <2>1. \/ expireJobs' = Fail(expireJobs, task[w].order)
        \/ expireJobs' = Stall(expireJobs, task[w].order)
    BY <1>1 DEF Failure
  <2>2. /\ JobsShape'
        /\ \A q \in OrderIds \ {task[w].order} : expireJobs'[q] = expireJobs[q]
    <3>1. CASE expireJobs' = Fail(expireJobs, task[w].order)
      BY <1>0, <2>0, <3>1, SMTT(60) DEF Fail, JobsShape
    <3>2. CASE expireJobs' = Stall(expireJobs, task[w].order)
      BY <1>0, <2>0, <3>2, SMTT(60) DEF Stall, JobsShape
    <3> QED
      BY <2>1, <3>1, <3>2
  <2> QED
    BY <1>0, <1>1, <2>2, JobEnds DEF Shape
<1>2. CASE ~At(w, "completeJob")
  <2>1. UNCHANGED <<orders, proposals, expireJobs>>
    BY <1>0, <1>2 DEF Failure
  <2>2. TaskShape' /\ OthersWait(w) /\ task'[w] = Idle
    BY <1>0, Moves DEF Shape
  <2>3. task'[w].step = "idle"
    BY <2>2 DEF Idle, Doing
  <2>4. HandlerConsistent(w)' /\ ~HoldsJobId(w)'
    BY <2>3 DEF HandlerConsistent, HoldsJobId, At
  <2>5. failures <= failures' /\ failures' > 0
    BY <1>0 DEF Shape
  <2> QED
    BY <1>0, <2>1, <2>2, <2>4, <2>5, TablesUntouched
<1> QED
  BY <1>1, <1>2

\* The team, the clock, and steps of nobody change nothing a handler relies on.
LEMMA QuietStep ==
  ASSUME OrdersInv, UNCHANGED <<orders, proposals, expireJobs, task, failures, acted>>
  PROVE  OrdersInv'
<1>1. Shape' /\ Statuses' /\ NoJobBeforeOrder'
  BY DEF OrdersInv, Shape, OrdersShape, ProposalsShape, JobsShape, TaskShape, Statuses,
         NoJobBeforeOrder
<1>2. \A w \in Workers : HandlerConsistent(w)'
  BY DEF OrdersInv, HandlerConsistent, HoldsJobId, OnOwnSide, At
<1>3. HoldersDistinct' /\ OneWinner' /\ AwardedByOwnSide' /\ OpenHasExpiryJob'
  BY DEF OrdersInv, HoldersDistinct, HoldsJobId, OneWinner, AwardedByOwnSide,
         OpenHasExpiryJob, At
<1> QED
  BY <1>1, <1>2, <1>3 DEF OrdersInv

LEMMA InitEstablishes == Init => OrdersInv
<1> SUFFICES ASSUME Init PROVE OrdersInv
  OBVIOUS
<1>1. /\ orders = [o \in OrderIds |-> NoOrder]
      /\ proposals = [op \in Proposals |-> [valor |-> 0, status |-> "AUSENTE"]]
      /\ expireJobs = [o \in OrderIds |-> [state |-> "absent", at |-> 0]]
      /\ task = [w \in Workers |-> Idle] /\ failures = 0
  BY DEF Init, EmptyQueue, NoJob
<1>2. Shape
  BY <1>1 DEF Shape, OrdersShape, ProposalsShape, JobsShape, TaskShape, NoOrder, Idle, Doing
<1>3. \A w \in Workers : task[w].step = "idle"
  BY <1>1 DEF Idle, Doing
<1>4. Statuses /\ NoJobBeforeOrder /\ \A o \in OrderIds : orders[o].status = "AUSENTE"
  BY <1>1 DEF Statuses, NoJobBeforeOrder, NoOrder
<1>5. (\A w \in Workers : HandlerConsistent(w)) /\ HoldersDistinct
  BY <1>3 DEF HandlerConsistent, HoldersDistinct, HoldsJobId, At
<1>6. OneWinner /\ AwardedByOwnSide /\ OpenHasExpiryJob
  BY <1>1, <1>4 DEF OneWinner, AwardedByOwnSide, OpenHasExpiryJob
<1> QED
  BY <1>2, <1>4, <1>5, <1>6 DEF OrdersInv

LEMMA StepPreserves == OrdersInv /\ [Next]_vars => OrdersInv'
<1> SUFFICES ASSUME OrdersInv, [Next]_vars PROVE OrdersInv'
  OBVIOUS
<1>1. CASE \E w \in Workers, u \in Users : Request(w, u)
  BY <1>1, RequestStep
<1>2. ASSUME NEW w \in Workers, Step(w) PROVE OrdersInv'
  BY <1>2, CreateOrderStep, ScheduleExpiryStep, SideStep, UpsertStep, SetPisoStep,
     AdjudicateStep, CompleteJobStep DEF Step
<1>3. CASE \E w \in Workers : Failure(w)
  BY <1>3, FailureStep
<1>4. CASE \E o \in OrderIds : StartExpire(o)
  BY <1>4, ExpireStep DEF StartExpire
<1>5. CASE Team \/ Tick
  BY <1>5, QuietStep DEF Team, Tick, store, clock
<1>6. CASE UNCHANGED vars
  BY <1>6, QuietStep DEF vars, store, clock
<1> QED
  BY <1>1, <1>2, <1>3, <1>4, <1>5, <1>6 DEF Next

\* Whatever handlers run at the same time and wherever they stop, the rows and what
\* the handlers remember of them stay consistent.
THEOREM OrdersInvariance == Spec => []OrdersInv
BY InitEstablishes, StepPreserves, PTL DEF Spec

\* An order has at most one accepted proposal, and only once it was awarded: the guard
\* of adjudicate is enough for any number of concurrent awards and late proposals.
THEOREM OrderHasOneWinner == Spec => []OneWinner
<1>1. OrdersInv => OneWinner
  BY DEF OrdersInv
<1> QED
  BY <1>1, OrdersInvariance, PTL

\* An order is awarded by its owner or by somebody who acted for the owner, although
\* adjudicate does not look at who accepts: acceptProposal did, before.
THEOREM OrderAwardedByOwnSide == Spec => []AwardedByOwnSide
<1>1. OrdersInv => AwardedByOwnSide
  BY DEF OrdersInv
<1> QED
  BY <1>1, OrdersInvariance, PTL

\* Until something fails, an open order has its expiry job, which is added once and
\* which nothing removes before it runs.
THEOREM OrderExpiryScheduled == Spec => []OpenHasExpiryJob
<1>1. OrdersInv => OpenHasExpiryJob
  BY DEF OrdersInv
<1> QED
  BY <1>1, OrdersInvariance, PTL

--------------------------------------------------------------------------------
(* The handlers implement the auction *)

\* What the auction sees of an order is its status, who has a proposal, and whose was
\* accepted; a step that keeps these is one the auction does not see.
LEMMA Unseen ==
  ASSUME \A o \in OrderIds : orders'[o].status = orders[o].status,
         \A op \in Proposals : proposals'[op].status = proposals[op].status
  PROVE  UNCHANGED Promise!auction
<1>1. \A o \in OrderIds, p \in Professionals :
        proposals'[<<o, p>>].status = proposals[<<o, p>>].status
  BY DEF Proposals
<1>2. statusOf' = statusOf
  BY DEF statusOf
<1>3. biddersOf' = biddersOf /\ winnersOf' = winnersOf
  BY <1>1 DEF biddersOf, winnersOf, Bidders
<1> QED
  BY <1>2, <1>3 DEF Promise!auction

\* The insert opens the order.
LEMMA CreateOrderOpens ==
  ASSUME OrdersInv, NEW w \in Workers, CreateOrder(w)
  PROVE  Promise!Open(task[w].order)
<1> DEFINE o == task[w].order
<1>0. /\ OrdersShape /\ o \in OrderIds /\ orders[o].status = "AUSENTE"
      /\ proposals' = proposals
  BY DEF OrdersInv, Shape, HandlerConsistent, CreateOrder, At
<1>1. PICK prazo \in URGENCY_DEADLINE_HOURS :
        orders' = [orders EXCEPT ![o] =
          [contractorId |-> task[w].user, status |-> "ABERTA", expiraEm |-> now + prazo,
           piso |-> NoPiso, adjudicador |-> NoUser]]
  BY DEF CreateOrder
<1>2. orders'[o].status = "ABERTA" /\ \A q \in OrderIds \ {o} : orders'[q] = orders[q]
  BY <1>0, <1>1 DEF OrdersShape
<1>3. statusOf[o] = "none" /\ statusOf' = [statusOf EXCEPT ![o] = "open"]
  BY <1>0, <1>2 DEF statusOf
<1>4. biddersOf' = biddersOf /\ winnersOf' = winnersOf
  BY <1>0 DEF biddersOf, winnersOf, Bidders
<1> QED
  BY <1>3, <1>4 DEF Promise!Open

\* A proposal is a bid, also when it comes late.
LEMMA UpsertBids ==
  ASSUME OrdersInv, NEW w \in Workers, Upsert(w)
  PROVE  Promise!Bid(task[w].order, task[w].bidder)
<1> DEFINE o == task[w].order
           p == task[w].bidder
<1>0. /\ ProposalsShape /\ o \in OrderIds /\ p \in Professionals
      /\ orders[o].status # "AUSENTE" /\ orders' = orders
      /\ orders[o].status \in {"AUSENTE", "ABERTA", "ADJUDICADA", "EXPIRADA"}
  BY DEF OrdersInv, Shape, Statuses, HandlerConsistent, Upsert, At
<1>1. proposals' =
        [proposals EXCEPT ![<<o, p>>] = [valor |-> task[w].valor, status |-> "ENVIADA"]]
  BY DEF Upsert
<1>2. /\ <<o, p>> \in Proposals /\ proposals'[<<o, p>>].status = "ENVIADA"
      /\ \A q \in OrderIds, r \in Professionals : q # o \/ r # p =>
           proposals'[<<q, r>>] = proposals[<<q, r>>]
  BY <1>0, <1>1 DEF ProposalsShape, Proposals
<1>3. statusOf' = statusOf /\ statusOf[o] # "none"
  BY <1>0 DEF statusOf
<1>4. biddersOf' = [biddersOf EXCEPT ![o] = @ \cup {p}]
  <2>1. \A q \in OrderIds :
          {r \in Professionals : proposals'[<<q, r>>].status # "AUSENTE"} =
            IF q = o THEN {r \in Professionals : proposals[<<q, r>>].status # "AUSENTE"} \cup {p}
            ELSE {r \in Professionals : proposals[<<q, r>>].status # "AUSENTE"}
    BY <1>0, <1>2
  <2> QED
    BY <1>0, <2>1 DEF biddersOf, Bidders
<1>5. winnersOf' = [winnersOf EXCEPT ![o] = @ \ {p}]
  <2>1. \A q \in OrderIds :
          {r \in Professionals : proposals'[<<q, r>>].status = "ACEITA"} =
            IF q = o THEN {r \in Professionals : proposals[<<q, r>>].status = "ACEITA"} \ {p}
            ELSE {r \in Professionals : proposals[<<q, r>>].status = "ACEITA"}
    BY <1>0, <1>2
  <2> QED
    BY <1>0, <2>1, ZenonT(40) DEF winnersOf
<1> QED
  BY <1>3, <1>4, <1>5 DEF Promise!Bid

\* The guarded transition of an open order is the award; of any other, nothing.
LEMMA AdjudicateAwards ==
  ASSUME OrdersInv, NEW w \in Workers, Adjudicate(w)
  PROVE  Promise!Award(task[w].order, task[w].bidder) \/ UNCHANGED Promise!auction
<1> DEFINE o == task[w].order
           p == task[w].bidder
<1>0. /\ OrdersShape /\ ProposalsShape /\ o \in OrderIds /\ p \in Professionals
      /\ proposals[<<o, p>>].status # "AUSENTE"
  BY DEF OrdersInv, Shape, HandlerConsistent, Adjudicate, At
<1>1. CASE orders[o].status = "ABERTA"
  <2>1. /\ orders' = [orders EXCEPT ![o] = AwardedBy(o, task[w].user)]
        /\ proposals' = Adjudicated(o, p)
    BY <1>1 DEF Adjudicate
  <2>2. /\ orders'[o].status = "ADJUDICADA"
        /\ \A q \in OrderIds \ {o} : orders'[q] = orders[q]
    BY <1>0, <2>1 DEF OrdersShape, AwardedBy
  <2>3. \A q \in OrderIds, r \in Professionals : proposals'[<<q, r>>].status =
          CASE q = o /\ r = p -> "ACEITA"
            [] q = o /\ r # p /\ proposals[<<q, r>>].status = "ENVIADA" -> "RECUSADA"
            [] OTHER -> proposals[<<q, r>>].status
    BY <2>1 DEF Adjudicated, Proposals
  <2>4. \A r \in Professionals : proposals[<<o, r>>].status # "ACEITA"
    BY <1>0, <1>1 DEF OrdersInv, OneWinner, Proposals
  <2>5. statusOf[o] = "open" /\ statusOf' = [statusOf EXCEPT ![o] = "awarded"]
    BY <1>0, <1>1, <2>2 DEF statusOf
  <2>6. p \in biddersOf[o] /\ biddersOf' = biddersOf
    <3>1. \A q \in OrderIds, r \in Professionals :
            (proposals'[<<q, r>>].status # "AUSENTE") <=> (proposals[<<q, r>>].status # "AUSENTE")
      BY <1>0, <2>3
    <3> QED
      BY <1>0, <3>1 DEF biddersOf, Bidders
  <2>7. winnersOf' = [winnersOf EXCEPT ![o] = {p}]
    <3>1. \A r \in Professionals : (proposals'[<<o, r>>].status = "ACEITA") <=> (r = p)
      BY <1>0, <2>3, <2>4
    <3>2. \A q \in OrderIds \ {o}, r \in Professionals :
            proposals'[<<q, r>>].status = proposals[<<q, r>>].status
      BY <2>3
    <3>3. \A q \in OrderIds :
            {r \in Professionals : proposals'[<<q, r>>].status = "ACEITA"} =
              IF q = o THEN {p}
              ELSE {r \in Professionals : proposals[<<q, r>>].status = "ACEITA"}
      BY <1>0, <3>1, <3>2
    <3> QED
      BY <1>0, <3>3 DEF winnersOf
  <2> QED
    BY <2>5, <2>6, <2>7 DEF Promise!Award
<1>2. CASE orders[o].status # "ABERTA"
  <2>1. orders' = orders /\ proposals' = proposals
    BY <1>2 DEF Adjudicate
  <2> QED
    BY <2>1, Unseen
<1> QED
  BY <1>1, <1>2

\* The job closes an order that is still open.
LEMMA ExpireCloses ==
  ASSUME OrdersInv, NEW w \in Workers, NEW o \in OrderIds, ExpireIfOpen(w, o)
  PROVE  Promise!Expire(o) \/ UNCHANGED Promise!auction
<1>0. OrdersShape /\ proposals' = proposals
  BY DEF OrdersInv, Shape, ExpireIfOpen
<1>1. CASE orders[o].status = "ABERTA"
  <2>1. orders' = [orders EXCEPT ![o].status = "EXPIRADA"]
    BY <1>1 DEF ExpireIfOpen
  <2>2. orders'[o].status = "EXPIRADA" /\ \A q \in OrderIds \ {o} : orders'[q] = orders[q]
    BY <1>0, <2>1 DEF OrdersShape
  <2>3. statusOf[o] = "open" /\ statusOf' = [statusOf EXCEPT ![o] = "expired"]
    BY <1>1, <2>2 DEF statusOf
  <2>4. biddersOf' = biddersOf /\ winnersOf' = winnersOf
    BY <1>0 DEF biddersOf, winnersOf, Bidders
  <2> QED
    BY <2>3, <2>4 DEF Promise!Expire
<1>2. CASE orders[o].status # "ABERTA"
  <2>1. orders' = orders
    BY <1>2 DEF ExpireIfOpen
  <2> QED
    BY <1>0, <2>1, Unseen
<1> QED
  BY <1>1, <1>2

LEMMA InitOpensNothing == Init => Promise!Init
<1> SUFFICES ASSUME Init PROVE Promise!Init
  OBVIOUS
<1>1. (\A o \in OrderIds : orders[o].status = "AUSENTE")
      /\ \A o \in OrderIds, p \in Professionals : proposals[<<o, p>>].status = "AUSENTE"
  BY DEF Init, NoOrder, Proposals
<1>2. statusOf = [o \in OrderIds |-> "none"]
  BY <1>1 DEF statusOf
<1>3. biddersOf = [o \in OrderIds |-> {}] /\ winnersOf = [o \in OrderIds |-> {}]
  BY <1>1 DEF biddersOf, winnersOf, Bidders
<1> QED
  BY <1>2, <1>3 DEF Promise!Init

LEMMA StepSimulates == OrdersInv /\ [Next]_vars => [Promise!Next]_(Promise!auction)
<1> SUFFICES ASSUME OrdersInv, [Next]_vars
             PROVE  Promise!Next \/ UNCHANGED Promise!auction
  OBVIOUS
<1>1. ASSUME NEW w \in Workers, NEW u \in Users, Request(w, u)
      PROVE  UNCHANGED Promise!auction
  <2>1. orders' = orders /\ proposals' = proposals
    BY <1>1 DEF Request, OpenWorkOrder, UploadFoto, AcceptProposal, SubmitProposal, store
  <2> QED
    BY <2>1, Unseen
<1>2. ASSUME NEW w \in Workers, Step(w)
      PROVE  Promise!Next \/ UNCHANGED Promise!auction
  <2>0. At(w, "upsert") \/ At(w, "adjudicate") => task[w].bidder \in Professionals
    BY DEF OrdersInv, HandlerConsistent, At
  <2>00. task[w].step # "idle" => task[w].order \in OrderIds
    BY DEF OrdersInv, HandlerConsistent
  <2>1. CASE CreateOrder(w)
    BY <2>1, <2>00, CreateOrderOpens DEF Promise!Next, CreateOrder, At
  <2>2. CASE Upsert(w)
    BY <2>2, <2>0, <2>00, UpsertBids DEF Promise!Next, Upsert, At
  <2>3. CASE Adjudicate(w)
    BY <2>3, <2>0, <2>00, AdjudicateAwards DEF Promise!Next, Adjudicate, At
  <2>4. CASE SetPiso(w)
    <3>1. OrdersShape /\ orders' = [orders EXCEPT ![task[w].order].piso = task[w].valor]
          /\ proposals' = proposals
      BY <2>4 DEF OrdersInv, Shape, SetPiso
    <3>2. \A o \in OrderIds : orders'[o].status = orders[o].status
      BY <3>1 DEF OrdersShape
    <3> QED
      BY <3>1, <3>2, Unseen
  <2>5. CASE ScheduleExpiry(w) \/ AddFoto(w) \/ ReadValues(w) \/ CompleteJob(w)
    <3>1. orders' = orders /\ proposals' = proposals
      BY <2>5 DEF ScheduleExpiry, AddFoto, ReadValues, CompleteJob, store
    <3> QED
      BY <3>1, Unseen
  <2> QED
    BY <1>2, <2>1, <2>2, <2>3, <2>4, <2>5 DEF Step
<1>3. ASSUME NEW w \in Workers, NEW o \in OrderIds, ExpireIfOpen(w, o)
      PROVE  Promise!Next \/ UNCHANGED Promise!auction
  BY <1>3, ExpireCloses DEF Promise!Next
<1>4. CASE (\E w \in Workers : Failure(w)) \/ Team \/ Tick \/ UNCHANGED vars
  <2>1. orders' = orders /\ proposals' = proposals
    BY <1>4 DEF Failure, Team, Tick, vars, store
  <2> QED
    BY <2>1, Unseen
<1> QED
  BY <1>1, <1>2, <1>3, <1>4 DEF Next, StartExpire

\* The handlers implement the auction: an order opens and closes once, goes to
\* somebody who bid on it, and never passes from one professional to another.
THEOREM ImplementsAuction == Spec => PromiseSpec
<1>1. Init => Promise!Init
  BY InitOpensNothing
<1>2. OrdersInv /\ [Next]_vars => [Promise!Next]_(Promise!auction)
  BY StepSimulates
<1> QED
  BY <1>1, <1>2, OrdersInvariance, PTL DEF Spec, PromiseSpec, Promise!Spec

--------------------------------------------------------------------------------
(* The floor of an order *)

\* The sum of the bids on o, as MapThenSumSet computes it: some element first, then
\* the rest.  What is said of a sum is proved by induction on how many bids there are,
\* as the choice of a least counterexample.
SumOfBids(o, B) == MapThenSumSet(LAMBDA p : proposals[<<o, p>>].valor, B)
First(s) == CHOOSE x \in s : TRUE
SumsOn(g, D, o) ==
  g = [s \in D |-> IF s = {} THEN 0
                   ELSE proposals[<<o, First(s)>>].valor + g[s \ {First(s)}]]
UpTo(n, B) == {s \in SUBSET B : Cardinality(s) <= n}

\* A set of natural numbers has a least element.
LEMMA LeastNumber ==
  ASSUME NEW N, N \subseteq Nat, N # {}
  PROVE  \E n \in N : \A m \in N : ~(m < n)
<1> DEFINE R == OpToRel(<, Nat)
<1>1. IsWellFoundedOn(R, Nat)
  BY NatLessThanWellFounded
<1>2. PICK n \in N : \A m \in N : ~(<<m, n>> \in R)
  <2> HIDE DEF R
  <2> QED
    BY <1>1, WFMin
<1>3. \A m \in N : m < n => <<m, n>> \in R
  BY DEF OpToRel
<1> QED
  BY <1>2, <1>3

LEMMA Smaller ==
  ASSUME NEW s, IsFiniteSet(s), s # {}
  PROVE  /\ First(s) \in s
         /\ Cardinality(s) \in Nat \ {0}
         /\ IsFiniteSet(s \ {First(s)})
         /\ Cardinality(s \ {First(s)}) = Cardinality(s) - 1
<1>1. First(s) \in s
  BY DEF First
<1>2. Cardinality(s) \in Nat /\ Cardinality(s) # 0
  BY FS_CardinalityType, FS_EmptySet
<1> QED
  BY <1>1, <1>2, FS_RemoveElement

LEMMA SumUpToExists ==
  ASSUME NEW B, IsFiniteSet(B), NEW o, NEW n \in Nat
  PROVE  \E g : SumsOn(g, UpTo(n, B), o)
<1> DEFINE None == {m \in Nat : ~ \E g : SumsOn(g, UpTo(m, B), o)}
<1> SUFFICES ASSUME None # {} PROVE FALSE
  OBVIOUS
<1>1. PICK m \in None : \A k \in None : ~(k < m)
  <2> HIDE DEF None
  <2>1. None \subseteq Nat
    BY DEF None
  <2> QED
    BY <2>1, LeastNumber
<1>2. \A s \in SUBSET B : IsFiniteSet(s) /\ Cardinality(s) \in Nat
  BY FS_Subset, FS_CardinalityType
<1>3. m # 0
  <2> SUFFICES ASSUME m = 0 PROVE FALSE
    OBVIOUS
  <2>1. \A s \in UpTo(0, B) : s = {}
    BY <1>2, FS_EmptySet DEF UpTo
  <2> DEFINE g == [s \in UpTo(0, B) |-> 0]
  <2>2. SumsOn(g, UpTo(0, B), o)
    BY <2>1 DEF SumsOn
  <2> QED
    BY <2>2
<1>4. PICK h : SumsOn(h, UpTo(m - 1, B), o)
  <2>1. m - 1 \in Nat /\ m - 1 < m
    BY <1>3
  <2> QED
    BY <1>1, <2>1
<1> DEFINE Value(s) == IF s = {} THEN 0 ELSE proposals[<<o, First(s)>>].valor + h[s \ {First(s)}]
<1> DEFINE g == [s \in UpTo(m, B) |-> Value(s)]
<1>5. \A s \in UpTo(m - 1, B) : s \in UpTo(m, B) /\ g[s] = h[s]
  <2> TAKE s \in UpTo(m - 1, B)
  <2>1. s \in UpTo(m, B)
    BY <1>2 DEF UpTo
  <2>2. h[s] = Value(s)
    BY <1>4 DEF SumsOn
  <2> QED
    BY <2>1, <2>2
<1>6. \A s \in UpTo(m, B) : s # {} => s \ {First(s)} \in UpTo(m - 1, B)
  <2> SUFFICES ASSUME NEW s \in UpTo(m, B), s # {}
               PROVE  s \ {First(s)} \in UpTo(m - 1, B)
    OBVIOUS
  <2>1. s \in SUBSET B /\ Cardinality(s) <= m
    BY DEF UpTo
  <2>2. Cardinality(s \ {First(s)}) = Cardinality(s) - 1 /\ Cardinality(s) \in Nat
    BY <1>2, <2>1, Smaller
  <2> QED
    BY <2>1, <2>2 DEF UpTo
<1>7. SumsOn(g, UpTo(m, B), o)
  BY <1>5, <1>6 DEF SumsOn
<1> QED
  BY <1>7

LEMMA SumOfBidsBounds ==
  ASSUME NEW B, IsFiniteSet(B), NEW o, \A p \in B : proposals[<<o, p>>].valor \in Nat
  PROVE  /\ SumOfBids(o, B) \in Nat
         /\ \A top \in Nat : (\A p \in B : proposals[<<o, p>>].valor <= top)
                               => SumOfBids(o, B) <= top * Cardinality(B)
<1> DEFINE g == CHOOSE iter : SumsOn(iter, SUBSET B, o)
           Tops == {top \in Nat : \A p \in B : proposals[<<o, p>>].valor <= top}
           Bounded(s) == g[s] \in Nat /\ \A top \in Tops : g[s] <= top * Cardinality(s)
<1>1. SumsOn(g, SUBSET B, o)
  <2>1. UpTo(Cardinality(B), B) = SUBSET B
    BY FS_Subset, FS_CardinalityType DEF UpTo
  <2>2. Cardinality(B) \in Nat
    BY FS_CardinalityType
  <2>3. \E iter : SumsOn(iter, UpTo(Cardinality(B), B), o)
    BY <2>2, SumUpToExists
  <2>4. \E iter : SumsOn(iter, SUBSET B, o)
    BY <2>1, <2>3
  <2> QED
    BY Zenon, <2>4
<1>2. SumOfBids(o, B) = g[B]
  BY Zenon DEF SumOfBids, MapThenSumSet, MapThenFoldSet, SumsOn, First
<1> HIDE DEF g
<1> DEFINE Odd == {n \in Nat : \E s \in SUBSET B : Cardinality(s) = n /\ ~Bounded(s)}
<1>3. Odd = {}
  <2> SUFFICES ASSUME Odd # {} PROVE FALSE
    OBVIOUS
  <2>1. PICK n \in Odd : \A k \in Odd : ~(k < n)
    <3> HIDE DEF Odd
    <3>1. Odd \subseteq Nat
      BY DEF Odd
    <3> QED
      BY <3>1, LeastNumber
  <2>2. PICK s \in SUBSET B : Cardinality(s) = n /\ ~Bounded(s)
    BY <2>1
  <2>3. s # {}
    <3> SUFFICES ASSUME s = {} PROVE FALSE
      OBVIOUS
    <3>1. g[s] = 0 /\ Cardinality(s) = 0
      BY <1>1, FS_EmptySet DEF SumsOn
    <3>2. \A top \in Tops : 0 <= top * 0
      OBVIOUS
    <3> QED
      BY <2>2, <3>1, <3>2
  <2> DEFINE r == s \ {First(s)}
  <2>4. /\ First(s) \in B /\ r \in SUBSET B
        /\ n \in Nat /\ Cardinality(r) \in Nat /\ Cardinality(r) = n - 1
    BY <2>2, <2>3, Smaller, FS_Subset
  <2>5. Bounded(r)
    <3>1. Cardinality(r) \notin Odd
      <4> HIDE DEF Odd, r
      <4> QED
        BY <2>1, <2>4
    <3> HIDE DEF Bounded, r
    <3> QED
      BY <2>4, <3>1
  <2>6. g[s] = proposals[<<o, First(s)>>].valor + g[r]
    BY <1>1, <2>3 DEF SumsOn
  <2>7. PICK v \in Nat : v = proposals[<<o, First(s)>>].valor
    BY <2>4
  <2>8. g[s] \in Nat
    BY <2>5, <2>6, <2>7
  <2>9. ASSUME NEW top \in Tops PROVE g[s] <= top * n
    <3>1. v <= top /\ top \in Nat
      BY <2>4, <2>7
    <3>2. top * (n - 1) = top * n - top
      BY <2>4, <3>1
    <3>3. g[r] \in Nat /\ g[r] <= top * n - top
      BY <2>4, <2>5, <3>2
    <3>4. top * n \in Nat
      BY <2>4, <3>1
    <3> HIDE DEF r, Tops
    <3> QED
      BY <2>6, <2>7, <3>1, <3>3, <3>4
  <2> QED
    BY <2>2, <2>8, <2>9
<1> QED
  <2>1. Cardinality(B) \in Nat
    BY FS_CardinalityType
  <2>2. Bounded(B)
    BY <1>3, <2>1
  <2> QED
    BY <1>2, <2>2

LEMMA Quotient ==
  ASSUME NEW a \in Nat, NEW b \in Nat \ {0}
  PROVE  a \div b \in Nat
OBVIOUS

LEMMA BidsAreNatural ==
  ASSUME proposals \in [Proposals -> Proposal], NEW o \in OrderIds, NEW p \in Bidders(o)
  PROVE  proposals[<<o, p>>].valor \in Nat
<1>1. <<o, p>> \in Proposals
  BY DEF Bidders, Proposals
<1>2. PICK r \in Proposal : r = proposals[<<o, p>>]
  BY <1>1
<1>3. r.valor \in Valores \cup {0}
  BY DEF Proposal
<1> QED
  BY <1>2, <1>3, OrdersAssumption

LEMMA FloorIsNatural ==
  ASSUME proposals \in [Proposals -> Proposal], NEW o \in OrderIds
  PROVE  dignityFloorCentavos(o, Bidders(o)) \in Nat
<1> DEFINE B == Bidders(o)
           n == Cardinality(B)
<1>1. IsFiniteSet(B) /\ n \in Nat
  BY TeamAssumption, FS_Subset, FS_CardinalityType DEF Bidders
<1>2. \A p \in B : proposals[<<o, p>>].valor \in Nat
  BY BidsAreNatural
<1>3. PICK sum \in Nat : sum = SumOfBids(o, B)
  BY <1>1, <1>2, SumOfBidsBounds
<1>4. CASE n < MIN_BIDS_FOR_FLOOR
  BY <1>4 DEF dignityFloorCentavos, NoPiso
<1>5. CASE ~(n < MIN_BIDS_FOR_FLOOR)
  <2>1. 14 * sum + 10 * n \in Nat /\ 20 * n \in Nat \ {0}
    BY <1>1, <1>5, OrdersAssumption
  <2>2. (14 * sum + 10 * n) \div (20 * n) \in Nat
    <3> HIDE DEF n
    <3> QED
      BY <2>1, Quotient
  <2>3. dignityFloorCentavos(o, B) = (14 * sum + 10 * n) \div (20 * n)
    BY <1>3, <1>5 DEF dignityFloorCentavos, SumOfBids
  <2> QED
    BY <2>2, <2>3
<1> QED
  BY <1>4, <1>5

LEMMA QuotientBound ==
  ASSUME NEW n \in Nat \ {0}, NEW top \in Nat, NEW sum \in Nat, sum <= top * n
  PROVE  (14 * sum + 10 * n) \div (20 * n) <= top
<1> DEFINE a == 14 * sum + 10 * n
           d == 20 * n
           q == a \div d
<1>1. a \in Nat /\ d \in Nat \ {0}
  OBVIOUS
<1>2. q \in Nat /\ q * d <= a
  <2> HIDE DEF a, d
  <2> QED
    BY <1>1
<1>3. a <= 14 * (top * n) + 10 * n
  OBVIOUS
<1>4. SUFFICES ASSUME q >= top + 1 PROVE FALSE
  BY <1>2
<1>5. q * d >= (top + 1) * d
  <2> HIDE DEF a, d, q
  <2> QED
    BY <1>1, <1>2, <1>4
<1>6. (top + 1) * d = 20 * (top * n) + 20 * n
  OBVIOUS
<1>7. top * n \in Nat
  OBVIOUS
<1> QED
  <2> DEFINE x == top * n
             y == q * d
             z == (top + 1) * d
  <2>1. y <= a /\ y >= z /\ z = 20 * x + 20 * n /\ a <= 14 * x + 10 * n /\ x \in Nat
    BY <1>2, <1>3, <1>5, <1>6, <1>7
  <2>2. a \in Nat /\ y \in Nat /\ z \in Nat
    BY <1>1, <1>2
  <2> HIDE DEF a, d, q, x, y, z
  <2> QED
    BY <2>1, <2>2

--------------------------------------------------------------------------------
(* Types *)

LEMMA LatestIsRow ==
  ASSUME members \in Seq(Member), NEW Rows, Rows \subseteq DOMAIN members, Rows # {}
  PROVE  LatestCompany(Rows) \in Companies
<1>1. Rows \subseteq 1 .. Len(members) /\ Len(members) \in Nat
  OBVIOUS
<1> DEFINE Ages == {Len(members) - k : k \in Rows}
<1>2. Ages \subseteq Nat /\ Ages # {}
  BY <1>1
<1>3. PICK age \in Ages : \A a \in Ages : ~(a < age)
  <2> HIDE DEF Ages
  <2> QED
    BY <1>2, LeastNumber
<1>4. \E k \in Rows : \A j \in Rows : k >= j
  <2>1. PICK k \in Rows : age = Len(members) - k
    BY <1>3
  <2>2. ASSUME NEW j \in Rows PROVE k >= j
    <3>1. Len(members) - j \in Ages
      OBVIOUS
    <3>2. ~(Len(members) - j < Len(members) - k)
      BY <1>3, <2>1, <3>1
    <3> QED
      BY <1>1, <3>2
  <2> QED
    BY <2>2
<1>5. Max(Rows) \in Rows
  BY <1>4 DEF Max
<1>6. members[Max(Rows)] \in Member
  BY <1>1, <1>5
<1> QED
  BY <1>6 DEF LatestCompany, Member

LEMMA OwnerIsUser ==
  ASSUME members \in Seq(Member), NEW u \in Users
  PROVE  effectiveOwner(u) \in Users
<1>1. ASSUME NEW linked, RowsOf(u, linked) # {}
      PROVE  LatestCompany(RowsOf(u, linked)) \in Companies
  <2>1. RowsOf(u, linked) \subseteq DOMAIN members
    BY DEF RowsOf
  <2> QED
    BY <1>1, <2>1, LatestIsRow
<1>2. companyActingAs(u) \in Companies \cup {NoUser}
  BY <1>1 DEF companyActingAs, Unlinked
<1> QED
  BY <1>2 DEF effectiveOwner, Users

LEMMA LinkedAreMembers ==
  ASSUME members \in Seq(Member), NEW u
  PROVE  LinkedMembers(u) \in Seq(Member)
<1> DEFINE row(k) == [members[k] EXCEPT !.linked = @ \/ members[k].email = u]
<1>1. \A k \in 1 .. Len(members) : row(k) \in Member
  <2> SUFFICES ASSUME NEW k \in 1 .. Len(members) PROVE row(k) \in Member
    OBVIOUS
  <2>1. PICK m \in Member : m = members[k]
    OBVIOUS
  <2>2. row(k) = [companyId |-> m.companyId, email |-> m.email,
                  linked |-> m.linked \/ m.email = u]
    BY <2>1 DEF Member
  <2>3. (m.linked \/ m.email = u) \in BOOLEAN
    OBVIOUS
  <2> QED
    BY <2>1, <2>2, <2>3 DEF Member
<1>2. DOMAIN members = 1 .. Len(members) /\ Len(members) \in Nat
  OBVIOUS
<1>3. [k \in DOMAIN members |-> row(k)] \in Seq(Member)
  <2> HIDE DEF row
  <2> QED
    BY <1>1, <1>2
<1> QED
  BY <1>3 DEF LinkedMembers

\* What TypeOK leaves out and its induction needs: an order is inserted for somebody who
\* may own one, a bid is one of the amounts, and somebody accepts a proposal.
Remembers(t) ==
  /\ t \in Task
  /\ t.step = "createOrder" => t.user \in Companies \cup Contractors
  /\ t.step = "upsert" => t.valor \in Valores
  /\ t.step = "adjudicate" => t.user \in Users

TypeInv == TypeOK /\ \A w \in Workers : Remembers(task[w])

TasksTyped == task \in [Workers -> Task] /\ \A w \in Workers : Remembers(task[w])

LEMMA StartTyped ==
  ASSUME TypeInv, NEW w \in Workers
  PROVE  /\ \A t : Remembers(t) /\ Start(w, t) => TasksTyped'
         /\ Finish(w) => TasksTyped'
         /\ \A step \in {"scheduleExpiry", "readValues"} : Goto(w, step) => TasksTyped'
<1>0. task \in [Workers -> Task] /\ \A v \in Workers : Remembers(task[v])
  BY DEF TypeInv, TypeOK
<1>1. ASSUME NEW t, Remembers(t), Start(w, t) PROVE TasksTyped'
  <2>1. t \in Task
    BY <1>1 DEF Remembers
  <2>2. task' \in [Workers -> Task]
    BY <1>0, <1>1, <2>1 DEF Start
  <2>3. ASSUME NEW v \in Workers PROVE Remembers(task[v])'
    <3>1. task'[v] = t \/ task'[v] = task[v]
      BY <1>0, <1>1 DEF Start
    <3>2. Remembers(task'[v])
      BY <1>0, <1>1, <3>1
    <3> QED
      BY <3>2 DEF Remembers
  <2> QED
    BY <2>2, <2>3 DEF TasksTyped
<1>2. Remembers(Idle)
  BY DEF Remembers, Idle, Doing, Task, Steps
<1>3. ASSUME NEW step \in {"scheduleExpiry", "readValues"}, Goto(w, step) PROVE TasksTyped'
  <2> DEFINE t == [task[w] EXCEPT !.step = step]
  <2>1. task[w] \in Task
    BY <1>0
  <2>2. t \in Task /\ t.step = step
    BY <2>1 DEF Task, Steps
  <2>3. Remembers(t)
    BY <2>2 DEF Remembers
  <2>4. Start(w, t)
    BY <1>3 DEF Goto, Start
  <2> HIDE DEF t
  <2> QED
    BY <1>1, <2>3, <2>4
<1> QED
  BY <1>1, <1>2, <1>3 DEF Finish

LEMMA AskTyped ==
  ASSUME TypeInv, NEW w \in Workers, NEW u \in Users, Asks(w, u)
  PROVE  /\ TeamTypeOK'
         /\ acted' \subseteq Users \X Users
         /\ effectiveOwner(u) \in Users
<1>1. TeamTypeOK /\ members \in Seq(Member) /\ acted \subseteq Users \X Users
  BY DEF TypeInv, TypeOK, TeamTypeOK
<1>2. effectiveOwner(u) \in Users
  BY <1>1, OwnerIsUser
<1>3. members' \in Seq(Member)
  BY <1>1, LinkedAreMembers DEF Asks
<1>4. TeamTypeOK'
  BY <1>1, <1>3 DEF Asks, TeamTypeOK
<1>5. acted' \subseteq Users \X Users
  BY <1>1, <1>2 DEF Asks
<1> QED
  BY <1>2, <1>4, <1>5

LEMMA RequestTyped ==
  ASSUME TypeInv, NEW w \in Workers, NEW u \in Users, Request(w, u)
  PROVE  TypeInv'
<1>1. Asks(w, u) /\ UNCHANGED <<store, clock>>
  BY DEF Request, OpenWorkOrder, UploadFoto, AcceptProposal, SubmitProposal
<1>2. TeamTypeOK' /\ acted' \subseteq Users \X Users /\ effectiveOwner(u) \in Users
  BY <1>1, AskTyped
<1>3. ASSUME OpenWorkOrder(w, u) PROVE TasksTyped'
  <2>1. PICK o \in OrderIds : Start(w, Doing("createOrder", effectiveOwner(u), o, NoUser, 0))
    BY <1>3 DEF OpenWorkOrder
  <2>2. effectiveOwner(u) \in Companies \cup Contractors
    BY <1>2, <1>3 DEF OpenWorkOrder, Users, People
  <2>3. Remembers(Doing("createOrder", effectiveOwner(u), o, NoUser, 0))
    BY <1>2, <2>2 DEF Remembers, Doing, Task, Steps
  <2> QED
    BY <2>1, <2>3, StartTyped
<1>4. ASSUME NEW o \in OrderIds, UploadFoto(w, u, o) PROVE TasksTyped'
  <2>1. Remembers(Doing("addFoto", NoUser, o, NoUser, 0))
    BY DEF Remembers, Doing, Task, Steps
  <2> QED
    BY <1>4, <2>1, StartTyped DEF UploadFoto
<1>5. ASSUME NEW o \in OrderIds, NEW p \in Professionals, AcceptProposal(w, u, o, p)
      PROVE  TasksTyped'
  <2>1. Remembers(Doing("adjudicate", u, o, p, 0))
    BY DEF Remembers, Doing, Task, Steps
  <2> QED
    BY <1>5, <2>1, StartTyped DEF AcceptProposal
<1>6. ASSUME NEW o \in OrderIds, NEW valor \in Valores, u \in Professionals,
             SubmitProposal(w, u, o, valor)
      PROVE  TasksTyped'
  <2>1. valor \in Nat
    BY OrdersAssumption
  <2>2. Remembers(Doing("upsert", NoUser, o, u, valor))
    BY <1>6, <2>1 DEF Remembers, Doing, Task, Steps
  <2> QED
    BY <1>6, <2>2, StartTyped DEF SubmitProposal
<1>7. TasksTyped'
  BY <1>3, <1>4, <1>5, <1>6 DEF Request
<1> QED
  BY <1>1, <1>2, <1>7 DEF TypeInv, TypeOK, TasksTyped, store, clock

--------------------------------------------------------------------------------
(* Steps keep the types *)

\* What a step that leaves the team and the clock alone has to show.
RowsTyped ==
  /\ orders \in [OrderIds -> Order \cup {NoOrder}]
  /\ proposals \in [Proposals -> Proposal]
  /\ fotos \in [OrderIds -> Nat]
  /\ expireJobs \in Queue(OrderIds)

LEMMA JobsTyped ==
  ASSUME expireJobs \in Queue(OrderIds), NEW o \in OrderIds, NEW t \in Nat
  PROVE  /\ Add(expireJobs, o, t) \in Queue(OrderIds)
         /\ Take(expireJobs, o) \in Queue(OrderIds)
         /\ Complete(expireJobs, o) \in Queue(OrderIds)
         /\ Fail(expireJobs, o) \in Queue(OrderIds)
         /\ Stall(expireJobs, o) \in Queue(OrderIds)
<1>1. /\ [state |-> "delayed", at |-> t] \in Job /\ NoJob \in Job
      /\ \A s \in JobStates : [expireJobs[o] EXCEPT !.state = s] \in Job
  BY DEF Job, JobStates, NoJob, Queue
<1>2. \A j \in Job : [expireJobs EXCEPT ![o] = j] \in Queue(OrderIds)
  BY DEF Queue
<1>3. Add(expireJobs, o, t) \in Queue(OrderIds)
  BY <1>1, <1>2 DEF Add
<1>4. Complete(expireJobs, o) \in Queue(OrderIds)
  BY <1>1, <1>2 DEF Complete
<1>5. \A s \in JobStates : [expireJobs EXCEPT ![o].state = s] \in Queue(OrderIds)
  BY <1>1, <1>2
<1> QED
  BY <1>3, <1>4, <1>5 DEF Take, Fail, Stall, JobStates

\* A worker that is not idle works on an order.
LEMMA BusyOrder ==
  ASSUME OrdersInv, NEW w \in Workers, task[w].step # "idle"
  PROVE  task[w].order \in OrderIds
BY DEF OrdersInv, HandlerConsistent

LEMMA StepTyped ==
  ASSUME OrdersInv, TypeInv, NEW w \in Workers, Step(w)
  PROVE  TypeInv'
<1> DEFINE o == task[w].order
<1>1. RowsTyped /\ task[w] \in Task /\ Remembers(task[w]) /\ now \in Nat
  BY DEF TypeInv, TypeOK, RowsTyped
<1>2. UNCHANGED <<team, clock, acted>> /\ task[w].step # "idle"
  BY DEF Step, CreateOrder, ScheduleExpiry, AddFoto, Upsert, ReadValues, SetPiso,
         Adjudicate, CompleteJob, At
<1>3. o \in OrderIds
  BY <1>2, BusyOrder
<1>4. ASSUME CreateOrder(w) PROVE RowsTyped' /\ TasksTyped'
  <2>1. PICK prazo \in URGENCY_DEADLINE_HOURS :
          orders' = [orders EXCEPT ![o] =
            [contractorId |-> task[w].user, status |-> "ABERTA", expiraEm |-> now + prazo,
             piso |-> NoPiso, adjudicador |-> NoUser]]
    BY <1>4 DEF CreateOrder
  <2>2. task[w].user \in Companies \cup Contractors /\ now + prazo \in Nat
    BY <1>1, <1>4, OrdersAssumption DEF CreateOrder, At, Remembers
  <2>3. [contractorId |-> task[w].user, status |-> "ABERTA", expiraEm |-> now + prazo,
         piso |-> NoPiso, adjudicador |-> NoUser] \in Order
    BY <2>2 DEF Order, NoPiso
  <2>4. RowsTyped'
    BY <1>1, <1>3, <1>4, <2>1, <2>3 DEF RowsTyped, CreateOrder
  <2> QED
    BY <1>4, <2>4, StartTyped DEF CreateOrder
<1>5. ASSUME ScheduleExpiry(w) PROVE RowsTyped' /\ TasksTyped'
  <2>1. orders[o].expiraEm \in Nat
    BY <1>1, <1>3 DEF RowsTyped, Order, NoOrder
  <2>2. RowsTyped'
    BY <1>1, <1>3, <1>5, <2>1, JobsTyped DEF RowsTyped, ScheduleExpiry
  <2> QED
    BY <1>5, <2>2, StartTyped DEF ScheduleExpiry
<1>6. ASSUME AddFoto(w) PROVE RowsTyped' /\ TasksTyped'
  <2>1. RowsTyped'
    BY <1>1, <1>3, <1>6 DEF RowsTyped, AddFoto
  <2> QED
    BY <1>6, <2>1, StartTyped DEF AddFoto
<1>7. ASSUME Upsert(w) PROVE RowsTyped' /\ TasksTyped'
  <2>1. [valor |-> task[w].valor, status |-> "ENVIADA"] \in Proposal
    BY <1>1, <1>7 DEF Upsert, At, Remembers, Proposal
  <2>2. RowsTyped'
    BY <1>1, <1>7, <2>1 DEF RowsTyped, Upsert
  <2> QED
    BY <1>7, <2>2, StartTyped DEF Upsert
<1>8. ASSUME ReadValues(w) PROVE RowsTyped' /\ TasksTyped'
  <2>1. dignityFloorCentavos(o, Bidders(o)) \in Nat
    BY <1>1, <1>3, FloorIsNatural DEF RowsTyped
  <2>2. Remembers(Doing("setPiso", NoUser, o, NoUser, dignityFloorCentavos(o, Bidders(o))))
    BY <1>3, <2>1 DEF Remembers, Doing, Task, Steps
  <2>3. RowsTyped'
    BY <1>1, <1>8 DEF RowsTyped, ReadValues, store
  <2> QED
    BY <1>8, <2>2, <2>3, StartTyped DEF ReadValues
<1>9. ASSUME SetPiso(w) PROVE RowsTyped' /\ TasksTyped'
  <2>1. PICK piso \in Nat : piso = task[w].valor
    BY <1>1 DEF Task
  <2>2. orders[o] # NoOrder
    <3>1. orders[o].status # "AUSENTE"
      BY <1>9 DEF OrdersInv, HandlerConsistent, SetPiso, At
    <3> QED
      BY <3>1 DEF NoOrder
  <2>3. [orders[o] EXCEPT !.piso = piso] \in Order
    BY <1>1, <1>3, <2>2 DEF RowsTyped, Order
  <2>4. RowsTyped'
    BY <1>1, <1>3, <1>9, <2>1, <2>3 DEF RowsTyped, SetPiso
  <2> QED
    BY <1>9, <2>4, StartTyped DEF SetPiso
<1>10. ASSUME Adjudicate(w) PROVE RowsTyped' /\ TasksTyped'
  <2>1. ASSUME orders[o].status = "ABERTA" PROVE RowsTyped'
    <3>1. AwardedBy(o, task[w].user) \in Order
      <4>1. orders[o] \in Order
        BY <1>1, <1>3, <2>1 DEF RowsTyped, NoOrder
      <4>2. task[w].user \in Users
        BY <1>1, <1>10 DEF Adjudicate, At, Remembers
      <4> QED
        BY <4>1, <4>2 DEF AwardedBy, Order
    <3>2. Adjudicated(o, task[w].bidder) \in [Proposals -> Proposal]
      BY <1>1 DEF Adjudicated, RowsTyped, Proposal
    <3> QED
      BY <1>1, <1>3, <1>10, <2>1, <3>1, <3>2 DEF RowsTyped, Adjudicate
  <2>2. ASSUME orders[o].status # "ABERTA" PROVE RowsTyped'
    BY <1>1, <1>10, <2>2 DEF RowsTyped, Adjudicate
  <2> QED
    BY <1>10, <2>1, <2>2, StartTyped DEF Adjudicate
<1>11. ASSUME CompleteJob(w) PROVE RowsTyped' /\ TasksTyped'
  <2>1. RowsTyped'
    BY <1>1, <1>3, <1>11, JobsTyped DEF RowsTyped, CompleteJob
  <2> QED
    BY <1>11, <2>1, StartTyped DEF CompleteJob
<1>12. RowsTyped' /\ TasksTyped'
  BY <1>4, <1>5, <1>6, <1>7, <1>8, <1>9, <1>10, <1>11 DEF Step
<1> QED
  BY <1>2, <1>12 DEF TypeInv, TypeOK, RowsTyped, TasksTyped, TeamTypeOK, team, clock

LEMMA ExpireTyped ==
  ASSUME TypeInv, NEW w \in Workers, NEW o \in OrderIds, ExpireIfOpen(w, o)
  PROVE  TypeInv'
<1>1. RowsTyped
  BY DEF TypeInv, TypeOK, RowsTyped
<1>2. orders[o].status = "ABERTA" => [orders[o] EXCEPT !.status = "EXPIRADA"] \in Order
  BY <1>1 DEF RowsTyped, Order, NoOrder
<1>3. orders' \in [OrderIds -> Order \cup {NoOrder}]
  BY <1>1, <1>2 DEF RowsTyped, ExpireIfOpen
<1>4. expireJobs' \in Queue(OrderIds)
  BY <1>1, JobsTyped, 0 \in Nat DEF RowsTyped, ExpireIfOpen
<1>5. TasksTyped'
  <2>1. Remembers(Doing("completeJob", NoUser, o, NoUser, 0))
    BY DEF Remembers, Doing, Task, Steps
  <2> QED
    BY <2>1, StartTyped DEF ExpireIfOpen
<1> QED
  BY <1>1, <1>3, <1>4, <1>5
  DEF TypeInv, TypeOK, RowsTyped, TasksTyped, TeamTypeOK, ExpireIfOpen, team, clock

LEMMA FailureTyped ==
  ASSUME OrdersInv, TypeInv, NEW w \in Workers, Failure(w)
  PROVE  TypeInv'
<1>1. expireJobs \in Queue(OrderIds) /\ failures \in Nat
  BY DEF TypeInv, TypeOK
<1>2. expireJobs' \in Queue(OrderIds)
  <2>1. CASE At(w, "completeJob")
    <3>1. task[w].order \in OrderIds
      BY <2>1, BusyOrder DEF At
    <3> QED
      BY <1>1, <2>1, <3>1, JobsTyped, 0 \in Nat DEF Failure
  <2>2. CASE ~At(w, "completeJob")
    BY <1>1, <2>2 DEF Failure
  <2> QED
    BY <2>1, <2>2
<1>3. TasksTyped' /\ failures' \in Nat
  BY <1>1, StartTyped DEF Failure
<1> QED
  BY <1>2, <1>3 DEF TypeInv, TypeOK, TasksTyped, TeamTypeOK, Failure, team

LEMMA TeamTyped ==
  ASSUME TeamTypeOK, TeamNext
  PROVE  TeamTypeOK'
<1>1. /\ registered \subseteq People /\ members \in Seq(Member)
      /\ roster \in [Companies \X Listable -> LinkStates]
  BY DEF TeamTypeOK
<1>2. ASSUME NEW u \in People, Register(u) PROVE TeamTypeOK'
  BY <1>1, <1>2 DEF TeamTypeOK, Register
<1>3. ASSUME NEW c \in Companies, NEW u \in People, AddMember(c, u) PROVE TeamTypeOK'
  <2> DEFINE row == [companyId |-> c, email |-> u, linked |-> u \in registered]
             Mine == {k \in DOMAIN members : members[k].companyId = c /\ members[k].email = u}
  <2>1. row \in Member
    <3>1. (u \in registered) \in BOOLEAN
      OBVIOUS
    <3> QED
      BY <3>1 DEF Member
  <2>2. members' = IF Mine = {} THEN Append(members, row)
                   ELSE [k \in DOMAIN members |-> IF k \in Mine THEN row ELSE members[k]]
    BY <1>3 DEF AddMember
  <2>3. members' \in Seq(Member)
    <3> HIDE DEF row, Mine
    <3>1. Append(members, row) \in Seq(Member)
      BY <1>1, <2>1
    <3>2. DOMAIN members = 1 .. Len(members) /\ Len(members) \in Nat
      BY <1>1
    <3>3. \A k \in 1 .. Len(members) : members[k] \in Member
      BY <1>1
    <3>4. [k \in DOMAIN members |-> IF k \in Mine THEN row ELSE members[k]] \in Seq(Member)
      BY <2>1, <3>2, <3>3
    <3> QED
      BY <2>2, <3>1, <3>4
  <2> QED
    BY <1>1, <1>3, <2>3 DEF TeamTypeOK, AddMember
<1>4. ASSUME NEW k \in DOMAIN members, RemoveMember(k) PROVE TeamTypeOK'
  <2>1. SubSeq(members, 1, k - 1) \in Seq(Member)
    BY <1>1
  <2>2. SubSeq(members, k + 1, Len(members)) \in Seq(Member)
    BY <1>1
  <2>3. members' \in Seq(Member)
    BY <1>4, <2>1, <2>2 DEF RemoveMember, RemoveAt
  <2> QED
    BY <1>1, <1>4, <2>3 DEF TeamTypeOK, RemoveMember
<1>5. ASSUME NEW c \in Companies, NEW p \in Listable, NEW from, NEW to \in LinkStates,
             MoveLink(c, p, from, to)
      PROVE  TeamTypeOK'
  BY <1>1, <1>5 DEF TeamTypeOK, MoveLink
<1>6. "AUSENTE" \in LinkStates /\ "CONVIDADO" \in LinkStates /\ "CONFIRMADO" \in LinkStates
  BY DEF LinkStates
<1> QED
  BY <1>2, <1>3, <1>4, <1>5, <1>6
  DEF TeamNext, AddProfessional, RemoveProfessional, ConfirmInvite, RejectInvite

LEMMA InitTyped == Init => TypeInv
<1> SUFFICES ASSUME Init PROVE TypeInv
  OBVIOUS
<1>1. TeamTypeOK
  <2>1. <<>> \in Seq(Member)
    OBVIOUS
  <2> QED
    BY <2>1 DEF Init, TeamInit, TeamTypeOK, LinkStates
<1>2. RowsTyped
  BY DEF Init, RowsTyped, Proposal, Queue, EmptyQueue, Job, NoJob, JobStates
<1>3. Remembers(Idle)
  BY DEF Remembers, Idle, Doing, Task, Steps
<1>4. TasksTyped
  BY <1>3 DEF Init, TasksTyped, Remembers
<1> QED
  BY <1>1, <1>2, <1>4 DEF Init, TypeInv, TypeOK, RowsTyped, TasksTyped

LEMMA NextTyped == OrdersInv /\ TypeInv /\ [Next]_vars => TypeInv'
<1> SUFFICES ASSUME OrdersInv, TypeInv, [Next]_vars PROVE TypeInv'
  OBVIOUS
<1>1. CASE \E w \in Workers, u \in Users : Request(w, u)
  BY <1>1, RequestTyped
<1>2. CASE \E w \in Workers : Step(w)
  BY <1>2, StepTyped
<1>3. CASE \E w \in Workers : Failure(w)
  BY <1>3, FailureTyped
<1>4. CASE \E o \in OrderIds : StartExpire(o)
  BY <1>4, ExpireTyped DEF StartExpire
<1>5. CASE Team
  <2>1. TeamTypeOK'
    BY <1>5, TeamTyped DEF Team, TypeInv, TypeOK
  <2> QED
    BY <1>5, <2>1 DEF Team, TypeInv, TypeOK, Remembers, store, clock
<1>6. CASE Tick
  BY <1>6 DEF Tick, TypeInv, TypeOK, TeamTypeOK, Remembers, team, store
<1>7. CASE UNCHANGED vars
  BY <1>7 DEF TypeInv, TypeOK, TeamTypeOK, Remembers, vars, team, store, clock
<1> QED
  BY <1>1, <1>2, <1>3, <1>4, <1>5, <1>6, <1>7 DEF Next

\* Every row, job and handler keeps its type: whoever acts, acts for a user; only a
\* company or a contractor owns an order; the floor of an order is a natural number
\* however many professionals bid on it.
THEOREM WorkOrdersTypeOK == Spec => []TypeOK
<1>1. TypeInv => TypeOK
  BY DEF TypeInv
<1> QED
  BY <1>1, InitTyped, NextTyped, OrdersInvariance, PTL DEF Spec

\* Among the proposals of an order there is one that meets the floor submitProposal
\* computes from them: it never asks for more than everybody has asked for.
FloorIsMet ==
  \A o \in OrderIds : Bidders(o) # {} =>
    \E p \in Bidders(o) :
      meetsDignityFloor(proposals[<<o, p>>].valor, dignityFloorCentavos(o, Bidders(o)))

LEMMA TypedFloorIsMet == TypeOK => FloorIsMet
<1> SUFFICES ASSUME TypeOK, NEW o \in OrderIds, Bidders(o) # {},
                    \A p \in Bidders(o) :
                      ~meetsDignityFloor(proposals[<<o, p>>].valor,
                                         dignityFloorCentavos(o, Bidders(o)))
             PROVE  FALSE
  BY DEF FloorIsMet
<1> DEFINE B == Bidders(o)
           n == Cardinality(B)
<1>1. proposals \in [Proposals -> Proposal]
  BY DEF TypeOK
<1>2. PICK piso \in Nat : piso = dignityFloorCentavos(o, B)
  BY <1>1, FloorIsNatural
<1>3. \A p \in B : proposals[<<o, p>>].valor \in Nat
  BY <1>1, BidsAreNatural
<1>4. piso # 0 /\ \A p \in B : proposals[<<o, p>>].valor <= piso - 1
  <2>1. piso # 0 /\ \A p \in B : ~(proposals[<<o, p>>].valor >= piso)
    BY <1>2 DEF meetsDignityFloor, NoPiso
  <2> HIDE DEF B
  <2> QED
    BY <1>3, <2>1
<1>5. IsFiniteSet(B) /\ n \in Nat \ {0}
  BY TeamAssumption, FS_Subset, FS_CardinalityType, FS_EmptySet DEF Bidders
<1>6. PICK sum \in Nat : sum = SumOfBids(o, B) /\ sum <= (piso - 1) * n
  <2>1. piso - 1 \in Nat
    BY <1>4
  <2> HIDE DEF B
  <2> QED
    BY <1>3, <1>4, <1>5, <2>1, SumOfBidsBounds
<1>7. piso = (14 * sum + 10 * n) \div (20 * n)
  BY <1>2, <1>4, <1>6 DEF dignityFloorCentavos, SumOfBids, NoPiso
<1>8. piso <= piso - 1
  <2>1. piso - 1 \in Nat
    BY <1>4
  <2>2. (14 * sum + 10 * n) \div (20 * n) <= piso - 1
    <3> HIDE DEF n
    <3> QED
      BY <1>5, <1>6, <2>1, QuotientBound
  <2> QED
    BY <1>7, <2>2
<1> QED
  BY <1>8

\* The floor of the proposals can be met: it is at most the highest of the bids it is
\* computed from, however many there are and whatever they ask for.
THEOREM FloorCanBeMet == Spec => []FloorIsMet
BY TypedFloorIsMet, WorkOrdersTypeOK, PTL

================================================================================
