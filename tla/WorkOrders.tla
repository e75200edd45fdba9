------------------------------- MODULE WorkOrders -------------------------------
(***************************************************************************)
(* Work orders of ObraCerta: a contractor or a company opens an order,     *)
(* professionals send one proposal each (and may replace it), the owner    *)
(* accepts one of them, or the order expires.  Whoever is in the team of   *)
(* the company that owns an order acts as its owner.                       *)
(*                                                                         *)
(* A handler is run by one worker, and each awaited call that changes      *)
(* state is one step; the reads before the first of them are made in the   *)
(* first step, and what they read may be stale in the next ones.  Who may  *)
(* bid or open an order also depends on the plan: a user without the       *)
(* feature is one who does not ask.                                        *)
(***************************************************************************)
EXTENDS JobQueue, CompanyTeam, FiniteSets, FiniteSetsExt

CONSTANTS
  Valores,                 \* amounts a proposal may ask for
  Workers,
  URGENCY_DEADLINE_HOURS,  \* the windows of the urgencies
  MIN_BIDS_FOR_FLOOR, MAX_WORK_ORDER_PHOTOS,
  MaxOrders, MaxTime, MaxFailures, MaxMembers \* bounds

ASSUME OrdersAssumption ==
  /\ Valores \subseteq Nat \ {0} /\ URGENCY_DEADLINE_HOURS \subseteq Nat
  /\ MIN_BIDS_FOR_FLOOR \in Nat \ {0} /\ MAX_WORK_ORDER_PHOTOS \in Nat
  /\ MaxOrders \in Nat /\ MaxTime \in Nat /\ MaxFailures \in Nat /\ MaxMembers \in Nat

OrderIds == 1 .. MaxOrders
Proposals == OrderIds \X Professionals  \* unique (obra, profissional)

VARIABLES
  orders,      \* work_orders; status "AUSENTE" is no row
  proposals,   \* proposals, by order and professional; "AUSENTE" is no row
  fotos,       \* work_order_photos: how many photos an order has
  expireJobs,  \* the queue work-order-expiry
  task,        \* the handler each worker runs
  now, failures,
  acted        \* history: <<c, u>> for every member u who acted for company c

clock == <<now, failures>>
store == <<orders, proposals, fotos, expireJobs>>
vars == <<team, store, task, clock, acted>>

--------------------------------------------------------------------------------
(* Types *)

NoPiso == 0
NoOrder ==
  [contractorId |-> NoUser, status |-> "AUSENTE", expiraEm |-> 0, piso |-> NoPiso,
   adjudicador |-> NoUser]

\* adjudicador is what the audit log keeps of an award: who accepted.
Order ==
  [contractorId : Companies \cup Contractors, status : {"ABERTA", "ADJUDICADA", "EXPIRADA"},
   expiraEm : Nat, piso : Nat, adjudicador : Users \cup {NoUser}]
Proposal == [valor : Valores \cup {0}, status : {"AUSENTE", "ENVIADA", "ACEITA", "RECUSADA"}]

Steps == {"idle", "createOrder", "scheduleExpiry", "upsert", "readValues", "setPiso",
          "adjudicate", "addFoto", "completeJob"}
Task ==
  [step : Steps, user : Users \cup {NoUser}, order : OrderIds \cup {0},
   bidder : Professionals \cup {NoUser}, valor : Nat]

TypeOK ==
  /\ TeamTypeOK
  /\ orders \in [OrderIds -> Order \cup {NoOrder}]
  /\ proposals \in [Proposals -> Proposal]
  /\ fotos \in [OrderIds -> Nat]
  /\ expireJobs \in Queue(OrderIds)
  /\ task \in [Workers -> Task]
  /\ now \in Nat /\ failures \in Nat
  /\ acted \subseteq Users \X Users

\* What a handler knows between two calls; user is the owner it creates an order
\* for, or who accepts a proposal.
Doing(step, u, o, p, valor) ==
  [step |-> step, user |-> u, order |-> o, bidder |-> p, valor |-> valor]
Idle == Doing("idle", NoUser, 0, NoUser, 0)

Init ==
  /\ TeamInit
  /\ orders = [o \in OrderIds |-> NoOrder]
  /\ proposals = [op \in Proposals |-> [valor |-> 0, status |-> "AUSENTE"]]
  /\ fotos = [o \in OrderIds |-> 0]
  /\ expireJobs = EmptyQueue(OrderIds)
  /\ task = [w \in Workers |-> Idle]
  /\ now = 0 /\ failures = 0
  /\ acted = {}

--------------------------------------------------------------------------------
(* Rules of the domain *)

Bidders(o) == {p \in Professionals : proposals[<<o, p>>].status # "AUSENTE"}

\* dignityFloorCentavos of a set of bidders: 70% of the mean, to the nearest.
dignityFloorCentavos(o, B) ==
  LET n == Cardinality(B)
  IN IF n < MIN_BIDS_FOR_FLOOR THEN NoPiso
     ELSE (14 * MapThenSumSet(LAMBDA p : proposals[<<o, p>>].valor, B) + 10 * n) \div (20 * n)

meetsDignityFloor(valor, piso) == piso = NoPiso \/ valor >= piso

Free(w) == task[w] = Idle
At(w, step) == task[w].step = step
Start(w, t) == task' = [task EXCEPT ![w] = t]
Goto(w, step) == task' = [task EXCEPT ![w].step = step]
Finish(w) == Start(w, Idle)

\* A user with an account asks; effectiveOwner links a pending invitation.
Asks(w, u) ==
  /\ Free(w)
  /\ u \in Companies \cup registered
  /\ members' = LinkedMembers(u)
  /\ acted' = acted \cup ({<<effectiveOwner(u), u>>} \ {<<u, u>>})
  /\ UNCHANGED <<registered, roster>>

--------------------------------------------------------------------------------
(* Opening an order *)

\* openWorkOrder: a professional opens orders only for a company.
OpenWorkOrder(w, u) ==
  /\ Asks(w, u)
  /\ effectiveOwner(u) \notin Professionals
  /\ \E o \in OrderIds :
       /\ orders[o].status = "AUSENTE"
       /\ \A v \in Workers : task[v].order # o
       /\ Start(w, Doing("createOrder", effectiveOwner(u), o, NoUser, 0))
  /\ UNCHANGED <<store, clock>>

CreateOrder(w) ==
  /\ At(w, "createOrder")
  /\ \E prazo \in URGENCY_DEADLINE_HOURS :
       orders' = [orders EXCEPT ![task[w].order] =
         [contractorId |-> task[w].user, status |-> "ABERTA", expiraEm |-> now + prazo,
          piso |-> NoPiso, adjudicador |-> NoUser]]
  /\ Goto(w, "scheduleExpiry")
  /\ UNCHANGED <<team, proposals, fotos, expireJobs, clock, acted>>

\* Mutated: the expiry is scheduled only for orders that are due.
ScheduleExpiryLate(w) ==
  /\ At(w, "scheduleExpiry")
  /\ expireJobs' = IF orders[task[w].order].expiraEm > now THEN expireJobs
                   ELSE Add(expireJobs, task[w].order, now)
  /\ Finish(w)
  /\ UNCHANGED <<team, orders, proposals, fotos, clock, acted>>

ScheduleExpiry(w) ==
  /\ At(w, "scheduleExpiry")
  /\ expireJobs' = Add(expireJobs, task[w].order, orders[task[w].order].expiraEm)
  /\ Finish(w)
  /\ UNCHANGED <<team, orders, proposals, fotos, clock, acted>>

\* uploadFoto, up to the photo it adds; the cover is the first one.
UploadFoto(w, u, o) ==
  /\ Asks(w, u)
  /\ orders[o].status = "ABERTA" /\ orders[o].contractorId = effectiveOwner(u)
  /\ fotos[o] < MAX_WORK_ORDER_PHOTOS
  /\ Start(w, Doing("addFoto", NoUser, o, NoUser, 0))
  /\ UNCHANGED <<store, clock>>

AddFoto(w) ==
  /\ At(w, "addFoto")
  /\ fotos' = [fotos EXCEPT ![task[w].order] = @ + 1]
  /\ Finish(w)
  /\ UNCHANGED <<team, orders, proposals, expireJobs, clock, acted>>

--------------------------------------------------------------------------------
(* Proposals *)

\* submitProposal, up to its write.
SubmitProposal(w, p, o, valor) ==
  /\ Asks(w, p)
  /\ orders[o].status = "ABERTA" /\ orders[o].contractorId # effectiveOwner(p)
  /\ meetsDignityFloor(valor, dignityFloorCentavos(o, Bidders(o)))
  /\ Start(w, Doing("upsert", NoUser, o, p, valor))
  /\ UNCHANGED <<store, clock>>

\* The proposal is ENVIADA again, whatever became of it and of the order.
Upsert(w) ==
  /\ At(w, "upsert")
  /\ proposals' = [proposals EXCEPT ![<<task[w].order, task[w].bidder>>] =
       [valor |-> task[w].valor, status |-> "ENVIADA"]]
  /\ Goto(w, "readValues")
  /\ UNCHANGED <<team, orders, fotos, expireJobs, clock, acted>>

ReadValues(w) ==
  /\ At(w, "readValues")
  /\ LET o == task[w].order
     IN Start(w, Doing("setPiso", NoUser, o, NoUser, dignityFloorCentavos(o, Bidders(o))))
  /\ UNCHANGED <<team, store, clock, acted>>

SetPiso(w) ==
  /\ At(w, "setPiso")
  /\ orders' = [orders EXCEPT ![task[w].order].piso = task[w].valor]
  /\ Finish(w)
  /\ UNCHANGED <<team, proposals, fotos, expireJobs, clock, acted>>

\* Mutated: any user may accept a proposal.
AcceptProposalByAnyone(w, u, o, p) ==
  /\ Asks(w, u)
  /\ proposals[<<o, p>>].status # "AUSENTE"
  /\ orders[o].status = "ABERTA"
  /\ Start(w, Doing("adjudicate", u, o, p, 0))
  /\ UNCHANGED <<store, clock>>

\* acceptProposal, up to its transaction.
AcceptProposal(w, u, o, p) ==
  /\ Asks(w, u)
  /\ proposals[<<o, p>>].status # "AUSENTE"
  /\ orders[o].status = "ABERTA" /\ orders[o].contractorId = effectiveOwner(u)
  /\ Start(w, Doing("adjudicate", u, o, p, 0))
  /\ UNCHANGED <<store, clock>>

\* The order o once u accepted a proposal, and the proposals once p's was.
AwardedBy(o, u) ==
  [contractorId |-> orders[o].contractorId, status |-> "ADJUDICADA",
   expiraEm |-> orders[o].expiraEm, piso |-> orders[o].piso, adjudicador |-> u]

Adjudicated(o, p) ==
  [op \in Proposals |->
     [valor |-> proposals[op].valor,
      status |-> CASE op = <<o, p>> -> "ACEITA"
                   [] op[1] = o /\ op[2] # p /\ proposals[op].status = "ENVIADA" -> "RECUSADA"
                   [] OTHER -> proposals[op].status]]

\* Mutated: the transition of the order is not guarded.
AdjudicateAgain(w) ==
  LET o == task[w].order IN
  /\ At(w, "adjudicate")
  /\ orders' = [orders EXCEPT ![o] = AwardedBy(o, task[w].user)]
  /\ proposals' = Adjudicated(o, task[w].bidder)
  /\ Finish(w)
  /\ UNCHANGED <<team, fotos, expireJobs, clock, acted>>

\* adjudicate, one transaction: guarded on ABERTA.
Adjudicate(w) ==
  LET o == task[w].order IN
  /\ At(w, "adjudicate")
  /\ IF orders[o].status = "ABERTA"
       THEN /\ orders' = [orders EXCEPT ![o] = AwardedBy(o, task[w].user)]
            /\ proposals' = Adjudicated(o, task[w].bidder)
       ELSE UNCHANGED <<orders, proposals>>
  /\ Finish(w)
  /\ UNCHANGED <<team, fotos, expireJobs, clock, acted>>

--------------------------------------------------------------------------------
(* Expiry, failures and time *)

\* expireIfOpen
ExpireIfOpen(w, o) ==
  /\ Free(w)
  /\ Due(expireJobs, o, now)
  /\ expireJobs' = Take(expireJobs, o)
  /\ orders' = IF orders[o].status = "ABERTA"
                 THEN [orders EXCEPT ![o].status = "EXPIRADA"] ELSE orders
  /\ Start(w, Doing("completeJob", NoUser, o, NoUser, 0))
  /\ UNCHANGED <<team, proposals, fotos, clock, acted>>

CompleteJob(w) ==
  /\ At(w, "completeJob")
  /\ expireJobs' = Complete(expireJobs, task[w].order)
  /\ Finish(w)
  /\ UNCHANGED <<team, orders, proposals, fotos, clock, acted>>

Tick ==
  /\ now < MaxTime
  /\ \A w \in Workers : Free(w)
  /\ now' = now + 1
  /\ UNCHANGED <<team, store, task, failures, acted>>

\* An awaited call throws, or the process dies and a job it ran is run again.
Failure(w) ==
  /\ ~Free(w)
  /\ failures < MaxFailures
  /\ failures' = failures + 1
  /\ expireJobs' \in
       IF At(w, "completeJob")
         THEN {Fail(expireJobs, task[w].order), Stall(expireJobs, task[w].order)}
         ELSE {expireJobs}
  /\ Finish(w)
  /\ UNCHANGED <<team, orders, proposals, fotos, now, acted>>

--------------------------------------------------------------------------------
(* Specification *)

Step(w) ==
  \/ CreateOrder(w) \/ ScheduleExpiry(w) \/ AddFoto(w)
  \/ Upsert(w) \/ ReadValues(w) \/ SetPiso(w) \/ Adjudicate(w) \/ CompleteJob(w)

Request(w, u) ==
  \/ OpenWorkOrder(w, u)
  \/ \E o \in OrderIds :
       \/ UploadFoto(w, u, o)
       \/ \E p \in Professionals : AcceptProposal(w, u, o, p)
       \/ \E valor \in Valores : u \in Professionals /\ SubmitProposal(w, u, o, valor)

StartExpire(o) == \E w \in Workers : ExpireIfOpen(w, o)

Team ==
  /\ TeamNext
  /\ Len(members') <= MaxMembers
  /\ UNCHANGED <<store, task, clock, acted>>

Next ==
  \/ \E w \in Workers, u \in Users : Request(w, u)
  \/ \E w \in Workers : Step(w) \/ Failure(w)
  \/ \E o \in OrderIds : StartExpire(o)
  \/ Team \/ Tick

Spec == Init /\ [][Next]_vars

--------------------------------------------------------------------------------
(* Properties *)

\* What an order and its proposals mean to the auction.
statusOf ==
  [o \in OrderIds |->
    CASE orders[o].status = "ABERTA" -> "open"
      [] orders[o].status = "ADJUDICADA" -> "awarded"
      [] orders[o].status = "EXPIRADA" -> "expired"
      [] OTHER -> "none"]
biddersOf == [o \in OrderIds |-> Bidders(o)]
winnersOf == [o \in OrderIds |-> {p \in Professionals : proposals[<<o, p>>].status = "ACEITA"}]

\* The module implements Auction: a work order is closed once, goes to a
\* professional who bid on it, and never passes from one to another,
\* whichever proposals, awards and expiries race (adjudicate, upsert).
Promise == INSTANCE Auction WITH
  Orders <- OrderIds, Parties <- Professionals,
  status <- statusOf, bidders <- biddersOf, winners <- winnersOf

PromiseSpec == Promise!Spec

\* The chat of an order, the list of works won and the audit all read the
\* accepted proposal: there is at most one, and only in an awarded order.
OneWinner ==
  \A op, oq \in Proposals :
    proposals[op].status = "ACEITA" =>
      /\ orders[op[1]].status = "ADJUDICADA"
      /\ proposals[oq].status = "ACEITA" /\ oq[1] = op[1] => oq = op

\* An order is awarded by its owner or by somebody who acted for them at some
\* time: a member removed while the handler runs, but nobody else.
AwardedByOwnSide ==
  \A o \in OrderIds : orders[o].status = "ADJUDICADA" =>
    \/ orders[o].adjudicador = orders[o].contractorId
    \/ <<orders[o].contractorId, orders[o].adjudicador>> \in acted

\* An open order has an expiry job that will run: a crash between the insert
\* and the schedule, or inside the job, is the only way to lose it.
OpenHasExpiryJob ==
  \A o \in OrderIds : orders[o].status = "ABERTA" =>
    \/ expireJobs[o].state = "delayed" /\ expireJobs[o].at = orders[o].expiraEm
    \/ \E w \in Workers : At(w, "scheduleExpiry") /\ task[w].order = o
    \/ failures > 0

--------------------------------------------------------------------------------
(* What the documentation says and the code does not keep *)

\* "Participantes do chat da obra: o dono e o profissional do lance ACEITO.
\* `null` enquanto a obra não foi adjudicada" (work-order.service.ts:374): an
\* awarded order has a winner to talk to.
AwardedHasWinner ==
  \A o \in OrderIds : orders[o].status = "ADJUDICADA" =>
    \E p \in Professionals : proposals[<<o, p>>].status = "ACEITA"

\* "membro da equipe da empresa dona veria TODOS os lances como dono — dar lance
\* também quebraria o sigilo" (work-order.service.ts:286): nobody who has a
\* proposal on an open order acts as its owner.
BidsAreSealed ==
  \A o \in OrderIds : orders[o].status = "ABERTA" =>
    \A p \in Bidders(o) : effectiveOwner(p) # orders[o].contractorId

================================================================================
