# TLA+ models of ObraCerta

ObraCerta is a marketplace for construction work: professionals publish profiles
and calendars, contractors book days with them or publish work orders, both
review each other, both pay for plans. The server is a NestJS API
(`src/apps/api`) over PostgreSQL (Drizzle), Redis and BullMQ delayed jobs; the
web application (`src/apps/web`, Next.js) has a server of its own that keeps the
session and calls the API. These modules model the components that keep state:
billing; booking with its calendar and penalties; work orders and the team of a
company; reputation and moderation; registration and promotions; the sign-up
assistant with its code by WhatsApp; sessions and tokens; the audit trail and the
acceptance of terms.

Throughout, *service.ts* of a component stands for
`src/apps/api/src/modules/<component>/application/<component>.service.ts`.

## How the system runs

A component is a service (use cases), repositories (one SQL statement per call,
seldom a transaction) and a scheduler that adds delayed jobs to a BullMQ queue
and a processor that runs them. There are three sources of steps: HTTP requests,
gateway webhooks, and due jobs. Each is an `async` handler. The handlers of one
process interleave at every `await`, the API may run as several processes, and a
crash leaves the calls already made in place: nearly nothing is transactional.
What keeps the data right is (1) guarded UPDATEs (`WHERE id = .. AND status =
..`), (2) unique and exclusion constraints, (3) fixed job ids, (4) the order of
the calls in a handler. The models exist to check whether that is enough.

## Inventory

| Component | State | Operations | Hard behaviour | What makes it correct | Module |
|---|---|---|---|---|---|
| **billing** | subscriptions, purchases, invoices, refunds, payment_events; `plano` and `planoExpiraEm` on profiles; 4 kinds of jobs | subscribe, changePlan, cancelSubscription, purchase, cancelPurchase, handleWebhook, requestRefund, resolveRefund, due, renewal and expiry jobs | redelivered, early and late webhooks; two handlers on a row; crash between calls; jobs that re-add themselves | one live subscription per user; access exactly for what was paid; no invoice forgotten; every cycle billed once | `Billing` |
| **booking** | bookings, proposed new dates; expiry jobs | create, approve, decline, cancel, propose/accept/reject reschedule, start, complete, expire | approval against cancellation and expiry; block, then transition, then compensate | an approved booking has exactly its block; no double booking | `Booking` |
| **availability** | calendar blocks (exclusion constraint) | block, unblock, conflictsWith | overlapping inserts | blocks of a professional never overlap | `Calendar` |
| **decline-penalty** | penalties | penalise on decline or expiry | count, then create | one per offence, escalating | `Booking` |
| **work-orders** | orders, proposals, floor of the proposals, photos; expiry job | open, photo, submitProposal, acceptProposal, expire | submission against award; upsert of a decided proposal | one winner, chosen by the owner's side | `WorkOrders` |
| **company** | members, listed professionals | invite, link, remove, confirm, act as company | removal while a member's request runs | only the team acts for the company | `CompanyTeam` |
| **reputation** | reviews, responses, badges; reveal job | createReview, respond, reveal, recompute badges | both parties at once; job against second review | blind until both wrote or the window ended; revealed together | `Reputation` |
| **moderation** | reports, suspensions, appeals, account status; restore and lift jobs | report, resolve, appeal, decide, suspend, lift | timers against decisions; two decisions at once | suspensions end; reviews stay blind | `Moderation` |
| **promotions** | referral codes, coupons, redemptions, referrals | code, redeem, processReferral | limit checked before the use | one code per user; uses are counted | `Promotions` |
| **users, profiles** | the row, the profile, its public name | register, registerWithPassword, registerCompany | a chain of calls in no transaction | a bonus that fails costs nothing else | `Registration` |
| **sign-up assistant** (web) | the steps of the page in each window | request a code, verify it, register, choose a plan, pay | answers that are late, lost or given up; a second window | the page follows the account | `SignUp` |
| **auth: OTP** | the code, its attempts and the mark of verification in Redis | request, verify, consume | attempts counted in a call of their own | guesses are bounded | `SignUp` |
| **auth: tokens; session layer** (web) | refresh tokens in Redis; cookies of the browser | login, refresh, logout, renewal after a 401 | read, then delete; overlapping requests; pages that cannot write cookies | a suspended account is out soon; tokens rotate | `Sessions` |
| **audit** | the hash chain | append, verify | concurrent appends, rollbacks | one linear chain that only grows | `Audit` |
| **terms** | acceptances | accept | insert, then record | recorded once | `Terms` |
| **entitlements** | none | limits of a plan | none | a table | |
| **engagement, onboarding, notifications** | notifications, preferences | nudges, reminders, inbox, push | | best effort | |
| **chats, public profile, search, addresses, cities, favorites, professional tools** | rows of one user | CRUD, queries | | | |
| **support, admin, observability, storage, common, config, infrastructure** | none of the domain | metrics, probes, I/O | | | |
| **pages of the web, packages, infra, scripts** | none | presentation, shared types, deployment | | | |

Interactions: booking calls availability and decline-penalty inside its handlers
(`Booking` composes `Calendar` and `JobQueue`); who acts for a company decides
who owns a work order (`WorkOrders` extends `CompanyTeam`); moderation hides and
restores reviews and suspends their authors (`Moderation` extends `Reputation`);
registration ends in the referral (`Registration` extends `Promotions`); the
acceptance of terms, like every service, appends to the trail (`Terms` extends
`Audit`); suspended accounts are refused at the next renewal of their tokens
(`Sessions`). The sign-up assistant goes through the code, the account and the
subscription; it keeps of each what the page can tell (`SignUp`). Entitlements
are read from billing's `activePlan`; other modules leave the answer of a plan
check to chance.

`PROJECT.json` lists the hazards of the code line by line, with the property
that watches each or the reason why none does.

## Plan

Done: all the modules below, with their runs; the refinement of `Auction`;
proofs about every component with a run.

Left, in the order of what it would add:

1. Liveness of the expiry, reveal and lift jobs, under the fairness that
   `Billing` states for its own.
2. The composition of `Sessions` with `Moderation` (today a suspension is a
   change of status there).

## Modules

- **`JobQueue`** – BullMQ as the schedulers use it: a queue is a function from
  job ids to `absent`, `delayed`, `active` or `failed`. Job ids are fixed per row
  (`invoice:due:ID`, ...), so `Add` of a taken id does nothing; `removeOnComplete`
  frees an id only after the processor returned; there are no retries, so a
  processor that throws leaves its id taken; a job whose worker died is run again.
- **`Billing`**, **`BillingInvariant`** (its inductive invariants),
  **`BillingProofs`**.
- **`Calendar`** – schedule_blocks as operators on a set of blocks: the conflict
  check, the exclusion constraint, insertion and removal. **`Booking`** –
  bookings, their moves, expiry and penalties, over `Calendar` and `JobQueue`.
  **`BookingProofs`**.
- **`Auction`** – what work orders promise, in five actions. **`CompanyTeam`**,
  **`WorkOrders`** – the handlers; `Promise == INSTANCE Auction WITH ...` maps
  them to it. **`WorkOrdersProofs`**, with the proof of that refinement.
- **`Reputation`**, and **`Moderation`** over it; **`ModerationProofs`** for both.
- **`Promotions`**, and **`Registration`** over it; **`RegistrationProofs`** for both.
- **`SignUp`**, **`SignUpProofs`**.
- **`Sessions`**, **`SessionsProofs`**.
- **`Audit`**, **`Terms`** over it, **`AuditProofs`**.
- **`MC...`** – sets, symmetry and the constraint of a run for TLC; the `.cfg`
  files give the values.

All handlers are written in the same way. A worker (`w`) runs one handler at a
time; `task[w]` (`caso[m]` in `Moderation`, `call[w]` in `Audit`, `request[r]` in
`Sessions`) is its local variables and the next call it awaits. A handler starts
with an action that makes its first read with the guards and early returns up to
the next call, takes one action per awaited call in the order of the code, and
ends in `Finish`. What it read may be stale when it is used, as in the code. A
failure action stops a handler between two calls: its job stays failed if it
threw, and is run again if its worker died. Definitions whose comment starts
with *Mutated* are not used by any specification: each is a plausible mistake in
the definition that follows it, for which some property must fail.

### Billing and the code

| TLA+ | Code |
|---|---|
| `subscriptions`, `purchases`, `invoices`, `refunds`, `events` | the tables of `infrastructure/database/schema`; status `AUSENTE` is a row not inserted yet; ids are given in order of insertion |
| `plano`, `planoExpiraEm` | the denormalised columns `planSync` writes |
| `dueJobs`, `renewJobs`, `expireJobs`, `purchaseRenewJobs` | the queue `billing-jobs`, by kind |
| `charges`, `sent`, `reversals` | the gateway: charges it made, events it sent, money it sent back |
| `task[w]` | the local variables and the next `await` of the handler worker `w` runs |
| `now` | days; `failures` counts crashes and exceptions |
| `raced`, `overtaken` | history, in no guard of the code: invoices that two confirmations found payable before either marked them paid; purchases that a payment extended between the two calls of their expiry job |

Each handler starts with an action that makes its first read, with the
guards and early returns up to the next call (`Subscribe`, `ChangePlan`,
`StartPurchase`, `Webhook`, `RequestRefund`, `ResolveRefund`,
`RenewSubscription`, `RenewPurchase`, `ExpirePurchase`, ...), then takes one
action per awaited call (`CreateCharge`, `CreateInvoice`, `MarkPaid`,
`ActivateSubscription`, `ReadPurchase`, `ActivatePurchase`, ...) in the order of
the code, and ends in `Finish`. What a handler read is in `task[w]` and may be
stale when it is used, as in the code. A handler whose whole effect is one
guarded UPDATE (`ExpireInvoice`) is one action. `CancelSubscription` is one
action too: its read and its write commute with everything but a cancellation.
`Failure(w)` stops a handler between two calls: its job stays failed if it threw,
is run again if its worker died.

The environment: `ConfirmPayment` pays a charge, at any time, including before
its invoice is inserted and after it fell due; the gateway then delivers its
events, of which both `PAYMENT_CONFIRMED` and `PAYMENT_RECEIVED` confirm the
payment, any number of times in any order, two at once included. `Tick` ends a day when no handler runs:
handlers take milliseconds, days are what the dates of this component count.

### Booking and the code

| TLA+ | Code |
|---|---|
| `bookings` | booking_requests; status `AUSENTE` is a row not inserted yet; `reagendamentoData = 0` is null |
| `blocks` | schedule_blocks of bookings: the start of the window, whose length is `DEFAULT_SERVICE_DURATION_HOURS` |
| `penalties` | the table, in order of insertion; the professional is that of the booking |
| `expireJobs` | the queue `booking-expiry`, one job per booking |
| `task[w]` | the local variables and the next `await` of the handler worker `w` runs |
| `propostas` | history, in no guard of the code: the bookings a new date was proposed for, at most `MaxProposals` |
| `now` | hours |

The handlers are written as in `Billing`. `approve` is `Approve`, `CheckConflict`,
`BlockSlot`, `ApproveBooking` and, where the booking is no longer pending,
`RemoveBlocks`. `acceptReschedule` is `AcceptReschedule` (what it reads),
`RemoveOldBlock`, `CheckNewDate`, then `RestoreOldBlock`, or `BlockNewDate` and
`ApplyReschedule`, and `RemoveBlocks` as its compensation. `decline` and the
expiry job end in `CountPenalties` and `CreatePenalty`. Handlers that read a
status and then make one UPDATE guarded on that status (`StartBooking`,
`ProposeReschedule`, the first step of `Cancel`, ...) are one action: had the
status changed in between they would only throw. `RejectReschedule` is two,
because `clearReschedule` is not guarded.

`billing.can` is left to chance: whether the plan lets the professional answer is
a free choice in `Approve` (the request may not be made) and in `Expire` (the
penalty may be skipped). All bookings are of one `especialidade`, for which the
limit of pending requests is counted.

### Work orders, the team and the code

| TLA+ | Code |
|---|---|
| `members`, `roster` | company_members in the order of `criadoEm`; company_professionals. A user stands for their e-mail too, which may be invited before they register |
| `orders`, `proposals`, `fotos`, `expireJobs` | the tables, and the queue `work-order-expiry`; `piso` is the floor shown to bidders |
| `effectiveOwner` | `effectiveOwner` of company-team.service.ts; the link it makes on the way is `LinkedMembers`, part of the first step of every request |
| `SubmitProposal`, `Upsert`, `ReadValues`, `SetPiso` | submitProposal |
| `AcceptProposal`, `Adjudicate` | acceptProposal and its transaction |
| `ExpireIfOpen`, `CompleteJob` | the processor of the queue |
| `acted` | history: who acted for which company |

### Reputation, moderation and the code

| TLA+ | Code |
|---|---|
| `reviews`, `responses`, `badges`, `revealJobs` | the tables, and the queue `review-reveal`, one job per booking |
| `CreateReview` .. `ScheduleReveal` | createReview: insert, count, reveal, recompute the badges of both, schedule |
| `reports`, `suspensions`, `accounts`, `restoreJobs`, `liftJobs` | the tables, `users.status`, and the queues `moderation-restore` and `suspension-lift` |
| `Denunciar`, `HideReview`, `ScheduleRestore` | a report hides its review as a precaution; `StartRestore` and `RestoreReview` are the job that ends that |
| `ResolveReport` .. `ScheduleLift` | the decision, its effect on the content, the strikes and the suspension |
| `Appeal`, `ResolveAppeal`, `DecideAppeal`, `Reactivate` | appeals; `StartLift` .. is the job at the end of a suspension |

### Registration, promotions and the code

| TLA+ | Code |
|---|---|
| `AskCode`, `DrawCode`, `SaveCode`, `ReadCode` | the referral code, made at the first request for it |
| `Redeem`, `HasRedeemed`, `InsertRedemption`, `CountUse` | redeemForSubscription and the repository's redeem |
| `FindOwner`, `IssueRewards`, `CreateReferral`, `SetIndicadoPor`, `CatchReferral` | processReferral, and the `catch` around it |
| `Register`, `RegisterWithPassword`, `InsertUser`, `FindSlug`, `CreateProfile`, `SetCompanyInfo`, `ScheduleOnboarding` | the three registrations of auth.service.ts and cadastro.service.ts |

### Signing up and the code

| TLA+ | Code |
|---|---|
| `page[t]` | the form (e-mail or WhatsApp) of a window, its step and `loading` of `useAsyncAction` |
| `RequestOtp` .. `AssinarComCartao` | the buttons of `cadastro/page.tsx`; `ChangeMethod` the tabs; `Reload` the browser's |
| `task[w].waits` | whether the window still waits (`espera`), shows another form (`saiu`), or the answer is heard by no one: the web server gave up, or the page was loaded again (`desistiu`) |
| `code`, `attempts`, `verified` | the three keys of `otpKeys` |
| `SetCode` .. `SetVerified` | OtpService.request and verify, one action per call of Redis |
| `account`, `subscribed` | the one person's rows; how they are made is in `Registration` and `Billing` |
| `EndSession` | the cookies go: the person signs out in this or another window, or the session is over |
| `compared`, `expired`, `signedOut` | history |

### Sessions and the code

| TLA+ | Code |
|---|---|
| `tokens[t]` | a pair: the access token is a JWT good for `ACCESS_TTL`, the refresh token a key of Redis |
| `redis`, `cookies` | the live keys; the two cookies of each browser |
| `Authenticated` | a request of a page or of a route handler whose access token has expired, from `getSession` on |
| `GetRefresh`, `DelRefresh`, `FindUser`, `Issue` | AuthService.refresh: consume, assertActive, issue |
| `Reply`, `Refused`, `Clear` | what the web server does with the cookies: a page cannot write them |
| `Timeout` | it gives up on the API, which goes on |

### Audit, terms and the code

| TLA+ | Code |
|---|---|
| `audit_log` | the committed rows; a hash is the sequence of what was hashed |
| `lastSeq` | the serial column, which a rollback does not give back |
| `Lock`, `ReadLast`, `InsertRow`, `Commit`, `Rollback` | `append`, statement by statement of its transaction |
| `Accept`, `FindAcceptance`, `InsertAcceptance` | terms.service.ts; `Record` is any other service that appends |

## What the runs show

All runs disable the deadlock check because the bounds on rows and days make the
model, not the system, come to a halt. Times are scaled down (a period or a
window of days is 1 or 2 units). Workers, requests and other interchangeable
names are symmetric in the safety runs; no temporal property with fairness is
checked under symmetry.

| Run | Instance | Distinct states | Checks |
|---|---|---|---|
| `billing` | 1 professional, 1 contractor, 2 subscriptions, 1 purchase, 3 invoices, 1 refund, both confirmations of each charge, 2 workers, 1 failure, days 0–3 | 1.4 million | `OneLiveSubscriptionPerUser`, `ActivatedOnlyIfPaid`, `ConcludedIsReversed`, `AccessWithinPayments`, `PaidTimeIsGranted`, `NeverBilledTwiceAPeriod`, `InvoiceMachine` |
| `billing_liveness` | 1 purchase, 2 invoices, 2 workers, days 0–2, `FairSpec` | 4,525 | `PendingIsResolved`, `ConfirmedIsCredited` |
| `booking` | 3 bookings, 3 dates, 2 workers, 1 failure, 1 moved date, hours 0–1 | 1.1 million | `ApprovedHoldsItsSlot`, `UnmovedDontOverlap`, `EndedFreesAgenda`, `PenalisedOnce`, `NeverOverPenalised`, `PendingNearLimit` |
| `work_orders` | 1 company with a member, 2 bidders, 1 order, 2 workers, 1 failure | 970 thousand | `TypeOK`, `OneWinner`, `AwardedByOwnSide`, `OpenHasExpiryJob`, `PromiseSpec` |
| `moderation` | 2 bookings, 1 report, 2 suspensions, 2 workers and 2 moderators, 1 failure, days 0–2 | 455 thousand | `TypeOK`, `RevealedBlindly`, `RevealedTogether`, `PendingIsScheduled`, `SuspensionHasLiftJob`, `ClosedOnlyWhileSuspended` |
| `registration` | 2 people, 2 codes, 1 coupon and the rewards, 2 workers, 1 failure | 160 thousand | `TypeOK`, `CodeIsKept`, `UsesAreCounted`, `BonusNeverBlocks` |
| `sessions` | 1 account, 1 browser, 4 pairs, 2 requests, 1 failure, instants 0–2 | 1.1 million | `TypeOK`, `SuspendedIsOutSoon`, `RotatedAtEachUse`, `LostOnlyToPages` |
| `sign_up` | 2 windows, 2 workers, 2 codes of 2 attempts, 1 failure, sessions that end | 1.6 million | `WizardFollowsAccount`, `GuessesAreBounded`, `PerfilCanProceed` |
| `audit` | 2 acceptances and another entry, 3 workers, 2 failures | 96 thousand | `ChainIsLinear`, `RecordedOnce`, `AppendOnly` |
| `billing_double_credit` | 1 purchase, 1 invoice, both confirmations, 2 workers | | violates `CreditedOnce` |
| `billing_renewal_lost` | 1 subscription, days 0–4 | | violates `RenewalGoesOn` |
| `booking_moved_overlap` | 2 bookings, 2 workers, 1 moved date | | violates `ApprovedDontOverlap` |

The type invariants are proved, those that no run names included.

### Bounds and stories

An instance large enough for every case of a module at once is out of TLC's
reach, so six runs have a CONSTRAINT, defined in the `MC` module, that keeps to
the states of a few stories, each with all that its properties need:

- `MCBilling`: `SubscriptionDay` (two subscriptions within a day, two handlers:
  the races of subscribe, payment and cancellation), `PurchaseCycle` (a purchase
  and its renewal over two days, with a refund or a failure), `SubscriptionYear`
  and `PurchaseYear` (three days and several renewals, one handler at a time).
  The two confirmations of a charge are handled alike, so one order of their
  taking in is enough (`InOrder`); once a second charge is made, a second
  confirmation comes without failures and refunds (`SecondOfOne`).
- `MCBooking`: `Agenda` (two bookings on any of three dates, of which neighbours
  overlap, within the hour) and `Answers` (three requests for one date, answered,
  cancelled or expired; three are needed to exceed a limit of one by more than
  the race of two handlers explains).
- `MCWorkOrders`: a team that changes, and a bid below the floor of the others.
- `MCModeration`: the reviews of one booking without reports; those of two
  bookings of a professional, on the day of their completion and with low and
  high ratings (two handlers grant and revoke badges at once, and one of them may
  throw); reports without reviews (both moderators may suspend the same account);
  and one report among the reviews, one handler at a time, before any suspension.
- `MCRegistration`: registrations and codes before any coupon is redeemed; and
  redemptions when everybody is registered.
- `MCSessions`: requests that overlap while nobody was suspended; suspensions with
  one request at a time; the last pair is issued only if nothing has failed.
- `MCSignUp`: of a second window, a second code, and failures, expiry or the end
  of a session, two are left out at a time.

Two workers are enough for races between two handlers of one row; the properties
that count handlers are proved for any number. One failure can fall between any
two calls of any handler. Properties that say `failures = 0` are those the code does
not keep across a crash, because nothing re-adds a job that was not scheduled,
credits a payment whose handler died, or removes a block whose approval died;
the others hold with crashes.

The properties of the agenda speak of bookings whose date nobody proposed to
move (`MovedBookings`), because `acceptReschedule` does not keep them for the
others. `ClosedOnlyWhileSuspended` speaks of accounts that did not appeal: when an
appeal is granted between the suspension and the closing of the account, the account
stays closed.

Both confirmations of a charge are sent in `billing`, as the API takes both
(`billing-rules.ts`) and `simulatePixPayment` makes a new event for each call. A
second one that finds the invoice paid is `ja_processada`, and one that finds it
refunded changes nothing. When the two are handled at once, each finds the
invoice payable before either marks it, and both activate the purchase
(`billing_double_credit`); a refund in between is overwritten. `AccessWithinPayments`,
`ConcludedIsReversed`, `InvoiceMachine` and the first half of `PaidTimeIsGranted` speak
of the invoices for which that did not happen: `raced` holds the others, and
`AboutToMark` says when an invoice enters it. In the same way the second half of
`PaidTimeIsGranted` (a purchase is `EXPIRADO` only when it is over or was refunded)
excepts the purchases in `overtaken`, which a payment extended between the read and
the write of the expiry job. The exceptions are these two overlaps and nothing
else: a second confirmation before, after or at the crash of the first, for another
invoice, or without the overlap, is within all the properties. Further events of a
charge would do what the second does. `billing_liveness` and `billing_renewal_lost` send
one confirmation: to the first a second one is only a second chance to be credited,
and the second needs a single payment.

## What the code does not keep

Three runs expect a violation:

1. **A payment credited twice** (`billing_double_credit`). `handleWebhook` is
   idempotent for one event, and for a second event of a charge that comes after
   `markPaid` of the first. Two that are handled at once both pass
   `canTransitionInvoice`; `markPaid` does not look at the status, and each extends
   the purchase by a validity.
2. **The renewal chain ends** (`billing_renewal_lost`). The renewal job adds the
   next one under its own id while it runs, and BullMQ ignores the add. After one
   renewal nothing is billed again, although the terms of use promise a charge
   every period.
3. **Two approved bookings in one slot** (`booking_moved_overlap`).
   `acceptReschedule` removes the booking's block, then checks and blocks the new
   date. A second booking approved in between takes the freed slot; blocking the
   new date, or the old one again, is refused and the handler throws: the booking
   stays approved on its old date, with no block, over the other. The exclusion
   constraint only sees blocks. Starting the booking before `applyReschedule` has
   the same effect: its compensation removes the only block.

The following statements of documents and comments are written down in their
modules, quoted, under *What the documentation says and the code does not keep*.
No run lists them; given to TLC as an invariant or property of the component's
run, each is violated:

- `OnlyPaidIsReversed` (`Billing`): `resolveRefund` looks at the refund, not at the
  invoice, and ignores the result of the transition to `ESTORNADA`: two requests
  for one invoice (`MaxRefunds = 2`) send the money back twice, although "só faturas
  pagas podem ser estornadas".
- `ReversedForGood` (`Billing`): of two confirmations handled at once, the second
  `markPaid` overwrites the refund of what the first marked paid.
- `NeverExpiredEarly` (`Billing`): the expiry job reads the end of the purchase, a
  payment extends it, and the job expires it: the purchase is `ATIVO`, which is all
  that `expire` asks, and the month that was paid is lost.
- `CancelKeepsPaidPeriod` (`Billing`): a cancelled subscription grants its plan
  until `proximaCobranca`, which is the first due date until the first renewal,
  whatever was paid.
- `RecordedPaymentIsCredited` (`Billing`): `events.record` comes first, so a
  confirmation handled before its invoice is inserted, or whose handler dies, is
  a duplicate when it is redelivered.
- `CancelFreesAgenda` (`Booking`): when the new date has a conflict,
  `acceptReschedule` blocks the old one again without looking at the status; a
  cancellation in between has already removed the blocks.
- `AwardedHasWinner` (`WorkOrders`): a submission that passed its checks before
  the award upserts the winner's own proposal to `ENVIADA` after it; the order
  is awarded and has no accepted proposal. This is why `Auction!Bid` may take the
  mark of a winner away: the abstract specification promises that an order
  never passes to another bidder, and no more.
- `BidsAreSealed` (`WorkOrders`): the check that a bidder is not on the owner's
  side is made when the bid is made; a bidder who is invited to the company's
  team afterwards sees the bids of the order as its owner.
- `NoReviewAfterReveal` (`Reputation`): a first review that is revealed at the end of the
  window, or restored by moderation, is public while a `createReview` that was checked before
  inserts the other.
- `DecisionStands` (`Moderation`): the job that ends a precautionary hide reads the
  report, and sets its status back to `EM_ANALISE` in a later call; a decision
  in between is undone.
- `SuspensionEnds` (`Moderation`): the lift job runs once, at the end; an appeal that
  is pending then and denied later puts the suspension back in force, with no
  job to end it.
- `AccountHasProfile` (`Registration`): a name taken between `FindSlug` and the insert
  makes the profile's insert throw and leaves an account without a profile; its
  number is taken, so registering again is refused.
- `SessionIsKept` (`Sessions`): a page whose access token has expired renews the
  pair while it is rendered, when cookies cannot be written: the browser keeps a
  refresh token that was spent, and the next request that needs it ends the
  session. `LostOnlyToPages` says that this is the only way.
- `AcceptedIsRecorded` (`Terms`): the acceptance is inserted, then recorded; a
  crash in between leaves it out of the trail for good, as accepting again finds
  the row.

## Fairness

`FairSpec` of `Billing` assumes that a started handler goes on (`WF` on
`Step(w)`), that due jobs are picked up and the gateway redelivers until it is
answered (`SF` on the actions that need a free worker, because the bound on
concurrent handlers is the model's: with weak fairness requests could keep every
worker busy), and that days pass. Nothing is assumed of users, payers,
moderators or failures: the liveness run has no failures, since a job that threw
is not retried. `PendingIsResolved` speaks of invoices due within `MaxTime`;
later ones are beyond the clock of the instance. In the other modules, what
must eventually happen is stated as a safety property: the job that makes it
happen waits, runs, or is about to be added (`OpenHasExpiryJob`,
`PendingIsScheduled`, `SuspensionHasLiftJob`).

## What is proved

Every theorem holds for all values of the constants that satisfy the named
assumptions of its module (`BookingUsers...` and so on: kinds of users are
disjoint and none is the null, durations and bounds are numbers, the set of
workers is finite where it is counted). TLC evaluates the assumptions in each run.

**`BillingProofs`.** `BillingInvariance`: `Spec => []BillingInv`; from it
`TypeCorrect`, `OneLiveSubscription`, `NothingSettledUnconfirmed`
(`SettledOnlyIfConfirmed`, in no run) and `NothingActivatedUnpaid`. That an
activated subscription has a settled invoice depends on what the webhook handler
remembers: between `markPaid` and `activateOrigin` its invoice must still be
settled and still belong to the origin it read. `BillingInv` says so for every
handler (`HandlerConsistent`), says that rows refer to rows that exist
(`RowsConsistent`), and that no two handlers are about to insert the same invoice
(`OpeningsDistinct`), without which an insert could overwrite a settled one. The
argument is in the rely/guarantee style: every step of one handler only lets rows
grow (`RowsGrow`: rows do not disappear, change owner, or become unsettled),
growing rows keep what every other handler remembers (`OthersStayConsistent`), so
a step has only to establish the rows' invariants and what its own handler
remembers (`HandlerStep`). There is one lemma per action.

Five more layers stand above `BillingInv`, each with an invariant of
`BillingInvariant` and the properties it gives. Nothing is assumed of the gateway:
both confirmations of a charge may be sent, and those about payments speak of the
invoices that are not in `raced`.

- `PaymentsInv` (`PaymentsInvariance`): an invoice outside `raced` has at most
  one handler that credits its payment, because the check of a second one that
  passes puts it there, and is not settled until its `markPaid`; a handler that
  requests a refund holds a settled invoice and a refund of its own; one that
  resolves a refund has sent the money back, then reversed the invoice, by the
  call it is at. Hence `ConcludedIsReversedAlways` and
  `InvoicesFollowTheirMachine`.
- `AccessInv`: neither the end of a vigência nor one about to be written exceeds
  today plus a validity for each settled invoice whose handler has read the
  purchase (`Granted`). The read of `activateOrigin` is what adds an invoice to
  `Granted`, so two handlers that read the same end, each with its payment, cannot break
  it. Hence `AccessWithinPaymentsAlways`.
- `RenewalInv`: a subscription is billed by one handler, which holds its job, or
  waits for the job (`CycleOK`, `CyclesDistinct`); without failures the invoice in
  hand, and the job's date, come a period after every invoice there is
  (`CycleDates`). Hence `NeverBilledTwice`.
- `GrantInv`, without failures: the payments of a purchase come one after the
  other, because it has one handler in its turn, or one open invoice, or one
  renewal to come (`TurnsExclude`); so the end of the vigência that a handler read is still
  the end when it writes (`PurchaseOK`), and each payment adds its validity to what the
  payments before it gave (`PaidTimeIsWritten`). This is one half of
  `PaidTimeIsGrantedAlways`.
- `ExpiryInv` (`ExpiryInvariance`), with failures: the job that is about to expire a
  purchase has found it over, and it still is unless a payment overtook the job; who
  revokes a purchase has sent back a payment of it. This is the other half.

**`BookingProofs`** proves every property of the run `booking`, the type
invariant and `BookingMachine` (statuses follow booking-state.ts), in four
layers. `RowsInv`: rows, jobs and what handlers remember have their types and
refer to rows that exist; no two handlers are about to insert the same booking.
`AgendaInv`: blocks never overlap, and for each booking that was not moved, who
holds its block: nobody while it is pending, the one handler past `BlockSlot`
while it approves, the booking once approved; a handler about to remove blocks
does so for a booking that is not confirmed. `PenaltyInv`: a handler about to
create a penalty is the only one for its booking, whose status is final, and has
counted no more penalties than there are. `LimitInv`: pending requests plus
handlers about to insert exceed the limit by less than the number of workers,
because the last of them to pass the check had counted the others' rows or
holds a worker they do not.

**`WorkOrdersProofs`.** `OrdersInv`: what each handler knows of its rows
(`HandlerConsistent`), that an order's job id is in at most one handler's hands
(`HoldersDistinct`), that no job is there before its order. From it `OneWinner`,
`AwardedByOwnSide`, `OpenHasExpiryJob`. `ImplementsAuction` (`Spec =>
PromiseSpec`): under the mapping of `Promise`, the initial states are `Auction`'s,
`CreateOrder`, `Upsert`, `Adjudicate` and `ExpireIfOpen` are its steps when they
write, every other action is a stutter. `WorkOrdersTypeOK` needs `TypeInv` (for
whom an order is inserted, what a bid may ask) and that the floor is a number
(`FloorIsNatural`): a sum over the set of bids, for which the prover has no
induction rule. `SumOfBidsBounds` reasons from a least counterexample
(`LeastNumber`, from `WFMin` of the library): the recursion has a solution on the
sets of up to `n` bids, whose values are numbers and at most `n` times the
highest bid. Hence also `FloorCanBeMet` (`FloorIsMet`, in no run). These sums are
the reason why the professionals are assumed to be finitely many.

**`SignUpProofs`.** `WizardInv` says of each request at which calls it may be,
where its answer leads and what it has already made true, and of each window that what
it shows is so; account and subscription are never taken back, nor is having been
signed in, hence late answers are harmless (`WizardFollowsAccountAlways`). `PerfilCanProceedAlways`
adds that, without failures, whoever is asked for the profile is verified, has an account, or a handler
that spent the mark is about to insert one. `GuessesAreBoundedAlways` is a
counting argument. Let `W` be the handlers at a time and `MAX` the attempts. For
the code that is in Redis, the guesses made, `MAX` for each request about to set the
attempts back, and the attempts left (unless all handlers are such requests)
never exceed `W * MAX`: a request may allow `MAX` guesses again, but takes a
handler that does not guess meanwhile. Once a code is gone, only the handlers that had
read it can add to its guesses, and not all of them if one replaced it. So a
code is compared with at most `W * (MAX + 1) - 1` guesses.

**`AuditProofs`.** `AuditInv`: the holder of the lock has read the end of the
trail, or has a row that extends it (`HolderExtends`), since nobody else appends
meanwhile; hence `TrailIsLinear` and `TrailIsAppendOnly`. `RecordInv`: an
accepted pair is in the trail or on its way there in exactly one call, unless
something failed; hence `AcceptanceRecordedOnce`.

**`SessionsProofs`.** `SessionsInv` says what each request in progress has
already spent or passed: a request that passed `assertActive` may still issue a
pair in the instant its account is closed, and no later (`ClosedOK`, hence
`SuspendedIsOutSoonAlways`); the pairs that renewed a token and the requests that
have read it and may still renew it are together at most the requests that run,
because its key is gone once the first of them deleted it (`RotationOK`, hence
`RotatedAtEachUseAlways`); a pair not answered yet is known to one request, a
refresh token in a cookie to one browser (`Private`), so that a request that has
spent the token of a cookie is the one that is going to write it, unless it renders a
page (`KeptOK`, hence `LostOnlyToPagesAlways`).

**`RegistrationProofs`.** `RegistrationInv`: rows only come to be (`Grows`), so
that what a handler read stays true; a code that is written is never written
again, because the update asks for a null column (`GivenOK`); between the profile
and the welcome a handler has the user in hand, whatever the referral throws
(`BonusOK`). `UsesAreCounted` is inductive once a coupon without a row has no
redemptions (`UncreatedOK`): each step changes the uses, the redemptions and the
handlers about to count by amounts that cancel.

**`ModerationProofs`.** `ModerationInv` is one invariant for the reviews and one
for reports and suspensions, which share only the column moderation hides and
shows. Reviews: the handler that wrote the second one of a booking has it in hand
until both are out (`TogetherOK`); a pending review has its job or a handler about
to reveal it or to schedule that (`ScheduledOK`), where a failed job is one that had
already revealed (`RevealJobOK`); one handler runs a job (`RunnersOK`). Suspensions: a
handler that opens one holds it alone, before its job is there (`HoldersOK`); an
account that stays closed has a suspension in force or a handler about to look for
one or to open the account (`ClosedOK`), which needs that the two jobs of one user see each
other's writes in the order of the calls.

**Only model-checked**: liveness under fairness (`PendingIsResolved`,
`ConfirmedIsCredited`), which is out of the prover's reach as `ENABLED` is. Every
invariant and action property of the passing runs is proved.

## Not modelled

The rest of the implementation keeps no state that the modelled components
decide on. Most of its lines are pages and components of the web application
(presentation of what the API returns), DTOs and validation, queries and
summaries, seeds, and the framework's wiring; a state machine of them would have
nothing to violate. `PROJECT.json` gives the reason component by component:

- Entitlements are a pure table from plan to limits; refund amounts, the Pix
  code and the webhook's signature are pure functions of one call.
- Notifications, engagement and the onboarding reminders are best-effort sends
  no handler decides on; that the onboarding is scheduled is in `Registration`.
- Chats append messages behind a participant check; what the check of a work
  order reads, the accepted proposal, is in `WorkOrders`.
- Public profile, search, addresses, cities, favorites, professional tools,
  support, administration: queries and rows of one user.
- Storage, observability, configuration, infrastructure: I/O and glue.

### What is left out of the modelled components

- Work orders: what a photo stores, the lists and the monthly report.
- Reputation: the trail of reputation events, summaries. Moderation: the queue
  of pending reports (a query). Both: audit and notifications, whose failures
  are among the failures of a handler.
- Promotions: what a coupon takes off a price. Registration: e-mail addresses,
  editing a profile.
- Sign-up: the fields of the forms, the sending of the code, sign-in with
  Google. The code has no limit on how often a new code is requested besides the
  rate of the API, so `MaxCodes` is a bound of the model.
- Sessions: the profile cookie, redirects, passwords.

### What is left out of Booking

The photo of a request, chats, notifications and the review reminders after
completion; the checks that the professional exists and that nobody books
themself (the two kinds of users are disjoint); descriptions, reasons and the
audit record of a penalty (its failure is a `Failure` after `CreatePenalty`).
Blocks that belong to no booking are absent because no code inserts them. The
weekly slots a professional publishes are not read by any handler of booking.

### What is left out of Billing

Prices, coupons and the free days they give (a later first due date), the plan
reminder job (a notification), the gateway's own subscription object, audit and
notifications (their failures are among `Failure`), the refund's amount (any
reason with a positive amount is `RequestRefund`), `requirePayableInvoice`'s
backfill of a charge for invoices seeded without one, and `simulatePixPayment`,
which delivers a confirmation through the same webhook path, under a fresh event
id for each call: the two confirmations of a charge stand for two such events. The statuses
`INADIMPLENTE` and `CANCELADA` (of an invoice) are declared but written by no
code and are absent.
