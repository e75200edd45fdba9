------------------------------- MODULE Moderation -------------------------------
(***************************************************************************)
(* Moderation of ObraCerta, over Reputation: a report hides the review it  *)
(* is about for a while, a moderator decides it, decided strikes suspend   *)
(* the account of the offender, a suspension is appealed and decided, or   *)
(* ends by itself.                                                         *)
(*                                                                         *)
(* The handlers of this module are run by workers of their own, one        *)
(* awaited call at a time.  The account's status is what login reads.      *)
(***************************************************************************)
EXTENDS Reputation

CONSTANTS
  Moderators,              \* workers that run moderation's handlers
  HIDE_WINDOW_HOURS, AUTO_SUSPEND_THRESHOLD, SUSPENSION_DAYS, \* in days here
  MaxReports, MaxSuspensions \* bounds

ASSUME ModerationAssumption ==
  /\ HIDE_WINDOW_HOURS \in Nat /\ SUSPENSION_DAYS \in Nat \ {0}
  /\ AUTO_SUSPEND_THRESHOLD \in Nat /\ MaxReports \in Nat /\ MaxSuspensions \in Nat

ReportIds == 1 .. MaxReports
SuspensionIds == 1 .. MaxSuspensions

VARIABLES
  reports,      \* status "AUSENTE" is no row
  suspensions,  \* account_suspensions; status "AUSENTE" is no row
  accounts,     \* users.status
  restoreJobs,  \* the queue moderation-restore, by report
  liftJobs,     \* the queue suspension-lift, by suspension
  caso          \* the handler each moderation worker runs

moderation == <<reports, suspensions, accounts, restoreJobs, liftJobs, caso>>
allVars == <<vars, moderation>>

\* What a report is about: a review, or a user.
Targets == ReviewIds \cup Users
NoTarget == NoUser
Decided == {"PROCEDENTE", "IMPROCEDENTE"}

Report == [alvo : Targets \cup {NoTarget},
           status : {"AUSENTE", "ABERTA", "EM_ANALISE"} \cup Decided]
Suspension == [userId : Users \cup {NoUser}, apelada : BOOLEAN, fimEm : Nat,
               status : {"AUSENTE", "ATIVA", "APELADA", "REVOGADA", "EXPIRADA"}]
Caso ==
  [op : {"idle", "denunciar", "resolve", "lift", "appeal", "expire"},
   step : {"idle", "hide", "scheduleRestore", "setStatus", "content", "checkActive", "strikes",
           "suspend", "setSuspenso", "scheduleLift", "restore", "setEmAnalise", "resolve",
           "expire", "checkOther", "reactivate", "completeJob"},
   report : ReportIds \cup {0}, suspension : SuspensionIds \cup {0}, decision : BOOLEAN]

TypeOK ==
  /\ ReputationTypeOK
  /\ reports \in [ReportIds -> Report]
  /\ suspensions \in [SuspensionIds -> Suspension]
  /\ accounts \in [Users -> {"ATIVO", "SUSPENSO"}]
  /\ restoreJobs \in Queue(ReportIds)
  /\ liftJobs \in Queue(SuspensionIds)
  /\ caso \in [Moderators -> Caso]

NoCaso == [op |-> "idle", step |-> "idle", report |-> 0, suspension |-> 0, decision |-> FALSE]

Init ==
  /\ ReputationInit
  /\ reports = [i \in ReportIds |-> [alvo |-> NoTarget, status |-> "AUSENTE"]]
  /\ suspensions = [s \in SuspensionIds |->
       [userId |-> NoUser, apelada |-> FALSE, fimEm |-> 0, status |-> "AUSENTE"]]
  /\ accounts = [u \in Users |-> "ATIVO"]
  /\ restoreJobs = EmptyQueue(ReportIds)
  /\ liftJobs = EmptyQueue(SuspensionIds)
  /\ caso = [m \in Moderators |-> NoCaso]

--------------------------------------------------------------------------------
(* Rules of the domain *)

canResolveReport(i) == reports[i].status \in {"ABERTA", "EM_ANALISE"}

\* resolveOffender: the user, or the author of the review.
offender(i) == IF reports[i].alvo \in Users THEN reports[i].alvo ELSE reports[i].alvo[2]

Strikes(u) == {i \in ReportIds : reports[i].status = "PROCEDENTE" /\ offender(i) = u}

shouldAutoSuspend(u) == Cardinality(Strikes(u)) >= AUTO_SUSPEND_THRESHOLD

\* activeForUser
ActiveFor(u) == {s \in SuspensionIds : suspensions[s].userId = u /\ suspensions[s].status = "ATIVA"}

canAutoLift(s) == suspensions[s].status = "ATIVA" /\ now >= suspensions[s].fimEm

Absent(T) == {k \in DOMAIN T : T[k].status = "AUSENTE"}
Next1(k, T) == k \in Absent(T) /\ \A j \in Absent(T) : k <= j

Doing(m, op, step) == caso[m].op = op /\ caso[m].step = step
Available(m) == caso[m] = NoCaso
To(m, step) == caso' = [caso EXCEPT ![m].step = step]
Close(m) == caso' = [caso EXCEPT ![m] = NoCaso]
reviewSide == <<responses, badges, revealJobs, task, now, failures>>

--------------------------------------------------------------------------------
(* Reports *)

\* denunciar: the report is filed ...
Denunciar(m, alvo) ==
  /\ Available(m)
  /\ alvo \in ReviewIds => reviews[alvo].status # "AUSENTE"
  /\ \E i \in ReportIds :
       /\ Next1(i, reports)
       /\ reports' = [reports EXCEPT ![i] = [alvo |-> alvo, status |-> "ABERTA"]]
       /\ caso' = IF alvo \in ReviewIds
                    THEN [caso EXCEPT ![m] =
                           [NoCaso EXCEPT !.op = "denunciar", !.step = "hide", !.report = i]]
                    ELSE caso
  /\ UNCHANGED <<vars, suspensions, accounts, restoreJobs, liftJobs>>

\* ... the review is hidden ...
HideReview(m) ==
  /\ Doing(m, "denunciar", "hide")
  /\ reviews' = hide(reports[caso[m].report].alvo)
  /\ To(m, "scheduleRestore")
  /\ UNCHANGED <<reviewSide, reports, suspensions, accounts, restoreJobs, liftJobs>>

\* ... and the end of that is scheduled.
ScheduleRestore(m) ==
  /\ Doing(m, "denunciar", "scheduleRestore")
  /\ restoreJobs' = Add(restoreJobs, caso[m].report, now + HIDE_WINDOW_HOURS)
  /\ Close(m)
  /\ UNCHANGED <<vars, reports, suspensions, accounts, liftJobs>>

\* resolveReport, up to its first write.
ResolveReport(m, i, procedente) ==
  /\ Available(m)
  /\ canResolveReport(i)
  /\ caso' = [caso EXCEPT ![m] = [NoCaso EXCEPT !.op = "resolve", !.step = "setStatus",
                                  !.report = i, !.decision = procedente]]
  /\ UNCHANGED <<vars, reports, suspensions, accounts, restoreJobs, liftJobs>>

\* setStatus is not guarded on the status that was read.
DecideReport(m) ==
  /\ Doing(m, "resolve", "setStatus")
  /\ reports' = [reports EXCEPT ![caso[m].report].status =
       IF caso[m].decision THEN "PROCEDENTE" ELSE "IMPROCEDENTE"]
  /\ To(m, "content")
  /\ UNCHANGED <<vars, suspensions, accounts, restoreJobs, liftJobs>>

\* The review is hidden or restored; a decision against the offender goes on.
DecideContent(m) ==
  LET alvo == reports[caso[m].report].alvo IN
  /\ Doing(m, "resolve", "content")
  /\ reviews' = CASE alvo \in Users -> reviews
                  [] alvo \notin Users /\ caso[m].decision -> hide(alvo)
                  [] alvo \notin Users /\ ~caso[m].decision -> restore(alvo)
  /\ IF caso[m].decision THEN To(m, "checkActive") ELSE Close(m)
  /\ UNCHANGED <<reviewSide, reports, suspensions, accounts, restoreJobs, liftJobs>>

\* The job moderation-restore: liftPrecautionaryHide.
StartRestore(m, i) ==
  /\ Available(m)
  /\ Due(restoreJobs, i, now)
  /\ restoreJobs' = Take(restoreJobs, i)
  /\ caso' = [caso EXCEPT ![m] = [NoCaso EXCEPT !.op = "lift", !.report = i,
       !.step = IF reports[i].status = "ABERTA" THEN "restore" ELSE "completeJob"]]
  /\ UNCHANGED <<vars, reports, suspensions, accounts, liftJobs>>

RestoreReview(m) ==
  /\ Doing(m, "lift", "restore")
  /\ reviews' = restore(reports[caso[m].report].alvo)
  /\ To(m, "setEmAnalise")
  /\ UNCHANGED <<reviewSide, reports, suspensions, accounts, restoreJobs, liftJobs>>

SetEmAnalise(m) ==
  /\ Doing(m, "lift", "setEmAnalise")
  /\ reports' = [reports EXCEPT ![caso[m].report].status = "EM_ANALISE"]
  /\ To(m, "completeJob")
  /\ UNCHANGED <<vars, suspensions, accounts, restoreJobs, liftJobs>>

--------------------------------------------------------------------------------
(* Suspensions *)

\* maybeAutoSuspend: nobody is suspended twice at a time ...
CheckActive(m) ==
  /\ Doing(m, "resolve", "checkActive")
  /\ IF ActiveFor(offender(caso[m].report)) = {} THEN To(m, "strikes") ELSE Close(m)
  /\ UNCHANGED <<vars, reports, suspensions, accounts, restoreJobs, liftJobs>>

CountStrikes(m) ==
  /\ Doing(m, "resolve", "strikes")
  /\ IF shouldAutoSuspend(offender(caso[m].report)) THEN To(m, "suspend") ELSE Close(m)
  /\ UNCHANGED <<vars, reports, suspensions, accounts, restoreJobs, liftJobs>>

\* ... the suspension is inserted ...
CreateSuspension(m) ==
  /\ Doing(m, "resolve", "suspend")
  /\ \E s \in SuspensionIds :
       /\ Next1(s, suspensions)
       /\ suspensions' = [suspensions EXCEPT ![s] =
            [userId |-> offender(caso[m].report), apelada |-> FALSE,
             fimEm |-> now + SUSPENSION_DAYS, status |-> "ATIVA"]]
       /\ caso' = [caso EXCEPT ![m].step = "setSuspenso", ![m].suspension = s]
  /\ UNCHANGED <<vars, reports, accounts, restoreJobs, liftJobs>>

\* ... the account is closed ...
SetSuspenso(m) ==
  /\ Doing(m, "resolve", "setSuspenso")
  /\ accounts' = [accounts EXCEPT ![suspensions[caso[m].suspension].userId] = "SUSPENSO"]
  /\ To(m, "scheduleLift")
  /\ UNCHANGED <<vars, reports, suspensions, restoreJobs, liftJobs>>

\* Mutated: the job is named after the report.
ScheduleLiftByReport(m) ==
  /\ Doing(m, "resolve", "scheduleLift")
  /\ liftJobs' = IF caso[m].report \in SuspensionIds
                   THEN Add(liftJobs, caso[m].report, suspensions[caso[m].suspension].fimEm)
                   ELSE liftJobs
  /\ Close(m)
  /\ UNCHANGED <<vars, reports, suspensions, accounts, restoreJobs>>

\* ... and its return is scheduled.
ScheduleLift(m) ==
  /\ Doing(m, "resolve", "scheduleLift")
  /\ liftJobs' = Add(liftJobs, caso[m].suspension, suspensions[caso[m].suspension].fimEm)
  /\ Close(m)
  /\ UNCHANGED <<vars, reports, suspensions, accounts, restoreJobs>>

\* appeal: guarded on ATIVA.
Appeal(s) ==
  /\ suspensions[s].status = "ATIVA"
  /\ suspensions' = [suspensions EXCEPT ![s].status = "APELADA", ![s].apelada = TRUE]
  /\ UNCHANGED <<vars, reports, accounts, restoreJobs, liftJobs, caso>>

ResolveAppeal(m, s, grant) ==
  /\ Available(m)
  /\ suspensions[s].status = "APELADA"
  /\ caso' = [caso EXCEPT ![m] = [NoCaso EXCEPT !.op = "appeal", !.step = "resolve",
                                  !.suspension = s, !.decision = grant]]
  /\ UNCHANGED <<vars, reports, suspensions, accounts, restoreJobs, liftJobs>>

\* Mutated: an appeal that is denied gets a status the column has not.
DecideAppealDenied(m) ==
  /\ Doing(m, "appeal", "resolve")
  /\ suspensions' = [suspensions EXCEPT ![caso[m].suspension].status =
       IF caso[m].decision THEN "REVOGADA" ELSE "INDEFERIDA"]
  /\ IF caso[m].decision THEN To(m, "reactivate") ELSE Close(m)
  /\ UNCHANGED <<vars, reports, accounts, restoreJobs, liftJobs>>

\* appealOutcome: revoked, or active again, past its end or not.
DecideAppeal(m) ==
  /\ Doing(m, "appeal", "resolve")
  /\ suspensions' = [suspensions EXCEPT ![caso[m].suspension].status =
       IF caso[m].decision THEN "REVOGADA" ELSE "ATIVA"]
  /\ IF caso[m].decision THEN To(m, "reactivate") ELSE Close(m)
  /\ UNCHANGED <<vars, reports, accounts, restoreJobs, liftJobs>>

\* The account is opened, by an appeal that was granted (whatever other
\* suspension there is) or by the job.
Reactivate(m) ==
  /\ caso[m].step = "reactivate"
  /\ accounts' = [accounts EXCEPT ![suspensions[caso[m].suspension].userId] = "ATIVO"]
  /\ IF caso[m].op = "expire" THEN To(m, "completeJob") ELSE Close(m)
  /\ UNCHANGED <<vars, reports, suspensions, restoreJobs, liftJobs>>

\* The job suspension-lift: liftSuspensionIfDue.
StartLift(m, s) ==
  /\ Available(m)
  /\ Due(liftJobs, s, now)
  /\ liftJobs' = Take(liftJobs, s)
  /\ caso' = [caso EXCEPT ![m] = [NoCaso EXCEPT !.op = "expire", !.suspension = s,
       !.step = IF canAutoLift(s) THEN "expire" ELSE "completeJob"]]
  /\ UNCHANGED <<vars, reports, suspensions, accounts, restoreJobs>>

\* Mutated: every suspension of the user counts as another one.
CheckOtherAny(m) ==
  /\ Doing(m, "expire", "checkOther")
  /\ To(m, IF Cardinality({s \in SuspensionIds :
                 suspensions[s].userId = suspensions[caso[m].suspension].userId}) = 1
             THEN "reactivate" ELSE "completeJob")
  /\ UNCHANGED <<vars, reports, suspensions, accounts, restoreJobs, liftJobs>>

ExpireSuspension(m) ==
  /\ Doing(m, "expire", "expire")
  /\ suspensions' = [suspensions EXCEPT ![caso[m].suspension].status = "EXPIRADA"]
  /\ To(m, "checkOther")
  /\ UNCHANGED <<vars, reports, accounts, restoreJobs, liftJobs>>

CheckOther(m) ==
  /\ Doing(m, "expire", "checkOther")
  /\ To(m, IF ActiveFor(suspensions[caso[m].suspension].userId) = {}
             THEN "reactivate" ELSE "completeJob")
  /\ UNCHANGED <<vars, reports, suspensions, accounts, restoreJobs, liftJobs>>

CompleteModerationJob(m) ==
  /\ caso[m].step = "completeJob"
  /\ restoreJobs' = IF caso[m].op = "lift" THEN Complete(restoreJobs, caso[m].report)
                    ELSE restoreJobs
  /\ liftJobs' = IF caso[m].op = "expire" THEN Complete(liftJobs, caso[m].suspension)
                 ELSE liftJobs
  /\ Close(m)
  /\ UNCHANGED <<vars, reports, suspensions, accounts>>

--------------------------------------------------------------------------------
(* Specification *)

\* An awaited call throws, or the process dies and its job is run again.
ModerationFailure(m) ==
  /\ ~Available(m)
  /\ failures < MaxFailures
  /\ failures' = failures + 1
  /\ restoreJobs' \in
       IF caso[m].op = "lift"
         THEN {Fail(restoreJobs, caso[m].report), Stall(restoreJobs, caso[m].report)}
         ELSE {restoreJobs}
  /\ liftJobs' \in
       IF caso[m].op = "expire"
         THEN {Fail(liftJobs, caso[m].suspension), Stall(liftJobs, caso[m].suspension)}
         ELSE {liftJobs}
  /\ Close(m)
  /\ UNCHANGED <<reputation, now, reports, suspensions, accounts>>

Tick ==
  /\ now < MaxTime
  /\ ReputationQuiet /\ \A m \in Moderators : Available(m)
  /\ now' = now + 1
  /\ UNCHANGED <<reputation, failures, moderation>>

ModerationStep(m) ==
  \/ HideReview(m) \/ ScheduleRestore(m)
  \/ DecideReport(m) \/ DecideContent(m) \/ RestoreReview(m) \/ SetEmAnalise(m)
  \/ CheckActive(m) \/ CountStrikes(m) \/ CreateSuspension(m) \/ SetSuspenso(m)
  \/ ScheduleLift(m) \/ DecideAppeal(m) \/ Reactivate(m)
  \/ ExpireSuspension(m) \/ CheckOther(m) \/ CompleteModerationJob(m)

ModerationNext ==
  \/ \E m \in Moderators :
       \/ ModerationStep(m) \/ ModerationFailure(m)
       \/ \E alvo \in Targets : Denunciar(m, alvo)
       \/ \E i \in ReportIds :
            \/ \E procedente \in BOOLEAN : ResolveReport(m, i, procedente)
            \/ StartRestore(m, i)
       \/ \E s \in SuspensionIds :
            \/ \E grant \in BOOLEAN : ResolveAppeal(m, s, grant)
            \/ StartLift(m, s)
  \/ \E s \in SuspensionIds : Appeal(s)

Next ==
  \/ ReputationNext /\ UNCHANGED moderation
  \/ ModerationNext
  \/ Tick

Spec == Init /\ [][Next]_allVars

--------------------------------------------------------------------------------
(* Properties *)

Settled == ReputationQuiet /\ \A m \in Moderators : Available(m)

\* A suspension ends by itself: until it is appealed, the job that lifts it waits
\* or runs, or the handler that created it is still going to schedule it.
SuspensionHasLiftJob ==
  failures = 0 =>
    \A s \in SuspensionIds : suspensions[s].status = "ATIVA" /\ ~suspensions[s].apelada =>
      \/ liftJobs[s].state = "delayed"
      \/ \E m \in Moderators :
           /\ caso[m].suspension = s
           /\ caso[m].step \in {"setSuspenso", "scheduleLift", "expire"}

\* Nobody is kept out for ever: an account is closed only while one of its
\* suspensions lasts, though two moderators may have suspended it twice and the
\* two jobs that lift it look for each other.  (Without appeals: a grant between
\* the suspension and the closing of the account leaves it closed.)
ClosedOnlyWhileSuspended ==
  Settled /\ failures = 0 =>
    \A u \in Users :
      accounts[u] = "SUSPENSO" /\ (\A s \in SuspensionIds : ~suspensions[s].apelada) =>
        ActiveFor(u) # {}

--------------------------------------------------------------------------------
(* What the documentation says and the code does not keep *)

\* "Idempotente: se a moderação já decidiu, não faz nada"
\* (moderation-restore.processor.ts:13-14): a decision stays decided.
DecisionStands ==
  [][\A i \in ReportIds : reports[i].status \in Decided => reports'[i].status \in Decided]_allVars

\* "Auto-lift (job no `fim_em`): expira a suspensão se ATIVA e vencida"
\* (moderation.service.ts:214): none stays in force once it is past its end and
\* nothing is running.
SuspensionEnds ==
  Settled /\ failures = 0 =>
    \A s \in SuspensionIds :
      suspensions[s].status = "ATIVA" /\ now > suspensions[s].fimEm =>
        liftJobs[s].state = "delayed"

================================================================================
