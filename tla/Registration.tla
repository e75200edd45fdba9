------------------------------ MODULE Registration ------------------------------
(***************************************************************************)
(* Registration in ObraCerta, over Promotions: the account's row, its      *)
(* profile with a public name of its own, the referral and the onboarding  *)
(* messages, one call after the other and in no transaction.               *)
(*                                                                         *)
(* A user is named by the WhatsApp number, which is unique.  Everybody has *)
(* the same name here, so that the public names collide.  Tokens and       *)
(* e-mail addresses are left out.                                          *)
(***************************************************************************)
EXTENDS Promotions

VARIABLES
  verified,    \* WhatsApp numbers that a code has just verified
  perfil,      \* users with a profile
  slug,        \* the public name: the suffix of the name, 0 for none
  empresas,    \* users that are companies
  onboarding   \* users whose onboarding messages are scheduled

accounts == <<verified, perfil, slug, empresas, onboarding>>
vars == <<registered, promotions, task, failures, caught, accounts>>

TypeOK ==
  /\ PromotionsTypeOK
  /\ verified \subseteq Users /\ perfil \subseteq registered
  /\ slug \in [Users -> Nat]
  /\ empresas \subseteq registered
  /\ onboarding \subseteq perfil

Init ==
  /\ PromotionsInit
  /\ verified = {} /\ perfil = {} /\ empresas = {} /\ onboarding = {}
  /\ slug = [u \in Users |-> 0]

\* slugExists, companySlugExists: companies have their own names.
slugExists(n, tipo) ==
  \E u \in perfil : slug[u] = n /\ (u \in empresas <=> tipo = "EMPRESA")

--------------------------------------------------------------------------------

\* OtpService.verify, when it succeeds.
VerifyOtp(u) ==
  /\ verified' = verified \cup {u}
  /\ UNCHANGED <<registered, promotions, task, failures, caught, perfil, slug, empresas,
                 onboarding>>

\* register: the verification is spent, whatever comes of the rest; then create
\* asks whether the number is taken.
Register(w, u) ==
  /\ Free(w) /\ u \in verified
  /\ verified' = verified \ {u}
  /\ task' = IF u \in registered THEN task
             ELSE [task EXCEPT ![w] = [Idle EXCEPT !.step = "insert", !.user = u]]
  /\ UNCHANGED <<registered, promotions, failures, caught, perfil, slug, empresas, onboarding>>

\* registerWithPassword, with the code of a referral or none; registerCompany.
RegisterWithPassword(w, u, tipo, code) ==
  /\ Free(w) /\ u \notin registered
  /\ tipo = "EMPRESA" => code = NoCode
  /\ task' = [task EXCEPT ![w] =
       [Idle EXCEPT !.step = "insert", !.user = u, !.tipo = tipo, !.code = code]]
  /\ UNCHANGED <<registered, promotions, failures, caught, accounts>>

\* The insert; the unique index refuses a number that was taken meanwhile.
InsertUser(w) ==
  LET u == task[w].user IN
  /\ At(w, "insert")
  /\ IF u \in registered
       THEN Finish(w) /\ UNCHANGED <<registered, empresas>>
       ELSE /\ registered' = registered \cup {u}
            /\ empresas' = IF task[w].tipo = "EMPRESA" THEN empresas \cup {u} ELSE empresas
            /\ task' = [task EXCEPT
                 ![w].step = IF task[w].tipo = "EMPRESA" THEN "profile" ELSE "slug",
                 ![w].n = IF task[w].tipo = "EMPRESA" THEN 0 ELSE 1]
  /\ UNCHANGED <<promotions, failures, caught, verified, perfil, slug, onboarding>>

\* generateUniqueSlug, generateUniqueCompanySlug: the first suffix nobody has.
FindSlug(w) ==
  /\ task[w].step \in {"slug", "companySlug"}
  /\ IF slugExists(task[w].n, task[w].tipo)
       THEN task' = [task EXCEPT ![w].n = @ + 1]
       ELSE Goto(w, IF At(w, "slug") THEN "profile" ELSE "companyInfo")
  /\ UNCHANGED <<registered, promotions, failures, caught, accounts>>

AfterProfile(w) == IF task[w].code = NoCode THEN "onboarding" ELSE "owner"

\* Mutated: a profile that is refused does not end the registration.
CreateProfileBestEffort(w) ==
  LET u == task[w].user IN
  /\ At(w, "profile")
  /\ IF task[w].tipo = "PROFISSIONAL" /\ slugExists(task[w].n, "PROFISSIONAL")
       THEN UNCHANGED <<perfil, slug>>
       ELSE perfil' = perfil \cup {u} /\ slug' = [slug EXCEPT ![u] = task[w].n]
  /\ task' = IF task[w].tipo = "EMPRESA"
       THEN [task EXCEPT ![w].step = "companySlug", ![w].n = 1]
       ELSE [task EXCEPT ![w].step = AfterProfile(w)]
  /\ UNCHANGED <<registered, promotions, failures, caught, verified, empresas, onboarding>>

\* createProfessional, createCompany: the unique index on the public names makes
\* the insert throw when another professional took the name meanwhile.
CreateProfile(w) ==
  LET u == task[w].user IN
  /\ At(w, "profile")
  /\ IF task[w].tipo = "PROFISSIONAL" /\ slugExists(task[w].n, "PROFISSIONAL")
       THEN Finish(w) /\ UNCHANGED <<perfil, slug>>
       ELSE /\ perfil' = perfil \cup {u}
            /\ slug' = [slug EXCEPT ![u] = task[w].n]
            /\ task' = IF task[w].tipo = "EMPRESA"
                 THEN [task EXCEPT ![w].step = "companySlug", ![w].n = 1]
                 ELSE [task EXCEPT ![w].step = AfterProfile(w)]
  /\ UNCHANGED <<registered, promotions, failures, caught, verified, empresas, onboarding>>

\* setCompanyInfo, with the public name of the company.
SetCompanyInfo(w) ==
  /\ At(w, "companyInfo")
  /\ IF slugExists(task[w].n, "EMPRESA")
       THEN Finish(w) /\ UNCHANGED slug
       ELSE /\ slug' = [slug EXCEPT ![task[w].user] = task[w].n]
            /\ Goto(w, "onboarding")
  /\ UNCHANGED <<registered, promotions, failures, caught, verified, perfil, empresas,
                 onboarding>>

\* scheduleSequence
ScheduleOnboarding(w) ==
  /\ At(w, "onboarding")
  /\ onboarding' = onboarding \cup {task[w].user}
  /\ Finish(w)
  /\ UNCHANGED <<registered, promotions, failures, caught, verified, perfil, slug, empresas>>

--------------------------------------------------------------------------------

\* An awaited call throws where nothing catches it, or the process dies.
Failure(w) ==
  /\ ~Free(w)
  /\ failures + caught < MaxFailures
  /\ failures' = failures + 1
  /\ Finish(w)
  /\ UNCHANGED <<registered, promotions, caught, accounts>>

Next ==
  \/ \E w \in Workers :
       \/ PromotionsStep(w) /\ UNCHANGED accounts
       \/ InsertUser(w) \/ FindSlug(w) \/ CreateProfile(w) \/ SetCompanyInfo(w)
       \/ ScheduleOnboarding(w) \/ Failure(w)
       \/ \E u \in Users :
            \/ AskCode(w, u) /\ UNCHANGED accounts
            \/ Register(w, u)
            \/ \E tipo \in {"PROFISSIONAL", "EMPRESA"}, code \in Codes \cup {NoCode} :
                 RegisterWithPassword(w, u, tipo, code)
            \/ \E c \in CouponIds : Redeem(w, u, c) /\ UNCHANGED accounts
  \/ \E u \in Users : VerifyOtp(u)
  \/ \E c \in Promos : \E usosMax \in 1 .. 2 : CreateCoupon(c, usosMax) /\ UNCHANGED accounts
  \/ \E c \in CouponIds : ToggleCoupon(c) /\ UNCHANGED accounts

Spec == Init /\ [][Next]_vars

--------------------------------------------------------------------------------
(* Properties *)

\* "indicação é bônus: qualquer falha aqui não invalida o cadastro": when nothing
\* but the referral failed, every user with a profile has been welcomed; only a
\* company whose name was taken under its registration has not.
BonusNeverBlocks ==
  Quiet /\ failures = 0 =>
    \A u \in perfil \ empresas : u \in onboarding

--------------------------------------------------------------------------------
(* What the documentation says and the code does not keep *)

\* "o back garante a integridade da transação de identidade" (cadastro.service.ts):
\* when no call failed and no handler runs, an account has its profile.
AccountHasProfile == Quiet /\ failures = 0 /\ caught = 0 => registered = perfil

================================================================================
