------------------------------- MODULE Promotions -------------------------------
(***************************************************************************)
(* Referral codes, coupons and their redemption in ObraCerta.              *)
(*                                                                         *)
(* A user shares a code that is made the first time it is asked for; who   *)
(* registers with it earns both a coupon; a coupon is redeemed once by a   *)
(* user, up to its limit.  Workers run handlers one awaited call at a time.*)
(* The handlers of the registration itself, which end in processReferral,  *)
(* are in Registration.  A coupon that expires is one that is switched off.*)
(***************************************************************************)
EXTENDS Naturals, FiniteSets

CONSTANTS
  Users, NoUser,
  Codes, NoCode,           \* referral codes that may be drawn
  Promos,                  \* coupons of the administration
  Workers,
  MaxFailures              \* bound

ASSUME PromotionsAssumption ==
  /\ NoUser \notin Users /\ NoCode \notin Codes /\ MaxFailures \in Nat
  /\ IsFiniteSet(Users) /\ IsFiniteSet(Workers)

\* The two coupons of a referral are named after who was referred.
RewardKind == {"IND", "BEM"}
CouponIds == Promos \cup (RewardKind \X Users)

VARIABLES
  registered,   \* users with a row
  codigo,       \* users.codigo_indicacao
  indicadoPor,  \* users.indicado_por
  referrals,    \* <<referrer, referred>>
  coupons,
  redemptions,  \* <<coupon, user>>
  given,        \* history: the codes each user was told
  task,         \* the handler each worker runs
  failures, caught \* calls that threw: ending the handler, or caught

promotions == <<codigo, indicadoPor, referrals, coupons, redemptions, given>>

Coupon == [criado : BOOLEAN, ativo : BOOLEAN, usosMax : Nat, usosCount : Nat]
Steps ==
  {"idle", "candidate", "saveCode", "readCode", "jaUsado", "redeem", "countUse",
   "insert", "slug", "profile", "companySlug", "companyInfo",
   "owner", "rewards", "referral", "setIndicadoPor", "onboarding"}
Task ==
  [step : Steps, user : Users \cup {NoUser}, code : Codes \cup {NoCode},
   owner : Users \cup {NoUser}, coupon : CouponIds \cup {NoCode},
   tipo : {"PROFISSIONAL", "EMPRESA"}, n : Nat]

Idle == [step |-> "idle", user |-> NoUser, code |-> NoCode, owner |-> NoUser,
         coupon |-> NoCode, tipo |-> "PROFISSIONAL", n |-> 0]

PromotionsTypeOK ==
  /\ registered \subseteq Users
  /\ codigo \in [Users -> Codes \cup {NoCode}]
  /\ indicadoPor \in [Users -> Users \cup {NoUser}]
  /\ referrals \subseteq Users \X Users
  /\ coupons \in [CouponIds -> Coupon]
  /\ redemptions \subseteq CouponIds \X Users
  /\ given \in [Users -> SUBSET Codes]
  /\ task \in [Workers -> Task]
  /\ failures \in Nat /\ caught \in Nat

PromotionsInit ==
  /\ registered = {}
  /\ codigo = [u \in Users |-> NoCode]
  /\ indicadoPor = [u \in Users |-> NoUser]
  /\ referrals = {}
  /\ coupons = [c \in CouponIds |->
       [criado |-> FALSE, ativo |-> FALSE, usosMax |-> 0, usosCount |-> 0]]
  /\ redemptions = {}
  /\ given = [u \in Users |-> {}]
  /\ task = [w \in Workers |-> Idle]
  /\ failures = 0 /\ caught = 0

At(w, step) == task[w].step = step
Free(w) == task[w] = Idle
Goto(w, step) == task' = [task EXCEPT ![w].step = step]
Finish(w) == task' = [task EXCEPT ![w] = Idle]
Quiet == \A w \in Workers : Free(w)

OwnerOf(code) == {u \in registered : codigo[u] = code}

--------------------------------------------------------------------------------
(* The code of a user *)

\* getOrCreateReferralCode: the code there is, or a new one.
AskCode(w, u) ==
  /\ Free(w) /\ u \in registered
  /\ IF codigo[u] # NoCode
       THEN /\ given' = [given EXCEPT ![u] = @ \cup {codigo[u]}]
            /\ UNCHANGED task
       ELSE /\ task' = [task EXCEPT ![w] = [Idle EXCEPT !.step = "candidate", !.user = u]]
            /\ UNCHANGED given
  /\ UNCHANGED <<registered, codigo, indicadoPor, referrals, coupons, redemptions,
                 failures, caught>>

\* A code that nobody has is drawn: after a collision another one is, or it was the
\* fifth and the handler throws ...
DrawCode(w) ==
  /\ At(w, "candidate")
  /\ \E code \in Codes :
       IF OwnerOf(code) = {}
         THEN task' = [task EXCEPT ![w].step = "saveCode", ![w].code = code]
         ELSE UNCHANGED task \/ Finish(w)
  /\ UNCHANGED <<registered, promotions, failures, caught>>

\* Mutated: the code is written whether or not there is one.
SaveCodeAgain(w) ==
  LET u == task[w].user IN
  /\ At(w, "saveCode")
  /\ codigo' = [codigo EXCEPT ![u] = task[w].code]
  /\ Goto(w, "readCode")
  /\ UNCHANGED <<registered, indicadoPor, referrals, coupons, redemptions, given,
                 failures, caught>>

\* ... written if the user has none (setCodigoIndicacao; the unique index on the
\* codes makes the write throw if another user took it meanwhile) ...
SaveCode(w) ==
  LET u == task[w].user IN
  /\ At(w, "saveCode")
  /\ IF codigo[u] # NoCode
       THEN Goto(w, "readCode") /\ UNCHANGED codigo
       ELSE IF OwnerOf(task[w].code) = {}
         THEN /\ codigo' = [codigo EXCEPT ![u] = task[w].code]
              /\ Goto(w, "readCode")
         ELSE Finish(w) /\ UNCHANGED codigo
  /\ UNCHANGED <<registered, indicadoPor, referrals, coupons, redemptions, given,
                 failures, caught>>

\* ... and read again: a handler that lost the race gives the winner's.
ReadCode(w) ==
  LET u == task[w].user IN
  /\ At(w, "readCode")
  /\ given' = [given EXCEPT ![u] = @ \cup {codigo[u]}]
  /\ Finish(w)
  /\ UNCHANGED <<registered, codigo, indicadoPor, referrals, coupons, redemptions,
                 failures, caught>>

--------------------------------------------------------------------------------
(* Coupons *)

\* createCoupon; the code is unique.
CreateCoupon(c, usosMax) ==
  /\ ~coupons[c].criado
  /\ coupons' = [coupons EXCEPT ![c] =
       [criado |-> TRUE, ativo |-> TRUE, usosMax |-> usosMax, usosCount |-> 0]]
  /\ UNCHANGED <<registered, codigo, indicadoPor, referrals, redemptions, given, task,
                 failures, caught>>

\* toggleCoupon
ToggleCoupon(c) ==
  /\ coupons[c].criado
  /\ coupons' = [coupons EXCEPT ![c].ativo = ~@]
  /\ UNCHANGED <<registered, codigo, indicadoPor, referrals, redemptions, given, task,
                 failures, caught>>

\* couponUnusableReason, of the row that was read.
usable(c) == coupons[c].ativo /\ coupons[c].usosCount < coupons[c].usosMax

\* redeemForSubscription, called by subscribe: the coupon is read ...
Redeem(w, u, c) ==
  /\ Free(w) /\ u \in registered /\ coupons[c].criado
  /\ usable(c)
  /\ task' = [task EXCEPT ![w] =
       [Idle EXCEPT !.step = "jaUsado", !.user = u, !.coupon = c]]
  /\ UNCHANGED <<registered, promotions, failures, caught>>

\* ... then whether the user redeemed it (hasRedeemed) ...
HasRedeemed(w) ==
  /\ At(w, "jaUsado")
  /\ IF <<task[w].coupon, task[w].user>> \in redemptions THEN Finish(w) ELSE Goto(w, "redeem")
  /\ UNCHANGED <<registered, promotions, failures, caught>>

\* Mutated: a redemption that is there already counts again.
InsertRedemptionAnyway(w) ==
  /\ At(w, "redeem")
  /\ redemptions' = redemptions \cup {<<task[w].coupon, task[w].user>>}
  /\ Goto(w, "countUse")
  /\ UNCHANGED <<registered, codigo, indicadoPor, referrals, coupons, given, failures, caught>>

\* ... the redemption is inserted, unless it is there already ...
InsertRedemption(w) ==
  LET r == <<task[w].coupon, task[w].user>> IN
  /\ At(w, "redeem")
  /\ redemptions' = redemptions \cup {r}
  /\ IF r \in redemptions THEN Finish(w) ELSE Goto(w, "countUse")
  /\ UNCHANGED <<registered, codigo, indicadoPor, referrals, coupons, given, failures, caught>>

\* ... and counted, whatever the limit is by now.
CountUse(w) ==
  /\ At(w, "countUse")
  /\ coupons' = [coupons EXCEPT ![task[w].coupon].usosCount = @ + 1]
  /\ Finish(w)
  /\ UNCHANGED <<registered, codigo, indicadoPor, referrals, redemptions, given,
                 failures, caught>>

--------------------------------------------------------------------------------
(* processReferral, run by a registration that brings a code *)

\* The owner of the code, and whether the user was referred before.
FindOwner(w) ==
  LET u == task[w].user IN
  /\ At(w, "owner")
  /\ \/ \E o \in OwnerOf(task[w].code) \ {u} :
          /\ \A r \in referrals : r[2] # u
          /\ task' = [task EXCEPT ![w].step = "rewards", ![w].owner = o]
     \/ /\ OwnerOf(task[w].code) \subseteq {u} \/ \E r \in referrals : r[2] = u
        /\ Goto(w, "onboarding")
  /\ UNCHANGED <<registered, promotions, failures, caught>>

\* issueRewardCoupon, of both in any order: of single use.
IssueRewards(w) ==
  /\ At(w, "rewards")
  /\ \E c \in RewardKind \X {task[w].user} :
       /\ ~coupons[c].criado
       /\ coupons' = [coupons EXCEPT ![c] =
            [criado |-> TRUE, ativo |-> TRUE, usosMax |-> 1, usosCount |-> 0]]
       /\ Goto(w, IF \A d \in RewardKind \X {task[w].user} : d = c \/ coupons[d].criado
                    THEN "referral" ELSE "rewards")
  /\ UNCHANGED <<registered, codigo, indicadoPor, referrals, redemptions, given,
                 failures, caught>>

CreateReferral(w) ==
  /\ At(w, "referral")
  /\ referrals' = referrals \cup {<<task[w].owner, task[w].user>>}
  /\ Goto(w, "setIndicadoPor")
  /\ UNCHANGED <<registered, codigo, indicadoPor, coupons, redemptions, given,
                 failures, caught>>

SetIndicadoPor(w) ==
  /\ At(w, "setIndicadoPor")
  /\ indicadoPor' = [indicadoPor EXCEPT ![task[w].user] = task[w].owner]
  /\ Goto(w, "onboarding")
  /\ UNCHANGED <<registered, codigo, referrals, coupons, redemptions, given, failures, caught>>

ReferralSteps == {"owner", "rewards", "referral", "setIndicadoPor"}

\* Mutated: what throws in the referral throws in the registration.
CatchReferralNot(w) ==
  /\ task[w].step \in ReferralSteps
  /\ failures + caught < MaxFailures
  /\ caught' = caught + 1
  /\ Finish(w)
  /\ UNCHANGED <<registered, promotions, failures>>

\* A call of processReferral throws: it is caught, and the registration goes on.
CatchReferral(w) ==
  /\ task[w].step \in ReferralSteps
  /\ failures + caught < MaxFailures
  /\ caught' = caught + 1
  /\ Goto(w, "onboarding")
  /\ UNCHANGED <<registered, promotions, failures>>

PromotionsStep(w) ==
  \/ DrawCode(w) \/ SaveCode(w) \/ ReadCode(w)
  \/ HasRedeemed(w) \/ InsertRedemption(w) \/ CountUse(w)
  \/ FindOwner(w) \/ IssueRewards(w) \/ CreateReferral(w) \/ SetIndicadoPor(w)
  \/ CatchReferral(w)

--------------------------------------------------------------------------------
(* Properties *)

\* "Idempotente: chamadas seguintes devolvem o mesmo código": whoever of the
\* concurrent requests makes it, a user is only ever told the code that is kept.
CodeIsKept == \A u \in Users : given[u] \subseteq {codigo[u]}

\* A coupon's uses are its redemptions: of two redemptions of one coupon by one
\* user that validated together, one counts (redeem), unless a process dies
\* between the insert and the count.
UsesAreCounted ==
  failures = 0 =>
    \A c \in CouponIds :
      coupons[c].usosCount + Cardinality({w \in Workers : At(w, "countUse") /\ task[w].coupon = c})
        = Cardinality({r \in redemptions : r[1] = c})

================================================================================
