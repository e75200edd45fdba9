--------------------------- MODULE RegistrationProofs ---------------------------
(***************************************************************************)
(* Proofs about Registration and the Promotions it extends, for any number *)
(* of users, codes, coupons and handlers at work.                          *)
(*                                                                         *)
(* The handlers write rows that others write too, from what they read some *)
(* calls before.  The invariant says what each of them may still count on: *)
(* rows that never go away, a code that is never written again, and a      *)
(* registration that keeps its user in hand until the welcome.             *)
(***************************************************************************)
EXTENDS Registration, FiniteSetTheorems, TLAPS

Coupled == {"jaUsado", "redeem", "countUse"}
Welcoming == ReferralSteps \cup {"onboarding"}

\* What a handler in progress may count on, whatever the others do meanwhile.
TaskOK(k) ==
  /\ k.step # "idle" => k.user \in Users
  /\ k.step = "saveCode" => k.code \in Codes
  /\ k.step = "readCode" => codigo[k.user] # NoCode
  /\ k.step \in Coupled => k.coupon \in CouponIds /\ coupons[k.coupon].criado
  /\ k.step \in {"slug", "profile"} \cup {"companySlug", "companyInfo"} => k.user \in registered
  /\ k.step \in {"slug", "profile"} /\ k.tipo = "EMPRESA" => k.user \in empresas
  /\ k.step \in Welcoming \cup {"companySlug", "companyInfo"} => k.user \in perfil
  /\ k.step \in {"rewards", "referral", "setIndicadoPor"} => k.owner \in Users

\* A code that was told is there, and is never written again.
GivenOK ==
  \A u \in Users : given[u] \subseteq {codigo[u]} /\ (given[u] # {} => codigo[u] # NoCode)

\* A coupon that is not there has no redemption yet.
RedemptionsOf(c) == {r \in redemptions : r[1] = c}
Counting(c) == {w \in Workers : At(w, "countUse") /\ task[w].coupon = c}
UncreatedOK ==
  \A c \in CouponIds : ~coupons[c].criado => coupons[c].usosCount = 0 /\ RedemptionsOf(c) = {}

\* Between the profile and the welcome a handler has the user in hand.
BonusOK ==
  failures = 0 =>
    \A u \in perfil \ empresas :
      u \in onboarding \/ \E w \in Workers : task[w].user = u /\ task[w].step \in Welcoming

\* The inductive invariant.
RegistrationInv ==
  /\ TypeOK
  /\ \A w \in Workers : TaskOK(task[w])
  /\ GivenOK
  /\ UncreatedOK
  /\ UsesAreCounted
  /\ BonusOK

--------------------------------------------------------------------------------
(* What a step of one worker leaves as it was *)

OthersWait(w) == \A v \in Workers \ {w} : task'[v] = task[v]

\* Rows only come to be, and a code that is written stays.
Grows ==
  /\ registered \subseteq registered' /\ perfil \subseteq perfil'
  /\ empresas \subseteq empresas' /\ onboarding \subseteq onboarding'
  /\ \A u \in Users : codigo[u] # NoCode => codigo'[u] = codigo[u]
  /\ \A c \in CouponIds : coupons[c].criado => coupons'[c].criado

LEMMA Moves ==
  ASSUME TypeOK, NEW w \in Workers, NEW k \in Task, task' = [task EXCEPT ![w] = k]
  PROVE  task' \in [Workers -> Task] /\ OthersWait(w) /\ task'[w] = k
BY DEF TypeOK, PromotionsTypeOK, OthersWait

LEMMA IdleTask == Idle \in Task /\ TaskOK(Idle) /\ Idle.step = "idle"
BY DEF Idle, Task, Steps, TaskOK, Coupled, Welcoming, ReferralSteps

LEMMA MovesTo ==
  ASSUME TypeOK, NEW w \in Workers, NEW step \in Steps, Goto(w, step)
  PROVE  /\ task' \in [Workers -> Task] /\ OthersWait(w)
         /\ task'[w] = [task[w] EXCEPT !.step = step]
         /\ task'[w].step = step /\ task'[w].user = task[w].user /\ task'[w].code = task[w].code
         /\ task'[w].owner = task[w].owner /\ task'[w].coupon = task[w].coupon
         /\ task'[w].tipo = task[w].tipo
<1>1. task[w] \in Task
  BY DEF TypeOK, PromotionsTypeOK
<1> DEFINE k == [task[w] EXCEPT !.step = step]
<1>2. /\ k \in Task /\ k.step = step /\ k.user = task[w].user /\ k.code = task[w].code
      /\ k.owner = task[w].owner /\ k.coupon = task[w].coupon /\ k.tipo = task[w].tipo
  BY <1>1 DEF Task
<1>3. task' = [task EXCEPT ![w] = k]
  BY DEF Goto
<1> HIDE DEF k
<1>4. task' \in [Workers -> Task] /\ OthersWait(w) /\ task'[w] = k
  BY <1>2, <1>3, Moves
<1> QED
  BY <1>2, <1>4 DEF k

LEMMA Ends ==
  ASSUME TypeOK, NEW w \in Workers, Finish(w)
  PROVE  /\ task' \in [Workers -> Task] /\ OthersWait(w) /\ task'[w] = Idle
         /\ task'[w].step = "idle" /\ TaskOK(task[w])'
<1>1. task' \in [Workers -> Task] /\ OthersWait(w) /\ task'[w] = Idle
  BY IdleTask, Moves DEF Finish
<1> QED
  BY <1>1, IdleTask DEF TaskOK, Coupled, Welcoming, ReferralSteps

\* What a handler counts on is still so after a step of another.
LEMMA TaskStays ==
  ASSUME RegistrationInv, Grows, NEW v \in Workers, task'[v] = task[v]
  PROVE  TaskOK(task[v])'
<1>1. TaskOK(task[v]) /\ task[v] \in Task
  BY DEF RegistrationInv, TypeOK, PromotionsTypeOK
<1> QED
  BY <1>1 DEF TaskOK, Grows

LEMMA GivenSame ==
  ASSUME RegistrationInv, Grows, UNCHANGED given
  PROVE  GivenOK'
BY DEF RegistrationInv, GivenOK, Grows

LEMMA CountingFinite ==
  ASSUME NEW c
  PROVE  IsFiniteSet(Counting(c)) /\ Cardinality(Counting(c)) \in Nat
BY PromotionsAssumption, FS_Subset, FS_CardinalityType DEF Counting

LEMMA RedemptionsFinite ==
  ASSUME TypeOK, NEW c
  PROVE  IsFiniteSet(RedemptionsOf(c)) /\ Cardinality(RedemptionsOf(c)) \in Nat
<1>1. IsFiniteSet({c} \X Users)
  BY PromotionsAssumption, FS_Singleton, FS_Product
<1>2. RedemptionsOf(c) \in SUBSET ({c} \X Users)
  BY DEF RedemptionsOf, TypeOK, PromotionsTypeOK
<1> QED
  BY <1>1, <1>2, FS_Subset, FS_CardinalityType

\* The uses, as the invariant names them.
LEMMA UsesCounted ==
  /\ UsesAreCounted <=>
       (failures = 0 => \A c \in CouponIds :
          coupons[c].usosCount + Cardinality(Counting(c)) = Cardinality(RedemptionsOf(c)))
  /\ UsesAreCounted' <=>
       (failures' = 0 => \A c \in CouponIds :
          coupons'[c].usosCount + Cardinality(Counting(c)') = Cardinality(RedemptionsOf(c)'))
BY DEF UsesAreCounted, Counting, RedemptionsOf

LEMMA CountSame ==
  ASSUME RegistrationInv, NEW w \in Workers, OthersWait(w), UNCHANGED redemptions,
         \A c \in CouponIds : coupons'[c].usosCount = coupons[c].usosCount,
         failures' = 0 => failures = 0 /\ ~At(w, "countUse") /\ task'[w].step # "countUse"
  PROVE  UsesAreCounted'
<1> SUFFICES ASSUME failures' = 0, NEW c \in CouponIds
             PROVE  coupons'[c].usosCount + Cardinality(Counting(c)') = Cardinality(RedemptionsOf(c)')
  BY UsesCounted
<1>1. Counting(c)' = Counting(c)
  BY DEF Counting, At, OthersWait
<1>2. RedemptionsOf(c)' = RedemptionsOf(c)
  BY DEF RedemptionsOf
<1>3. coupons[c].usosCount + Cardinality(Counting(c)) = Cardinality(RedemptionsOf(c))
  BY UsesCounted DEF RegistrationInv
<1> QED
  BY <1>1, <1>2, <1>3

\* Whoever gets a profile is welcomed by the handler that made it.
LEMMA BonusSame ==
  ASSUME RegistrationInv, NEW w \in Workers, OthersWait(w), Grows,
         failures' = 0 =>
           /\ failures = 0
           /\ task[w].step \in Welcoming =>
                \/ task'[w].user = task[w].user /\ task'[w].step \in Welcoming
                \/ task[w].user \in onboarding'
           /\ \A u \in perfil' \ perfil :
                u \in empresas' \/ (task'[w].user = u /\ task'[w].step \in Welcoming)
  PROVE  BonusOK'
<1> SUFFICES ASSUME failures' = 0, NEW u \in perfil', u \notin empresas', u \notin onboarding'
             PROVE  \E v \in Workers : task'[v].user = u /\ task'[v].step \in Welcoming
  BY DEF BonusOK, Welcoming, ReferralSteps
<1>1. CASE u \in perfil
  <2>1. PICK v \in Workers : task[v].user = u /\ task[v].step \in Welcoming
    BY <1>1 DEF RegistrationInv, BonusOK, Grows
  <2>2. CASE v = w
    BY <2>1, <2>2
  <2>3. CASE v # w
    BY <2>1, <2>3 DEF OthersWait
  <2> QED
    BY <2>2, <2>3
<1>2. CASE u \notin perfil
  BY <1>2
<1> QED
  BY <1>1, <1>2

\* A step of a handler that redeems nothing keeps the invariant, when ...
LEMMA WorkerStep ==
  ASSUME RegistrationInv, NEW w \in Workers, OthersWait(w), Grows, TypeOK', TaskOK(task[w])',
         UNCHANGED <<redemptions, coupons>>, GivenOK',
         \* it neither counts a use nor leaves a user without a welcome.
         failures' = 0 =>
           /\ failures = 0
           /\ ~At(w, "countUse") /\ task'[w].step # "countUse"
           /\ task[w].step \in Welcoming =>
                \/ task'[w].user = task[w].user /\ task'[w].step \in Welcoming
                \/ task[w].user \in onboarding'
           /\ \A u \in perfil' \ perfil :
                u \in empresas' \/ (task'[w].user = u /\ task'[w].step \in Welcoming)
  PROVE  RegistrationInv'
<1>1. \A v \in Workers : TaskOK(task[v])'
  <2>1. ASSUME NEW v \in Workers \ {w} PROVE TaskOK(task[v])'
    BY TaskStays DEF OthersWait
  <2> QED
    BY <2>1
<1>2. UncreatedOK'
  BY DEF RegistrationInv, UncreatedOK, RedemptionsOf
<1>3. UsesAreCounted'
  BY CountSame
<1>4. BonusOK'
  BY BonusSame
<1> QED
  BY <1>1, <1>2, <1>3, <1>4 DEF RegistrationInv

--------------------------------------------------------------------------------
(* The code of a user *)

LEMMA AskCodeKeeps ==
  ASSUME RegistrationInv, NEW w \in Workers, NEW u \in Users, AskCode(w, u), UNCHANGED accounts
  PROVE  RegistrationInv'
<1>1. /\ TypeOK /\ Free(w) /\ u \in registered /\ Idle.step = "idle" /\ codigo[u] \in Codes \cup {NoCode}
      /\ UNCHANGED <<registered, codigo, indicadoPor, referrals, coupons, redemptions, failures,
                     caught, verified, perfil, slug, empresas, onboarding>>
  BY IdleTask DEF AskCode, RegistrationInv, accounts, TypeOK, PromotionsTypeOK
<1>2. Grows
  BY <1>1 DEF Grows
<1>3. CASE codigo[u] # NoCode
  <2>1. given' = [given EXCEPT ![u] = @ \cup {codigo[u]}] /\ UNCHANGED task
    BY <1>3 DEF AskCode
  <2>2. OthersWait(w) /\ TaskOK(task[w])'
    BY <1>2, <2>1, TaskStays DEF OthersWait
  <2>3. TypeOK'
    BY <1>1, <1>3, <2>1 DEF TypeOK, PromotionsTypeOK
  <2>4. GivenOK'
    BY <1>1, <1>3, <2>1 DEF RegistrationInv, GivenOK, TypeOK, PromotionsTypeOK
  <2>5. task[w].step = "idle" /\ task'[w] = task[w]
    BY <1>1, <2>1 DEF Free
  <2> QED
    BY <1>1, <1>2, <2>2, <2>3, <2>4, <2>5, WorkerStep DEF At
<1>4. CASE codigo[u] = NoCode
  <2> DEFINE k == [Idle EXCEPT !.step = "candidate", !.user = u]
  <2>1. task' = [task EXCEPT ![w] = k] /\ UNCHANGED given
    BY <1>4 DEF AskCode
  <2>2. k \in Task /\ k.step = "candidate" /\ k.user = u
    BY IdleTask DEF Idle, Task, Steps
  <2> HIDE DEF k
  <2>3. task' \in [Workers -> Task] /\ OthersWait(w) /\ task'[w] = k
    BY <1>1, <2>1, <2>2, Moves
  <2>4. TaskOK(task[w])'
    BY <2>2, <2>3 DEF TaskOK, Coupled, Welcoming, ReferralSteps
  <2>5. TypeOK'
    BY <1>1, <2>1, <2>3 DEF TypeOK, PromotionsTypeOK
  <2>6. GivenOK'
    BY <1>2, <2>1, GivenSame
  <2>7. task[w].step = "idle" /\ task'[w].step = "candidate"
    BY <1>1, <2>2, <2>3 DEF Free
  <2> QED
    BY <1>1, <1>2, <2>3, <2>4, <2>5, <2>6, <2>7, WorkerStep DEF At, Welcoming, ReferralSteps
<1> QED
  BY <1>3, <1>4

\* The steps of a handler that change its own row of task and nothing else.
LEMMA OwnStep ==
  ASSUME RegistrationInv, NEW w \in Workers, OthersWait(w), task' \in [Workers -> Task],
         TaskOK(task[w])',
         UNCHANGED <<registered, promotions, perfil, slug, empresas, onboarding>>,
         verified' \subseteq verified, failures' \in Nat, caught' \in Nat,
         failures' = 0 =>
           /\ failures = 0
           /\ ~At(w, "countUse") /\ task'[w].step # "countUse"
           /\ task[w].step \in Welcoming =>
                task'[w].user = task[w].user /\ task'[w].step \in Welcoming
  PROVE  RegistrationInv'
<1>1. Grows /\ UNCHANGED <<redemptions, coupons, given>>
  BY DEF Grows, promotions
<1>2. TypeOK'
  BY DEF RegistrationInv, TypeOK, PromotionsTypeOK, promotions
<1>3. GivenOK'
  BY <1>1, GivenSame
<1> QED
  BY <1>1, <1>2, <1>3, WorkerStep

LEMMA DrawCodeKeeps ==
  ASSUME RegistrationInv, NEW w \in Workers, DrawCode(w), UNCHANGED accounts
  PROVE  RegistrationInv'
<1>1. /\ TypeOK /\ At(w, "candidate") /\ TaskOK(task[w]) /\ task[w] \in Task
      /\ UNCHANGED <<registered, promotions, failures, caught, verified, perfil, slug, empresas,
                     onboarding>>
      /\ failures \in Nat /\ caught \in Nat
  BY DEF DrawCode, RegistrationInv, accounts, TypeOK, PromotionsTypeOK
<1>2. PICK code \in Codes :
        \/ task' = [task EXCEPT ![w].step = "saveCode", ![w].code = code]
        \/ UNCHANGED task
        \/ Finish(w)
  BY DEF DrawCode
<1>3. CASE Finish(w)
  BY <1>1, <1>3, Ends, OwnStep DEF At, Welcoming, ReferralSteps
<1>4. CASE task' = [task EXCEPT ![w].step = "saveCode", ![w].code = code]
  <2> DEFINE k == [task[w] EXCEPT !.step = "saveCode", !.code = code]
  <2>1. k \in Task /\ k.step = "saveCode" /\ k.user = task[w].user /\ k.code = code
    BY <1>1 DEF Task, Steps
  <2>2. task' = [task EXCEPT ![w] = k]
    BY <1>1, <1>4
  <2> HIDE DEF k
  <2>3. task' \in [Workers -> Task] /\ OthersWait(w) /\ task'[w] = k
    BY <1>1, <2>1, <2>2, Moves
  <2>4. TaskOK(task[w])'
    BY <1>1, <2>1, <2>3 DEF TaskOK, At, Coupled, Welcoming, ReferralSteps
  <2>5. task'[w].step = "saveCode"
    BY <2>1, <2>3
  <2> QED
    BY <1>1, <2>3, <2>4, <2>5, OwnStep DEF At, Welcoming, ReferralSteps
<1>5. CASE UNCHANGED task
  <2>1. task' \in [Workers -> Task] /\ OthersWait(w) /\ TaskOK(task[w])'
    BY <1>1, <1>5 DEF TypeOK, PromotionsTypeOK, OthersWait, TaskOK, At, Coupled, Welcoming
  <2>2. task'[w].step = "candidate"
    BY <1>1, <1>5 DEF At
  <2> QED
    BY <1>1, <2>1, <2>2, OwnStep DEF At, Welcoming, ReferralSteps
<1> QED
  BY <1>2, <1>3, <1>4, <1>5

LEMMA SaveCodeKeeps ==
  ASSUME RegistrationInv, NEW w \in Workers, SaveCode(w), UNCHANGED accounts
  PROVE  RegistrationInv'
<1> DEFINE u == task[w].user
<1>1. /\ TypeOK /\ At(w, "saveCode") /\ TaskOK(task[w])
      /\ UNCHANGED <<registered, indicadoPor, referrals, coupons, redemptions, given, failures,
                     caught, verified, perfil, slug, empresas, onboarding>>
      /\ failures \in Nat /\ caught \in Nat
  BY DEF SaveCode, RegistrationInv, accounts, TypeOK, PromotionsTypeOK
<1>2. u \in Users /\ task[w].code \in Codes /\ task[w].code # NoCode
  BY <1>1, PromotionsAssumption DEF TaskOK, At
<1>3. \/ Goto(w, "readCode") /\ codigo'[u] # NoCode
      \/ Finish(w)
  BY <1>1, <1>2 DEF SaveCode, TypeOK, PromotionsTypeOK
<1>4. /\ codigo' \in [Users -> Codes \cup {NoCode}]
      /\ \A v \in Users : codigo[v] # NoCode => codigo'[v] = codigo[v]
  BY <1>1, <1>2 DEF SaveCode, TypeOK, PromotionsTypeOK
<1>5. Grows
  BY <1>1, <1>4 DEF Grows
<1>6. /\ task' \in [Workers -> Task] /\ OthersWait(w) /\ TaskOK(task[w])'
      /\ task'[w].step \in {"readCode", "idle"}
  <2>1. CASE Finish(w)
    BY <1>1, <2>1, Ends
  <2>2. CASE Goto(w, "readCode") /\ codigo'[u] # NoCode
    <3>1. /\ task' \in [Workers -> Task] /\ OthersWait(w)
          /\ task'[w].step = "readCode" /\ task'[w].user = u
      BY <1>1, <2>2, MovesTo DEF Steps
    <3> QED
      BY <1>2, <2>2, <3>1 DEF TaskOK, Coupled, Welcoming, ReferralSteps
  <2> QED
    BY <1>3, <2>1, <2>2
<1>7. TypeOK'
  BY <1>1, <1>4, <1>6 DEF TypeOK, PromotionsTypeOK
<1>8. GivenOK'
  BY <1>1, <1>5, GivenSame
<1> QED
  BY <1>1, <1>5, <1>6, <1>7, <1>8, WorkerStep DEF At, Welcoming, ReferralSteps

LEMMA ReadCodeKeeps ==
  ASSUME RegistrationInv, NEW w \in Workers, ReadCode(w), UNCHANGED accounts
  PROVE  RegistrationInv'
<1> DEFINE u == task[w].user
<1>1. /\ TypeOK /\ At(w, "readCode") /\ TaskOK(task[w]) /\ Finish(w)
      /\ given' = [given EXCEPT ![u] = @ \cup {codigo[u]}]
      /\ UNCHANGED <<registered, codigo, indicadoPor, referrals, coupons, redemptions, failures,
                     caught, verified, perfil, slug, empresas, onboarding>>
  BY DEF ReadCode, RegistrationInv, accounts
<1>2. u \in Users /\ codigo[u] # NoCode /\ codigo[u] \in Codes
  BY <1>1 DEF TaskOK, At, TypeOK, PromotionsTypeOK
<1>3. /\ task' \in [Workers -> Task] /\ OthersWait(w) /\ TaskOK(task[w])' /\ task'[w].step = "idle"
  BY <1>1, Ends
<1>4. Grows
  BY <1>1 DEF Grows
<1>5. TypeOK'
  BY <1>1, <1>2, <1>3 DEF TypeOK, PromotionsTypeOK
<1>6. GivenOK'
  BY <1>1, <1>2 DEF RegistrationInv, GivenOK, TypeOK, PromotionsTypeOK
<1> QED
  BY <1>1, <1>3, <1>4, <1>5, <1>6, WorkerStep DEF At, Welcoming, ReferralSteps

--------------------------------------------------------------------------------
(* Coupons *)

\* A coupon that comes to be, or is switched, has the uses it had.
LEMMA CouponStep ==
  ASSUME RegistrationInv, NEW c \in CouponIds, NEW k \in Coupon, k.criado,
         k.usosCount = coupons[c].usosCount, coupons' = [coupons EXCEPT ![c] = k],
         UNCHANGED <<registered, codigo, indicadoPor, referrals, redemptions, given, task, failures,
                     caught, accounts>>
  PROVE  RegistrationInv'
<1>1. /\ TypeOK
      /\ coupons' \in [CouponIds -> Coupon] /\ coupons'[c] = k
      /\ \A d \in CouponIds \ {c} : coupons'[d] = coupons[d]
      /\ UNCHANGED <<verified, perfil, slug, empresas, onboarding>>
  BY DEF RegistrationInv, TypeOK, PromotionsTypeOK, accounts
<1>2. Grows
  BY <1>1 DEF Grows
<1>3. TypeOK'
  BY <1>1 DEF TypeOK, PromotionsTypeOK
<1>4. \A w \in Workers : TaskOK(task[w])'
  BY <1>2, TaskStays
<1>5. GivenOK'
  BY <1>2, GivenSame
<1>6. UncreatedOK'
  BY <1>1 DEF RegistrationInv, UncreatedOK, RedemptionsOf
<1>7. UsesAreCounted'
  <2> SUFFICES ASSUME failures' = 0, NEW d \in CouponIds
               PROVE  coupons'[d].usosCount + Cardinality(Counting(d)') = Cardinality(RedemptionsOf(d)')
    BY UsesCounted
  <2>1. coupons'[d].usosCount = coupons[d].usosCount
    BY <1>1
  <2>2. Counting(d)' = Counting(d) /\ RedemptionsOf(d)' = RedemptionsOf(d)
    BY DEF Counting, At, RedemptionsOf
  <2>3. coupons[d].usosCount + Cardinality(Counting(d)) = Cardinality(RedemptionsOf(d))
    BY UsesCounted DEF RegistrationInv
  <2> QED
    BY <2>1, <2>2, <2>3
<1>8. BonusOK'
  BY <1>1 DEF RegistrationInv, BonusOK
<1> QED
  BY <1>3, <1>4, <1>5, <1>6, <1>7, <1>8 DEF RegistrationInv

LEMMA CreateCouponKeeps ==
  ASSUME RegistrationInv, NEW c \in Promos, NEW usosMax \in 1 .. 2, CreateCoupon(c, usosMax),
         UNCHANGED accounts
  PROVE  RegistrationInv'
<1> DEFINE k == [criado |-> TRUE, ativo |-> TRUE, usosMax |-> usosMax, usosCount |-> 0]
<1>1. k \in Coupon /\ k.criado /\ k.usosCount = 0 /\ c \in CouponIds
  BY DEF Coupon, CouponIds
<1>2. ~coupons[c].criado /\ coupons' = [coupons EXCEPT ![c] = k]
      /\ UNCHANGED <<registered, codigo, indicadoPor, referrals, redemptions, given, task, failures,
                     caught, accounts>>
  BY DEF CreateCoupon
<1> HIDE DEF k
<1>3. coupons[c].usosCount = 0
  BY <1>1, <1>2 DEF RegistrationInv, UncreatedOK
<1> QED
  BY <1>1, <1>2, <1>3, CouponStep

LEMMA ToggleCouponKeeps ==
  ASSUME RegistrationInv, NEW c \in CouponIds, ToggleCoupon(c), UNCHANGED accounts
  PROVE  RegistrationInv'
<1> DEFINE k == [coupons[c] EXCEPT !.ativo = ~coupons[c].ativo]
<1>1. coupons[c] \in Coupon /\ coupons[c].criado /\ coupons \in [CouponIds -> Coupon]
  BY DEF RegistrationInv, TypeOK, PromotionsTypeOK, ToggleCoupon
<1>2. k \in Coupon /\ k.criado /\ k.usosCount = coupons[c].usosCount
  BY <1>1 DEF Coupon
<1>3. coupons' = [coupons EXCEPT ![c] = k]
  BY <1>1 DEF ToggleCoupon
<1>4. UNCHANGED <<registered, codigo, indicadoPor, referrals, redemptions, given, task, failures,
                  caught, accounts>>
  BY DEF ToggleCoupon
<1> HIDE DEF k
<1> QED
  BY <1>2, <1>3, <1>4, CouponStep

LEMMA RedeemKeeps ==
  ASSUME RegistrationInv, NEW w \in Workers, NEW u \in Users, NEW c \in CouponIds, Redeem(w, u, c),
         UNCHANGED accounts
  PROVE  RegistrationInv'
<1> DEFINE k == [Idle EXCEPT !.step = "jaUsado", !.user = u, !.coupon = c]
<1>1. k \in Task /\ k.step = "jaUsado" /\ k.user = u /\ k.coupon = c
  BY IdleTask DEF Idle, Task, Steps
<1>2. /\ task' = [task EXCEPT ![w] = k] /\ Free(w) /\ coupons[c].criado
      /\ UNCHANGED <<registered, promotions, verified, perfil, slug, empresas, onboarding>>
      /\ TypeOK /\ failures' = failures /\ failures' \in Nat /\ caught' \in Nat /\ coupons' = coupons
  BY DEF Redeem, RegistrationInv, accounts, TypeOK, PromotionsTypeOK, promotions
<1> HIDE DEF k
<1>3. task' \in [Workers -> Task] /\ OthersWait(w) /\ task'[w] = k
  BY <1>1, <1>2, Moves
<1>4. TaskOK(task[w])'
  BY <1>1, <1>2, <1>3 DEF TaskOK, Coupled, Welcoming, ReferralSteps
<1>5. task[w].step = "idle" /\ task'[w].step = "jaUsado"
  BY <1>1, <1>2, <1>3, IdleTask DEF Free
<1> QED
  BY <1>2, <1>3, <1>4, <1>5, OwnStep DEF At, Welcoming, ReferralSteps

LEMMA HasRedeemedKeeps ==
  ASSUME RegistrationInv, NEW w \in Workers, HasRedeemed(w), UNCHANGED accounts
  PROVE  RegistrationInv'
<1>1. /\ At(w, "jaUsado") /\ TaskOK(task[w]) /\ TypeOK
      /\ UNCHANGED <<registered, promotions, verified, perfil, slug, empresas, onboarding>>
      /\ failures' = failures /\ failures' \in Nat /\ caught' \in Nat /\ coupons' = coupons
  BY DEF HasRedeemed, RegistrationInv, accounts, TypeOK, PromotionsTypeOK, promotions
<1>2. /\ task' \in [Workers -> Task] /\ OthersWait(w) /\ TaskOK(task[w])'
      /\ task'[w].step \in {"idle", "redeem"}
  <2>1. CASE Finish(w)
    BY <1>1, <2>1, Ends
  <2>2. CASE Goto(w, "redeem")
    <3>1. /\ task' \in [Workers -> Task] /\ OthersWait(w) /\ task'[w].step = "redeem"
          /\ task'[w].user = task[w].user /\ task'[w].coupon = task[w].coupon
      BY <1>1, <2>2, MovesTo DEF Steps
    <3> QED
      BY <1>1, <3>1 DEF At, TaskOK, Coupled, Welcoming, ReferralSteps
  <2> QED
    BY <2>1, <2>2 DEF HasRedeemed
<1> QED
  BY <1>1, <1>2, OwnStep DEF At, Welcoming, ReferralSteps

\* The handler that inserted the redemption is the one that counts it.
LEMMA InsertRedemptionKeeps ==
  ASSUME RegistrationInv, NEW w \in Workers, InsertRedemption(w), UNCHANGED accounts
  PROVE  RegistrationInv'
<1> DEFINE c == task[w].coupon
           u == task[w].user
           r == <<c, u>>
<1>1. /\ At(w, "redeem") /\ TaskOK(task[w]) /\ TypeOK
      /\ redemptions' = redemptions \cup {r}
      /\ UNCHANGED <<registered, codigo, indicadoPor, referrals, coupons, given, failures, caught,
                     verified, perfil, slug, empresas, onboarding>>
  BY DEF InsertRedemption, RegistrationInv, accounts
<1>2. c \in CouponIds /\ u \in Users /\ coupons[c].criado
  BY <1>1 DEF At, TaskOK, Coupled
<1>3. Grows
  BY <1>1 DEF Grows
<1>4. CASE r \in redemptions
  <2>1. Finish(w) /\ UNCHANGED redemptions
    BY <1>1, <1>4 DEF InsertRedemption
  <2>2. /\ UNCHANGED <<registered, promotions, verified, perfil, slug, empresas, onboarding>>
        /\ failures' = failures /\ failures' \in Nat /\ caught' \in Nat
    BY <1>1, <2>1 DEF promotions, TypeOK, PromotionsTypeOK
  <2> QED
    BY <1>1, <2>1, <2>2, Ends, OwnStep DEF At, Welcoming, ReferralSteps
<1>5. CASE r \notin redemptions
  <2>1. /\ task' \in [Workers -> Task] /\ OthersWait(w) /\ task'[w].step = "countUse"
        /\ task'[w].user = u /\ task'[w].coupon = c
    <3>1. Goto(w, "countUse")
      BY <1>5 DEF InsertRedemption
    <3> QED
      BY <1>1, <3>1, MovesTo DEF Steps
  <2>2. TaskOK(task[w])'
    BY <1>1, <1>2, <2>1 DEF TaskOK, Coupled, Welcoming, ReferralSteps
  <2>3. TypeOK'
    BY <1>1, <1>2, <2>1 DEF TypeOK, PromotionsTypeOK
  <2>4. \A v \in Workers : TaskOK(task[v])'
    BY <1>3, <2>1, <2>2, TaskStays DEF OthersWait
  <2>5. GivenOK'
    BY <1>1, <1>3, GivenSame
  <2>6. \A d \in CouponIds \ {c} : RedemptionsOf(d)' = RedemptionsOf(d) /\ Counting(d)' = Counting(d)
    BY <1>1, <2>1 DEF RedemptionsOf, Counting, At, OthersWait
  <2>7. UncreatedOK'
    BY <1>1, <1>2, <2>6 DEF RegistrationInv, UncreatedOK
  <2>8. UsesAreCounted'
    <3> SUFFICES ASSUME failures' = 0, NEW d \in CouponIds
                 PROVE  coupons'[d].usosCount + Cardinality(Counting(d)') = Cardinality(RedemptionsOf(d)')
      BY UsesCounted
    <3>1. coupons[d].usosCount + Cardinality(Counting(d)) = Cardinality(RedemptionsOf(d))
      BY <1>1, UsesCounted DEF RegistrationInv
    <3>2. CASE d = c
      <4>1. RedemptionsOf(d)' = RedemptionsOf(d) \cup {r} /\ r \notin RedemptionsOf(d)
        BY <1>1, <1>5, <3>2 DEF RedemptionsOf
      <4>2. Counting(d)' = Counting(d) \cup {w} /\ w \notin Counting(d)
        BY <1>1, <2>1, <3>2 DEF Counting, At, OthersWait
      <4>3. Cardinality(RedemptionsOf(d)') = Cardinality(RedemptionsOf(d)) + 1
        BY <1>1, <4>1, RedemptionsFinite, FS_AddElement
      <4>4. Cardinality(Counting(d)') = Cardinality(Counting(d)) + 1
        BY <4>2, CountingFinite, FS_AddElement
      <4>5. coupons[c].usosCount \in Nat
        BY <1>1, <1>2 DEF TypeOK, PromotionsTypeOK, Coupon
      <4> QED
        BY <1>1, <3>1, <3>2, <4>3, <4>4, <4>5, CountingFinite, RedemptionsFinite
    <3>3. CASE d # c
      BY <1>1, <2>6, <3>1, <3>3
    <3> QED
      BY <3>2, <3>3
  <2>9. BonusOK'
    BY <1>1, <1>3, <2>1, BonusSame DEF At, Welcoming, ReferralSteps
  <2> QED
    BY <2>3, <2>4, <2>5, <2>7, <2>8, <2>9 DEF RegistrationInv
<1> QED
  BY <1>4, <1>5

LEMMA CountUseKeeps ==
  ASSUME RegistrationInv, NEW w \in Workers, CountUse(w), UNCHANGED accounts
  PROVE  RegistrationInv'
<1> DEFINE c == task[w].coupon
           k == [coupons[c] EXCEPT !.usosCount = coupons[c].usosCount + 1]
<1>1. /\ At(w, "countUse") /\ TaskOK(task[w]) /\ TypeOK /\ Finish(w)
      /\ coupons' = [coupons EXCEPT ![c].usosCount = @ + 1]
      /\ UNCHANGED <<registered, codigo, indicadoPor, referrals, redemptions, given, failures, caught,
                     verified, perfil, slug, empresas, onboarding>>
  BY DEF CountUse, RegistrationInv, accounts
<1>2. c \in CouponIds /\ coupons[c].criado /\ coupons[c] \in Coupon /\ coupons[c].usosCount \in Nat
  BY <1>1 DEF At, TaskOK, Coupled, TypeOK, PromotionsTypeOK, Coupon
<1>3. k \in Coupon /\ k.criado /\ k.usosCount = coupons[c].usosCount + 1
  BY <1>2 DEF Coupon
<1>4. /\ coupons' \in [CouponIds -> Coupon] /\ coupons'[c] = k
      /\ \A d \in CouponIds \ {c} : coupons'[d] = coupons[d]
  BY <1>1, <1>2, <1>3 DEF TypeOK, PromotionsTypeOK
<1> HIDE DEF k
<1>5. Grows
  BY <1>1, <1>3, <1>4 DEF Grows
<1>6. /\ task' \in [Workers -> Task] /\ OthersWait(w) /\ task'[w].step = "idle" /\ TaskOK(task[w])'
  BY <1>1, Ends
<1>7. TypeOK'
  BY <1>1, <1>4, <1>6 DEF TypeOK, PromotionsTypeOK
<1>8. \A v \in Workers : TaskOK(task[v])'
  BY <1>5, <1>6, TaskStays DEF OthersWait
<1>9. GivenOK'
  BY <1>1, <1>5, GivenSame
<1>10. UncreatedOK'
  BY <1>1, <1>2, <1>3, <1>4 DEF RegistrationInv, UncreatedOK, RedemptionsOf
<1>11. UsesAreCounted'
  <2> SUFFICES ASSUME failures' = 0, NEW d \in CouponIds
               PROVE  coupons'[d].usosCount + Cardinality(Counting(d)') = Cardinality(RedemptionsOf(d)')
    BY UsesCounted
  <2>1. coupons[d].usosCount + Cardinality(Counting(d)) = Cardinality(RedemptionsOf(d))
    BY <1>1, UsesCounted DEF RegistrationInv
  <2>2. RedemptionsOf(d)' = RedemptionsOf(d)
    BY <1>1 DEF RedemptionsOf
  <2>3. CASE d = c
    <3>1. Counting(d)' = Counting(d) \ {w} /\ w \in Counting(d)
      BY <1>1, <1>6, <2>3 DEF Counting, At, OthersWait
    <3>2. Cardinality(Counting(d)') = Cardinality(Counting(d)) - 1
      BY <3>1, CountingFinite, FS_RemoveElement
    <3> QED
      BY <1>2, <1>3, <1>4, <2>1, <2>2, <2>3, <3>2, CountingFinite
  <2>4. CASE d # c
    <3>1. Counting(d)' = Counting(d)
      BY <1>6, <2>4 DEF Counting, At, OthersWait
    <3> QED
      BY <1>4, <2>1, <2>2, <2>4, <3>1
  <2> QED
    BY <2>3, <2>4
<1>12. BonusOK'
  BY <1>1, <1>5, <1>6, BonusSame DEF At, Welcoming, ReferralSteps
<1> QED
  BY <1>7, <1>8, <1>9, <1>10, <1>11, <1>12 DEF RegistrationInv

--------------------------------------------------------------------------------
(* processReferral *)

LEMMA FindOwnerKeeps ==
  ASSUME RegistrationInv, NEW w \in Workers, FindOwner(w), UNCHANGED accounts
  PROVE  RegistrationInv'
<1>1. /\ At(w, "owner") /\ TaskOK(task[w]) /\ TypeOK /\ task[w] \in Task
      /\ UNCHANGED <<registered, promotions, verified, perfil, slug, empresas, onboarding>>
      /\ failures' = failures /\ failures' \in Nat /\ caught' \in Nat
  BY DEF FindOwner, RegistrationInv, accounts, TypeOK, PromotionsTypeOK, promotions
<1>2. task[w].user \in Users /\ task[w].user \in perfil
  BY <1>1 DEF At, TaskOK, Welcoming, ReferralSteps
<1>3. /\ task' \in [Workers -> Task] /\ OthersWait(w) /\ TaskOK(task[w])'
      /\ task'[w].step \in {"rewards", "onboarding"} /\ task'[w].user = task[w].user
  <2>1. CASE Goto(w, "onboarding")
    <3>1. /\ task' \in [Workers -> Task] /\ OthersWait(w) /\ task'[w].step = "onboarding"
          /\ task'[w].user = task[w].user
      BY <1>1, <2>1, MovesTo DEF Steps
    <3> QED
      BY <1>1, <1>2, <3>1 DEF TaskOK, Coupled, Welcoming, ReferralSteps
  <2>2. ASSUME NEW o \in OwnerOf(task[w].code) \ {task[w].user},
               task' = [task EXCEPT ![w].step = "rewards", ![w].owner = o]
        PROVE  /\ task' \in [Workers -> Task] /\ OthersWait(w) /\ TaskOK(task[w])'
               /\ task'[w].step = "rewards" /\ task'[w].user = task[w].user
    <3> DEFINE k == [task[w] EXCEPT !.step = "rewards", !.owner = o]
    <3>1. o \in Users
      BY <1>1 DEF OwnerOf, TypeOK, PromotionsTypeOK
    <3>2. k \in Task /\ k.step = "rewards" /\ k.user = task[w].user /\ k.owner = o
      BY <1>1, <3>1 DEF Task, Steps
    <3>3. task' = [task EXCEPT ![w] = k]
      BY <1>1, <2>2
    <3> HIDE DEF k
    <3>4. task' \in [Workers -> Task] /\ OthersWait(w) /\ task'[w] = k
      BY <1>1, <3>2, <3>3, Moves
    <3>5. TaskOK(task[w])'
      BY <1>1, <1>2, <3>1, <3>2, <3>4 DEF TaskOK, Coupled, Welcoming, ReferralSteps
    <3> QED
      BY <3>2, <3>4, <3>5
  <2> QED
    BY <2>1, <2>2 DEF FindOwner
<1> QED
  BY <1>1, <1>3, OwnStep DEF At, Welcoming, ReferralSteps

LEMMA IssueRewardsKeeps ==
  ASSUME RegistrationInv, NEW w \in Workers, IssueRewards(w), UNCHANGED accounts
  PROVE  RegistrationInv'
<1> DEFINE new == [criado |-> TRUE, ativo |-> TRUE, usosMax |-> 1, usosCount |-> 0]
<1>1. /\ At(w, "rewards") /\ TaskOK(task[w]) /\ TypeOK
      /\ UNCHANGED <<registered, codigo, indicadoPor, referrals, redemptions, given, failures,
                     caught, verified, perfil, slug, empresas, onboarding>>
  BY DEF IssueRewards, RegistrationInv, accounts
<1>2. PICK c \in RewardKind \X {task[w].user} :
        /\ ~coupons[c].criado /\ coupons' = [coupons EXCEPT ![c] = new]
        /\ Goto(w, "referral") \/ Goto(w, "rewards")
  BY DEF IssueRewards
<1>3. task[w].user \in Users /\ task[w].user \in perfil /\ task[w].owner \in Users
  BY <1>1 DEF At, TaskOK, Welcoming, ReferralSteps
<1>4. c \in CouponIds /\ new \in Coupon /\ new.criado /\ new.usosCount = 0
  BY <1>2, <1>3 DEF CouponIds, Coupon
<1> HIDE DEF new
<1>5. /\ coupons' \in [CouponIds -> Coupon] /\ coupons'[c] = new
      /\ \A d \in CouponIds \ {c} : coupons'[d] = coupons[d]
  BY <1>1, <1>2, <1>4 DEF TypeOK, PromotionsTypeOK
<1>6. coupons[c].usosCount = 0
  BY <1>2, <1>4 DEF RegistrationInv, UncreatedOK
<1>7. Grows
  BY <1>1, <1>4, <1>5 DEF Grows
<1>8. /\ task' \in [Workers -> Task] /\ OthersWait(w) /\ task'[w].step \in {"referral", "rewards"}
      /\ task'[w].user = task[w].user /\ task'[w].owner = task[w].owner
  BY <1>1, <1>2, MovesTo DEF Steps
<1>9. TaskOK(task[w])'
  BY <1>1, <1>3, <1>8 DEF TaskOK, Coupled, Welcoming, ReferralSteps
<1>10. TypeOK'
  BY <1>1, <1>5, <1>8 DEF TypeOK, PromotionsTypeOK
<1>11. \A v \in Workers : TaskOK(task[v])'
  BY <1>7, <1>8, <1>9, TaskStays DEF OthersWait
<1>12. GivenOK'
  BY <1>1, <1>7, GivenSame
<1>13. UncreatedOK'
  BY <1>1, <1>4, <1>5 DEF RegistrationInv, UncreatedOK, RedemptionsOf
<1>14. UsesAreCounted'
  <2>1. \A d \in CouponIds : coupons'[d].usosCount = coupons[d].usosCount
    BY <1>4, <1>5, <1>6
  <2> QED
    BY <1>1, <1>8, <2>1, CountSame DEF At
<1>15. BonusOK'
  BY <1>1, <1>7, <1>8, BonusSame DEF At, Welcoming, ReferralSteps
<1> QED
  BY <1>10, <1>11, <1>12, <1>13, <1>14, <1>15 DEF RegistrationInv

LEMMA CreateReferralKeeps ==
  ASSUME RegistrationInv, NEW w \in Workers, CreateReferral(w), UNCHANGED accounts
  PROVE  RegistrationInv'
<1>1. /\ At(w, "referral") /\ TaskOK(task[w]) /\ TypeOK /\ Goto(w, "setIndicadoPor")
      /\ referrals' = referrals \cup {<<task[w].owner, task[w].user>>}
      /\ UNCHANGED <<registered, codigo, indicadoPor, coupons, redemptions, given, failures,
                     caught, verified, perfil, slug, empresas, onboarding>>
  BY DEF CreateReferral, RegistrationInv, accounts
<1>2. task[w].user \in Users /\ task[w].user \in perfil /\ task[w].owner \in Users
  BY <1>1 DEF At, TaskOK, Welcoming, ReferralSteps
<1>3. /\ task' \in [Workers -> Task] /\ OthersWait(w) /\ task'[w].step = "setIndicadoPor"
      /\ task'[w].user = task[w].user /\ task'[w].owner = task[w].owner
  BY <1>1, MovesTo DEF Steps
<1>4. TaskOK(task[w])'
  BY <1>1, <1>2, <1>3 DEF TaskOK, Coupled, Welcoming, ReferralSteps
<1>5. Grows
  BY <1>1 DEF Grows
<1>6. TypeOK'
  BY <1>1, <1>2, <1>3 DEF TypeOK, PromotionsTypeOK
<1>7. GivenOK'
  BY <1>1, <1>5, GivenSame
<1> QED
  BY <1>1, <1>3, <1>4, <1>5, <1>6, <1>7, WorkerStep DEF At, Welcoming, ReferralSteps

LEMMA SetIndicadoPorKeeps ==
  ASSUME RegistrationInv, NEW w \in Workers, SetIndicadoPor(w), UNCHANGED accounts
  PROVE  RegistrationInv'
<1>1. /\ At(w, "setIndicadoPor") /\ TaskOK(task[w]) /\ TypeOK /\ Goto(w, "onboarding")
      /\ indicadoPor' = [indicadoPor EXCEPT ![task[w].user] = task[w].owner]
      /\ UNCHANGED <<registered, codigo, referrals, coupons, redemptions, given, failures,
                     caught, verified, perfil, slug, empresas, onboarding>>
  BY DEF SetIndicadoPor, RegistrationInv, accounts
<1>2. task[w].user \in Users /\ task[w].user \in perfil /\ task[w].owner \in Users
  BY <1>1 DEF At, TaskOK, Welcoming, ReferralSteps
<1>3. /\ task' \in [Workers -> Task] /\ OthersWait(w) /\ task'[w].step = "onboarding"
      /\ task'[w].user = task[w].user
  BY <1>1, MovesTo DEF Steps
<1>4. TaskOK(task[w])'
  BY <1>1, <1>2, <1>3 DEF TaskOK, Coupled, Welcoming, ReferralSteps
<1>5. Grows
  BY <1>1 DEF Grows
<1>6. TypeOK'
  BY <1>1, <1>2, <1>3 DEF TypeOK, PromotionsTypeOK
<1>7. GivenOK'
  BY <1>1, <1>5, GivenSame
<1> QED
  BY <1>1, <1>3, <1>4, <1>5, <1>6, <1>7, WorkerStep DEF At, Welcoming, ReferralSteps

LEMMA CatchReferralKeeps ==
  ASSUME RegistrationInv, NEW w \in Workers, CatchReferral(w), UNCHANGED accounts
  PROVE  RegistrationInv'
<1>1. /\ task[w].step \in ReferralSteps /\ TaskOK(task[w]) /\ TypeOK /\ Goto(w, "onboarding")
      /\ UNCHANGED <<registered, promotions, verified, perfil, slug, empresas, onboarding>>
      /\ failures' = failures /\ failures' \in Nat /\ caught' \in Nat
  BY DEF CatchReferral, RegistrationInv, accounts, TypeOK, PromotionsTypeOK
<1>2. task[w].user \in Users /\ task[w].user \in perfil
  BY <1>1 DEF TaskOK, Welcoming, ReferralSteps
<1>3. /\ task' \in [Workers -> Task] /\ OthersWait(w) /\ task'[w].step = "onboarding"
      /\ task'[w].user = task[w].user
  BY <1>1, MovesTo DEF Steps
<1>4. TaskOK(task[w])'
  BY <1>1, <1>2, <1>3 DEF TaskOK, Coupled, Welcoming, ReferralSteps
<1>5. /\ ~At(w, "countUse") /\ task'[w].step # "countUse" /\ task'[w].step \in Welcoming
  BY <1>1, <1>3 DEF At, Welcoming, ReferralSteps
<1>6. failures' = 0 => failures = 0
  BY <1>1
<1> QED
  BY <1>1, <1>3, <1>4, <1>5, <1>6, OwnStep

LEMMA PromotionsStepKeeps ==
  ASSUME RegistrationInv, NEW w \in Workers, PromotionsStep(w), UNCHANGED accounts
  PROVE  RegistrationInv'
BY DrawCodeKeeps, SaveCodeKeeps, ReadCodeKeeps, HasRedeemedKeeps, InsertRedemptionKeeps, CountUseKeeps,
   FindOwnerKeeps, IssueRewardsKeeps, CreateReferralKeeps, SetIndicadoPorKeeps, CatchReferralKeeps
   DEF PromotionsStep

--------------------------------------------------------------------------------
(* Registration *)

\* A registration begins with the row to insert.
LEMMA RegistrationBegins ==
  ASSUME TypeOK, NEW w \in Workers, NEW k \in Task, k.step = "insert", k.user \in Users,
         task' = [task EXCEPT ![w] = k]
  PROVE  /\ task' \in [Workers -> Task] /\ OthersWait(w) /\ TaskOK(task[w])'
         /\ task'[w].step = "insert"
<1>1. task' \in [Workers -> Task] /\ OthersWait(w) /\ task'[w] = k
  BY Moves
<1> QED
  BY <1>1 DEF TaskOK, Coupled, Welcoming, ReferralSteps

LEMMA VerifyOtpKeeps ==
  ASSUME RegistrationInv, NEW u \in Users, VerifyOtp(u)
  PROVE  RegistrationInv'
<1>1. /\ verified' = verified \cup {u} /\ TypeOK
      /\ UNCHANGED <<registered, codigo, indicadoPor, referrals, coupons, redemptions, given, task,
                     failures, caught, perfil, slug, empresas, onboarding>>
  BY DEF VerifyOtp, promotions, RegistrationInv
<1>2. TypeOK'
  BY <1>1 DEF TypeOK, PromotionsTypeOK
<1>3. Grows
  BY <1>1 DEF Grows
<1>4. \A w \in Workers : TaskOK(task[w])'
  BY <1>1, <1>3, TaskStays
<1>5. GivenOK' /\ UncreatedOK' /\ BonusOK'
  BY <1>1 DEF RegistrationInv, GivenOK, UncreatedOK, RedemptionsOf, BonusOK
<1>6. UsesAreCounted'
  BY <1>1 DEF RegistrationInv, UsesAreCounted, At
<1> QED
  BY <1>2, <1>4, <1>5, <1>6 DEF RegistrationInv

LEMMA RegisterKeeps ==
  ASSUME RegistrationInv, NEW w \in Workers, NEW u \in Users, Register(w, u)
  PROVE  RegistrationInv'
<1> DEFINE k == [Idle EXCEPT !.step = "insert", !.user = u]
<1>1. k \in Task /\ k.step = "insert" /\ k.user = u
  BY IdleTask DEF Idle, Task, Steps
<1>2. /\ TypeOK /\ task[w].step = "idle" /\ verified' \subseteq verified
      /\ UNCHANGED <<registered, promotions, perfil, slug, empresas, onboarding>>
      /\ failures' = failures /\ failures' \in Nat /\ caught' \in Nat
  BY IdleTask DEF Register, Free, RegistrationInv, TypeOK, PromotionsTypeOK
<1>3. task' = task \/ task' = [task EXCEPT ![w] = k]
  BY DEF Register
<1> HIDE DEF k
<1>4. /\ task' \in [Workers -> Task] /\ OthersWait(w) /\ TaskOK(task[w])'
      /\ task'[w].step \in {"idle", "insert"}
  <2>1. CASE task' = task
    <3>1. Grows
      BY <1>2 DEF Grows, promotions
    <3>2. TaskOK(task[w])'
      BY <2>1, <3>1, TaskStays
    <3> QED
      BY <1>2, <2>1, <3>2 DEF OthersWait, TypeOK, PromotionsTypeOK
  <2>2. CASE task' = [task EXCEPT ![w] = k]
    BY <1>1, <1>2, <2>2, RegistrationBegins
  <2> QED
    BY <1>3, <2>1, <2>2
<1> QED
  BY <1>2, <1>4, OwnStep DEF At, Welcoming, ReferralSteps

LEMMA RegisterWithPasswordKeeps ==
  ASSUME RegistrationInv, NEW w \in Workers, NEW u \in Users,
         NEW tipo \in {"PROFISSIONAL", "EMPRESA"}, NEW code \in Codes \cup {NoCode},
         RegisterWithPassword(w, u, tipo, code)
  PROVE  RegistrationInv'
<1> DEFINE k == [Idle EXCEPT !.step = "insert", !.user = u, !.tipo = tipo, !.code = code]
<1>1. k \in Task /\ k.step = "insert" /\ k.user = u
  BY IdleTask DEF Idle, Task, Steps
<1>2. /\ TypeOK /\ task[w].step = "idle" /\ verified' = verified
      /\ UNCHANGED <<registered, promotions, perfil, slug, empresas, onboarding>>
      /\ failures' = failures /\ failures' \in Nat /\ caught' \in Nat
  BY IdleTask DEF RegisterWithPassword, Free, RegistrationInv, TypeOK, PromotionsTypeOK, accounts
<1>3. task' = [task EXCEPT ![w] = k]
  BY DEF RegisterWithPassword
<1> HIDE DEF k
<1>4. /\ task' \in [Workers -> Task] /\ OthersWait(w) /\ TaskOK(task[w])'
      /\ task'[w].step = "insert"
  BY <1>1, <1>2, <1>3, RegistrationBegins
<1> QED
  BY <1>2, <1>4, OwnStep DEF At, Welcoming, ReferralSteps

LEMMA InsertUserKeeps ==
  ASSUME RegistrationInv, NEW w \in Workers, InsertUser(w)
  PROVE  RegistrationInv'
<1> DEFINE u == task[w].user
           k == [task[w] EXCEPT !.step = IF task[w].tipo = "EMPRESA" THEN "profile" ELSE "slug",
                                !.n = IF task[w].tipo = "EMPRESA" THEN 0 ELSE 1]
<1>1. /\ At(w, "insert") /\ TaskOK(task[w]) /\ TypeOK /\ task[w] \in Task
      /\ UNCHANGED <<promotions, failures, caught, verified, perfil, slug, onboarding>>
      /\ failures' \in Nat /\ caught' \in Nat
  BY DEF InsertUser, RegistrationInv, TypeOK, PromotionsTypeOK
<1>2. u \in Users
  BY <1>1 DEF At, TaskOK
<1>3. CASE u \in registered
  <2>1. Finish(w) /\ UNCHANGED <<registered, empresas>>
    BY <1>3 DEF InsertUser
  <2> QED
    BY <1>1, <2>1, Ends, OwnStep DEF At, Welcoming, ReferralSteps
<1>4. CASE u \notin registered
  <2>1. /\ registered' = registered \cup {u} /\ task' = [task EXCEPT ![w] = k]
        /\ empresas' = IF task[w].tipo = "EMPRESA" THEN empresas \cup {u} ELSE empresas
    BY <1>1, <1>4 DEF InsertUser
  <2>2. /\ k \in Task /\ k.step \in {"profile", "slug"} /\ k.user = u /\ k.tipo = task[w].tipo
    BY <1>1 DEF Task, Steps
  <2> HIDE DEF k
  <2>3. task' \in [Workers -> Task] /\ OthersWait(w) /\ task'[w] = k
    BY <1>1, <2>1, <2>2, Moves
  <2>4. TaskOK(task[w])'
    BY <1>2, <2>1, <2>2, <2>3 DEF TaskOK, Coupled, Welcoming, ReferralSteps
  <2>5. UNCHANGED <<codigo, indicadoPor, referrals, coupons, redemptions, given>>
    BY <1>1 DEF promotions
  <2>6. Grows
    BY <1>1, <2>1, <2>5 DEF Grows
  <2>7. TypeOK'
    BY <1>1, <1>2, <2>1, <2>3, <2>5 DEF TypeOK, PromotionsTypeOK
  <2>8. GivenOK'
    BY <2>5, <2>6, GivenSame
  <2>9. task'[w].step \in {"profile", "slug"}
    BY <2>2, <2>3
  <2> QED
    BY <1>1, <2>3, <2>4, <2>5, <2>6, <2>7, <2>8, <2>9, WorkerStep DEF At, Welcoming, ReferralSteps
<1> QED
  BY <1>3, <1>4

LEMMA FindSlugKeeps ==
  ASSUME RegistrationInv, NEW w \in Workers, FindSlug(w)
  PROVE  RegistrationInv'
<1>1. /\ task[w].step \in {"slug", "companySlug"} /\ TaskOK(task[w]) /\ TypeOK /\ task[w] \in Task
      /\ UNCHANGED <<registered, promotions, failures, caught, verified, perfil, slug, empresas,
                     onboarding>>
      /\ failures' \in Nat /\ caught' \in Nat
  BY DEF FindSlug, RegistrationInv, TypeOK, PromotionsTypeOK, accounts
<1>2. /\ task' \in [Workers -> Task] /\ OthersWait(w) /\ TaskOK(task[w])'
      /\ task'[w].step \in {"slug", "companySlug", "profile", "companyInfo"}
  <2>1. CASE slugExists(task[w].n, task[w].tipo)
    <3> DEFINE k == [task[w] EXCEPT !.n = task[w].n + 1]
    <3>1. /\ k \in Task /\ k.step = task[w].step /\ k.user = task[w].user /\ k.tipo = task[w].tipo
      BY <1>1 DEF Task
    <3>2. task' = [task EXCEPT ![w] = k]
      BY <1>1, <2>1 DEF FindSlug
    <3> HIDE DEF k
    <3>3. task' \in [Workers -> Task] /\ OthersWait(w) /\ task'[w] = k
      BY <1>1, <3>1, <3>2, Moves
    <3> QED
      BY <1>1, <3>1, <3>3 DEF TaskOK, Coupled, Welcoming, ReferralSteps
  <2>2. CASE ~slugExists(task[w].n, task[w].tipo)
    <3> DEFINE step == IF At(w, "slug") THEN "profile" ELSE "companyInfo"
    <3>1. Goto(w, step) /\ step \in Steps
      BY <2>2 DEF FindSlug, Steps
    <3>2. /\ task' \in [Workers -> Task] /\ OthersWait(w) /\ task'[w].step = step
          /\ task'[w].user = task[w].user /\ task'[w].tipo = task[w].tipo
      <4> HIDE DEF step
      <4> QED
        BY <1>1, <3>1, MovesTo
    <3>3. CASE At(w, "slug")
      BY <1>1, <3>2, <3>3 DEF At, TaskOK, Coupled, Welcoming, ReferralSteps
    <3>4. CASE ~At(w, "slug")
      BY <1>1, <3>2, <3>4 DEF At, TaskOK, Coupled, Welcoming, ReferralSteps
    <3> QED
      BY <3>3, <3>4
  <2> QED
    BY <2>1, <2>2
<1> QED
  BY <1>1, <1>2, OwnStep DEF At, Welcoming, ReferralSteps

\* A professional's profile is followed by the referral or the welcome; who is left
\* without either is a company.
LEMMA CreateProfileKeeps ==
  ASSUME RegistrationInv, NEW w \in Workers, CreateProfile(w)
  PROVE  RegistrationInv'
<1> DEFINE u == task[w].user
<1>1. /\ At(w, "profile") /\ TaskOK(task[w]) /\ TypeOK /\ task[w] \in Task
      /\ UNCHANGED <<registered, promotions, failures, caught, verified, empresas, onboarding>>
      /\ failures' = failures /\ failures' \in Nat /\ caught' \in Nat
  BY DEF CreateProfile, RegistrationInv, TypeOK, PromotionsTypeOK
<1>2. u \in Users /\ u \in registered /\ (task[w].tipo = "EMPRESA" => u \in empresas)
  BY <1>1 DEF At, TaskOK
<1>3. CASE Finish(w) /\ UNCHANGED <<perfil, slug>>
  BY <1>1, <1>3, Ends, OwnStep DEF At, Welcoming, ReferralSteps
<1>4. CASE /\ perfil' = perfil \cup {u}
           /\ slug' = [slug EXCEPT ![u] = task[w].n]
           /\ task' = IF task[w].tipo = "EMPRESA"
                THEN [task EXCEPT ![w].step = "companySlug", ![w].n = 1]
                ELSE [task EXCEPT ![w].step = AfterProfile(w)]
  <2>1. /\ task' \in [Workers -> Task] /\ OthersWait(w) /\ task'[w].user = u
        /\ \/ task[w].tipo = "EMPRESA" /\ task'[w].step = "companySlug"
           \/ task'[w].step \in {"onboarding", "owner"}
    <3>1. CASE task[w].tipo = "EMPRESA"
      <4> DEFINE k == [task[w] EXCEPT !.step = "companySlug", !.n = 1]
      <4>1. k \in Task /\ k.step = "companySlug" /\ k.user = u
        BY <1>1 DEF Task, Steps
      <4>2. task' = [task EXCEPT ![w] = k]
        BY <1>1, <1>4, <3>1
      <4> HIDE DEF k
      <4>3. task' \in [Workers -> Task] /\ OthersWait(w) /\ task'[w] = k
        BY <1>1, <4>1, <4>2, Moves
      <4> QED
        BY <3>1, <4>1, <4>3
    <3>2. CASE task[w].tipo # "EMPRESA"
      <4>1. Goto(w, AfterProfile(w)) /\ AfterProfile(w) \in {"onboarding", "owner"}
            /\ AfterProfile(w) \in Steps
        BY <1>4, <3>2 DEF Goto, AfterProfile, Steps
      <4> QED
        BY <1>1, <4>1, MovesTo
    <3> QED
      BY <3>1, <3>2
  <2>2. UNCHANGED <<codigo, indicadoPor, referrals, coupons, redemptions, given>>
    BY <1>1 DEF promotions
  <2>3. TaskOK(task[w])'
    <3>1. u \in perfil' /\ u \in registered'
      BY <1>1, <1>2, <1>4
    <3>2. task'[w].step \in {"companySlug", "onboarding", "owner"}
      BY <2>1
    <3> HIDE DEF u
    <3> QED
      BY <1>2, <2>1, <3>1, <3>2 DEF TaskOK, Coupled, Welcoming, ReferralSteps
  <2>4. Grows
    BY <1>1, <1>4, <2>2 DEF Grows
  <2>5. slug' \in [Users -> Nat]
    BY <1>1, <1>2, <1>4 DEF TypeOK, Task
  <2>6. TypeOK'
    BY <1>1, <1>2, <1>4, <2>1, <2>2, <2>5 DEF TypeOK, PromotionsTypeOK
  <2>7. GivenOK'
    BY <2>2, <2>4, GivenSame
  <2>8. \A v \in perfil' \ perfil :
          v \in empresas' \/ (task'[w].user = v /\ task'[w].step \in Welcoming)
    <3>1. u \in empresas' \/ task'[w].step \in Welcoming
      BY <1>1, <1>2, <2>1 DEF Welcoming, ReferralSteps
    <3>2. \A v \in perfil' \ perfil : v = u
      BY <1>4
    <3>3. task'[w].user = u
      BY <2>1
    <3> HIDE DEF u
    <3> QED
      BY <3>1, <3>2, <3>3
  <2>9. task'[w].step # "countUse" /\ ~At(w, "countUse") /\ task[w].step \notin Welcoming
    BY <1>1, <2>1 DEF At, Welcoming, ReferralSteps
  <2> QED
    BY <1>1, <2>1, <2>2, <2>3, <2>4, <2>6, <2>7, <2>8, <2>9, WorkerStep
<1> QED
  BY <1>3, <1>4 DEF CreateProfile

LEMMA SetCompanyInfoKeeps ==
  ASSUME RegistrationInv, NEW w \in Workers, SetCompanyInfo(w)
  PROVE  RegistrationInv'
<1>1. /\ At(w, "companyInfo") /\ TaskOK(task[w]) /\ TypeOK /\ task[w] \in Task
      /\ UNCHANGED <<registered, promotions, failures, caught, verified, perfil, empresas, onboarding>>
      /\ failures' = failures /\ failures' \in Nat /\ caught' \in Nat
  BY DEF SetCompanyInfo, RegistrationInv, TypeOK, PromotionsTypeOK
<1>2. task[w].user \in Users /\ task[w].user \in perfil
  BY <1>1 DEF At, TaskOK
<1>3. /\ task' \in [Workers -> Task] /\ OthersWait(w) /\ TaskOK(task[w])'
      /\ task'[w].step \in {"idle", "onboarding"} /\ slug' \in [Users -> Nat]
  <2>1. CASE Finish(w) /\ UNCHANGED slug
    BY <1>1, <2>1, Ends DEF TypeOK
  <2>2. CASE slug' = [slug EXCEPT ![task[w].user] = task[w].n] /\ Goto(w, "onboarding")
    <3>1. /\ task' \in [Workers -> Task] /\ OthersWait(w) /\ task'[w].step = "onboarding"
          /\ task'[w].user = task[w].user
      BY <1>1, <2>2, MovesTo DEF Steps
    <3>2. TaskOK(task[w])'
      BY <1>1, <1>2, <3>1 DEF TaskOK, Coupled, Welcoming, ReferralSteps
    <3>3. slug' \in [Users -> Nat]
      BY <1>1, <1>2, <2>2 DEF TypeOK, Task
    <3> QED
      BY <3>1, <3>2, <3>3
  <2> QED
    BY <2>1, <2>2 DEF SetCompanyInfo
<1>4. UNCHANGED <<codigo, indicadoPor, referrals, coupons, redemptions, given>>
  BY <1>1 DEF promotions
<1>5. Grows
  BY <1>1, <1>4 DEF Grows
<1>6. TypeOK'
  BY <1>1, <1>3, <1>4 DEF TypeOK, PromotionsTypeOK
<1>7. GivenOK'
  BY <1>4, <1>5, GivenSame
<1> QED
  BY <1>1, <1>3, <1>4, <1>5, <1>6, <1>7, WorkerStep DEF At, Welcoming, ReferralSteps

LEMMA ScheduleOnboardingKeeps ==
  ASSUME RegistrationInv, NEW w \in Workers, ScheduleOnboarding(w)
  PROVE  RegistrationInv'
<1>1. /\ At(w, "onboarding") /\ TaskOK(task[w]) /\ TypeOK /\ Finish(w)
      /\ onboarding' = onboarding \cup {task[w].user}
      /\ UNCHANGED <<registered, promotions, failures, caught, verified, perfil, slug, empresas>>
  BY DEF ScheduleOnboarding, RegistrationInv
<1>2. task[w].user \in perfil
  BY <1>1 DEF At, TaskOK, Welcoming
<1>3. /\ task' \in [Workers -> Task] /\ OthersWait(w) /\ TaskOK(task[w])'
      /\ task'[w].step = "idle"
  BY <1>1, Ends
<1>4. UNCHANGED <<codigo, indicadoPor, referrals, coupons, redemptions, given>>
  BY <1>1 DEF promotions
<1>5. Grows
  BY <1>1, <1>4 DEF Grows
<1>6. TypeOK'
  BY <1>1, <1>2, <1>3, <1>4 DEF TypeOK, PromotionsTypeOK
<1>7. GivenOK'
  BY <1>4, <1>5, GivenSame
<1> QED
  BY <1>1, <1>3, <1>4, <1>5, <1>6, <1>7, WorkerStep DEF At

LEMMA FailureKeeps ==
  ASSUME RegistrationInv, NEW w \in Workers, Failure(w)
  PROVE  RegistrationInv'
<1>1. /\ TypeOK /\ Finish(w) /\ failures' \in Nat /\ failures' # 0 /\ caught' \in Nat
      /\ UNCHANGED <<registered, promotions, verified, perfil, slug, empresas, onboarding>>
  BY DEF Failure, RegistrationInv, TypeOK, PromotionsTypeOK, accounts
<1> QED
  BY <1>1, Ends, OwnStep

--------------------------------------------------------------------------------
(* The invariant *)

LEMMA InitEstablishes == Init => RegistrationInv
<1> SUFFICES ASSUME Init PROVE RegistrationInv
  OBVIOUS
<1>1. TypeOK
  BY IdleTask DEF Init, PromotionsInit, TypeOK, PromotionsTypeOK, Coupon
<1>2. \A w \in Workers : TaskOK(task[w]) /\ task[w].step = "idle"
  BY IdleTask DEF Init, PromotionsInit
<1>3. GivenOK /\ BonusOK
  BY DEF Init, PromotionsInit, GivenOK, BonusOK
<1>4. \A c \in CouponIds : coupons[c].usosCount = 0 /\ RedemptionsOf(c) = {}
  BY DEF Init, PromotionsInit, RedemptionsOf
<1>5. \A c \in CouponIds : Counting(c) = {}
  BY <1>2 DEF Counting, At
<1>6. UncreatedOK /\ UsesAreCounted
  <2>1. \A c \in CouponIds :
          coupons[c].usosCount + Cardinality(Counting(c)) = Cardinality(RedemptionsOf(c))
    BY <1>4, <1>5, FS_EmptySet
  <2> QED
    BY <1>4, <2>1, UsesCounted DEF UncreatedOK
<1> QED
  BY <1>1, <1>2, <1>3, <1>6 DEF RegistrationInv

LEMMA NextKeeps == RegistrationInv /\ [Next]_vars => RegistrationInv'
<1> SUFFICES ASSUME RegistrationInv, [Next]_vars PROVE RegistrationInv'
  OBVIOUS
<1>1. CASE UNCHANGED vars
  <2>1. UNCHANGED <<registered, codigo, indicadoPor, referrals, coupons, redemptions, given, task,
                    failures, caught, verified, perfil, slug, empresas, onboarding>>
    BY <1>1 DEF vars, promotions, accounts
  <2>2. TypeOK'
    BY <2>1 DEF RegistrationInv, TypeOK, PromotionsTypeOK
  <2>3. \A w \in Workers : TaskOK(task[w])'
    <3>1. Grows
      BY <2>1 DEF Grows
    <3> QED
      BY <2>1, <3>1, TaskStays
  <2>4. GivenOK' /\ UncreatedOK'
    BY <2>1 DEF RegistrationInv, GivenOK, UncreatedOK, RedemptionsOf
  <2>5. UsesAreCounted'
    BY <2>1 DEF RegistrationInv, UsesAreCounted, At
  <2>6. BonusOK'
    BY <2>1 DEF RegistrationInv, BonusOK
  <2> QED
    BY <2>2, <2>3, <2>4, <2>5, <2>6 DEF RegistrationInv
<1>2. CASE Next
  <2>1. ASSUME NEW w \in Workers,
               \/ PromotionsStep(w) /\ UNCHANGED accounts
               \/ InsertUser(w) \/ FindSlug(w) \/ CreateProfile(w) \/ SetCompanyInfo(w)
               \/ ScheduleOnboarding(w) \/ Failure(w)
        PROVE  RegistrationInv'
    BY <2>1, PromotionsStepKeeps, InsertUserKeeps, FindSlugKeeps, CreateProfileKeeps,
       SetCompanyInfoKeeps, ScheduleOnboardingKeeps, FailureKeeps
  <2>2. ASSUME NEW w \in Workers, NEW u \in Users,
               \/ AskCode(w, u) /\ UNCHANGED accounts
               \/ Register(w, u)
               \/ \E tipo \in {"PROFISSIONAL", "EMPRESA"}, code \in Codes \cup {NoCode} :
                    RegisterWithPassword(w, u, tipo, code)
               \/ \E c \in CouponIds : Redeem(w, u, c) /\ UNCHANGED accounts
        PROVE  RegistrationInv'
    BY <2>2, AskCodeKeeps, RegisterKeeps, RegisterWithPasswordKeeps, RedeemKeeps
  <2>3. ASSUME \/ \E u \in Users : VerifyOtp(u)
               \/ \E c \in Promos : \E usosMax \in 1 .. 2 :
                    CreateCoupon(c, usosMax) /\ UNCHANGED accounts
               \/ \E c \in CouponIds : ToggleCoupon(c) /\ UNCHANGED accounts
        PROVE  RegistrationInv'
    BY <2>3, VerifyOtpKeeps, CreateCouponKeeps, ToggleCouponKeeps
  <2> QED
    BY <1>2, <2>1, <2>2, <2>3 DEF Next
<1> QED
  BY <1>1, <1>2

\* The invariant holds in every reachable state.
THEOREM RegistrationInvariance == Spec => []RegistrationInv
<1>1. Init => RegistrationInv
  BY InitEstablishes
<1>2. RegistrationInv /\ [Next]_vars => RegistrationInv'
  BY NextKeeps
<1> QED
  BY <1>1, <1>2, PTL DEF Spec

\* Every variable keeps its type: a profile, a company and a welcome are of accounts
\* that are there, and a user is only told codes.
THEOREM RegistrationTypeCorrect == Spec => []TypeOK
<1>1. RegistrationInv => TypeOK
  BY DEF RegistrationInv
<1> QED
  BY <1>1, RegistrationInvariance, PTL

\* getOrCreateReferralCode is idempotent: whoever of the concurrent requests makes the
\* code, a user is only ever told the one that is kept.
THEOREM CodeIsKeptAlways == Spec => []CodeIsKept
<1>1. RegistrationInv => CodeIsKept
  BY DEF RegistrationInv, GivenOK, CodeIsKept
<1> QED
  BY <1>1, RegistrationInvariance, PTL

\* redeemForSubscription: as long as no process dies, what a coupon counts, and what
\* the handlers in progress are going to count, are its redemptions.
THEOREM UsesAreCountedAlways == Spec => []UsesAreCounted
<1>1. RegistrationInv => UsesAreCounted
  BY DEF RegistrationInv
<1> QED
  BY <1>1, RegistrationInvariance, PTL

\* processReferral never costs a professional the welcome, whatever it throws.
THEOREM BonusNeverBlocksAlways == Spec => []BonusNeverBlocks
<1>1. RegistrationInv => BonusNeverBlocks
  <2> SUFFICES ASSUME RegistrationInv, Quiet, failures = 0, NEW u \in perfil \ empresas
               PROVE  u \in onboarding
    BY DEF BonusNeverBlocks
  <2>1. \A w \in Workers : task[w].step = "idle"
    BY IdleTask DEF Quiet, Free
  <2> QED
    BY <2>1 DEF RegistrationInv, BonusOK, Welcoming, ReferralSteps
<1> QED
  BY <1>1, RegistrationInvariance, PTL

================================================================================
