----------------------------- MODULE MCRegistration -----------------------------
(***************************************************************************)
(* Instances of Registration for TLC: two people, two handlers at a time,  *)
(* one coupon of the administration.                                       *)
(***************************************************************************)
EXTENDS Registration, TLC

CONSTANTS ana, beto, nobody, k1, k2, nocode, promo, w1, w2

TwoUsers == {ana, beto}
TwoCodes == {k1, k2}
TwoWorkers == {w1, w2}

\* What is explored: registrations and codes before any coupon is redeemed; and
\* coupons redeemed when everybody is registered, one of them by referral, and no
\* other handler runs.
Redeeming(w) == task[w].step \in {"jaUsado", "redeem", "countUse"}
RewardsAreOn == \A c \in CouponIds \ Promos : coupons[c].ativo = coupons[c].criado
BeforeCoupons ==
  /\ ~coupons[promo].criado /\ redemptions = {} /\ RewardsAreOn
  /\ \A w \in Workers : ~Redeeming(w)
OnlyCoupons ==
  /\ \A w \in Workers : Free(w) \/ Redeeming(w)
  /\ onboarding = Users /\ empresas = {} /\ verified = {} /\ RewardsAreOn
  /\ \A u \in Users : given[u] # {} <=> \E r \in referrals : r[1] = u
  /\ \A r \in redemptions : r[1] \in Promos \/ r[1][1] = "IND"
  /\ referrals # {} /\ failures = 0 /\ caught = 0

Scenario == BeforeCoupons \/ OnlyCoupons

RegistrationSymmetry == Permutations(Users) \cup Permutations(Codes) \cup Permutations(Workers)

================================================================================
