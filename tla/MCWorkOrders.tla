------------------------------ MODULE MCWorkOrders ------------------------------
(***************************************************************************)
(* Instances of WorkOrders for TLC: a company with at most one member at a *)
(* time, two bidders, an hour for every urgency, a floor from two bids on, *)
(* one photo.  7 is the floor of two bids of 10, and 4 is below it: one of *)
(* the bidders may ask for that little, while the company has no member.   *)
(***************************************************************************)
EXTENDS WorkOrders, TLC

CONSTANTS acme, pa, pb, nobody, w1, w2

TwoWorkers == {w1, w2}
TwoBidders == {pa, pb}
HighAndLow == {10, 4}

LowBid ==
  \/ proposals[1, pa].valor = 4
  \/ \E w \in Workers : task[w].step = "upsert" /\ task[w].valor = 4

\* The two stories: a team that changes, and a bid below the floor.
Cases ==
  /\ LowBid => members = <<>>
  /\ \A w \in Workers : task[w].step = "upsert" /\ task[w].bidder = pb => task[w].valor = 10

WorkersSymmetry == Permutations(Workers)

================================================================================
