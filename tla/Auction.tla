-------------------------------- MODULE Auction --------------------------------
(***************************************************************************)
(* What the work orders of ObraCerta promise, whatever handlers run at the *)
(* same time and wherever they die: an open order takes bids and is closed *)
(* once, by an award or by its deadline; it is awarded to somebody who bid *)
(* on it, and from then on it never passes to anybody else.                *)
(*                                                                         *)
(* The promise is weaker than one would wish in two places, because a bid  *)
(* that was checked while the order was open may be recorded after it was  *)
(* closed: a closed order may still gain a bid, and a late bid of the      *)
(* winner takes the mark of the award away.                                *)
(***************************************************************************)
CONSTANTS Orders, Parties

VARIABLES
  status,   \* status[o]: none, open, awarded or expired
  bidders,  \* bidders[o]: who has a bid on o
  winners   \* winners[o]: whose bid is the accepted one

auction == <<status, bidders, winners>>

Init ==
  /\ status = [o \in Orders |-> "none"]
  /\ bidders = [o \in Orders |-> {}]
  /\ winners = [o \in Orders |-> {}]

Open(o) ==
  /\ status[o] = "none"
  /\ status' = [status EXCEPT ![o] = "open"]
  /\ UNCHANGED <<bidders, winners>>

Bid(o, b) ==
  /\ status[o] # "none"
  /\ bidders' = [bidders EXCEPT ![o] = @ \cup {b}]
  /\ winners' = [winners EXCEPT ![o] = @ \ {b}]
  /\ UNCHANGED status

Award(o, b) ==
  /\ status[o] = "open"
  /\ b \in bidders[o]
  /\ status' = [status EXCEPT ![o] = "awarded"]
  /\ winners' = [winners EXCEPT ![o] = {b}]
  /\ UNCHANGED bidders

Expire(o) ==
  /\ status[o] = "open"
  /\ status' = [status EXCEPT ![o] = "expired"]
  /\ UNCHANGED <<bidders, winners>>

Next ==
  \E o \in Orders :
    \/ Open(o) \/ Expire(o)
    \/ \E b \in Parties : Bid(o, b) \/ Award(o, b)

Spec == Init /\ [][Next]_auction

================================================================================
