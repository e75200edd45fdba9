-------------------------------- MODULE MCSignUp --------------------------------
(***************************************************************************)
(* Instances of SignUp for TLC: two windows, two handlers of the API at a  *)
(* time, two codes.                                                        *)
(***************************************************************************)
EXTENDS SignUp, TLC

CONSTANTS t1, t2, w1, w2

TwoTabs == {t1, t2}
TwoWorkers == {w1, w2}

SignUpSymmetry == Permutations(Tabs) \cup Permutations(Workers)

OneWindow == \E t \in Tabs : page[t] = Opened("email")
NoFault == failures = 0 /\ ~expired /\ ~signedOut

\* Two of: a second window, a second code, and calls that fail, keys that expire or
\* sessions that end, are left out.
Cases ==
  \/ OneWindow /\ (sent <= 1 \/ NoFault)
  \/ sent <= 1 /\ NoFault

================================================================================
