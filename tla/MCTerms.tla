-------------------------------- MODULE MCTerms --------------------------------
(***************************************************************************)
(* Instances of Terms for TLC: two acceptances, another service's entry,   *)
(* three calls in progress.                                                *)
(***************************************************************************)
EXTENDS Terms, TLC

CONSTANTS a1, a2, other, none, nobody, w1, w2, w3

TwoAceites == {a1, a2}
ThreeEntries == {a1, a2, other}
ThreeWorkers == {w1, w2, w3}

TermsSymmetry == Permutations(TwoAceites) \cup Permutations(Workers)

================================================================================
