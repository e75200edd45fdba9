------------------------------ MODULE MCSessions ------------------------------
(***************************************************************************)
(* Instances of Sessions for TLC: one person, one browser, two requests.   *)
(***************************************************************************)
EXTENDS Sessions, TLC

CONSTANTS ana, chrome, r1, r2

TwoRequests == {r1, r2}

\* What is explored: requests that overlap while nobody has been suspended; and
\* suspensions with one request at a time.  The last pair is issued when nothing
\* has failed.
NeverSuspended == \A u \in Accounts : closedAt[u] = -1
OneAtATime == \E r \in Requests : \A q \in Requests \ {r} : At(q, "idle")

Scenario ==
  /\ NeverSuspended \/ OneAtATime
  /\ failures = 0 \/ tokens[MaxTokens] = NoToken

SessionsSymmetry == Permutations(Requests)

================================================================================
