----------------------------- MODULE SessionsProofs -----------------------------
(***************************************************************************)
(* Proofs about the sessions, for any number of accounts, browsers,        *)
(* requests and pairs of tokens.                                           *)
(*                                                                         *)
(* Each property needs what a request in progress has already done: one    *)
(* that passed assertActive may still issue a pair, one that read a        *)
(* refresh token may still spend it, one that spent it may still write     *)
(* the cookies.  A pair is known to one browser only.                      *)
(***************************************************************************)
EXTENDS Sessions, FiniteSetTheorems, TLAPS

Steps == {"idle", "get", "del", "find", "issue", "reply", "refused", "revoke", "clear"}
Numbers == 0 .. MaxTokens
Token == [user : Accounts \cup {"none"}, issuedAt : Nat, parent : Numbers]
Cookie == [access : Numbers, refresh : Numbers]
Request ==
  [step : Steps, kind : Kinds, browser : Browsers \cup {"none"}, session : Numbers,
   user : Accounts \cup {"none"}, pair : Numbers, web : BOOLEAN]

Typed ==
  /\ status \in [Accounts -> {"ATIVO", "SUSPENSO"}]
  /\ tokens \in [TokenIds -> Token]
  /\ redis \subseteq TokenIds
  /\ cookies \in [Browsers -> Cookie]
  /\ request \in [Requests -> Request]
  /\ now \in 0 .. MaxTime /\ failures \in 0 .. MaxFailures
  /\ closedAt \in [Accounts -> Int]
  /\ spentBy \in [TokenIds -> Kinds \cup {"none"}]

Issued(t) == tokens[t] # NoToken

\* Pairs are issued one after the other, and only they are in Redis.
TokensOK ==
  /\ \A t \in TokenIds : Issued(t) =>
       tokens[t].user \in Accounts /\ tokens[t].issuedAt <= now /\ tokens[t].parent < t
  /\ \A j, k \in TokenIds : j < k /\ Issued(k) => Issued(j)
  /\ \A t \in redis : Issued(t)

\* What a browser keeps.
CookieOK(c) ==
  /\ c.access # 0 => Issued(c.access)
  /\ c.refresh # 0 => Issued(c.refresh)
  /\ c.access # 0 /\ c.refresh # 0 => c.access = c.refresh

\* What a request in progress may be and carry.
RequestOK(q) ==
  /\ q.step = "idle" <=> q = Idle
  /\ q.step # "idle" => q.browser \in Browsers
  /\ q.step \in {"get", "del"} => q.kind \in {"page", "post"} /\ q.session # 0
  /\ q.step = "refused" => q.kind \in {"page", "post", "login"}
  /\ q.step \in {"find", "issue", "reply"} =>
       q.kind \in {"page", "post", "login"} /\ q.user \in Accounts
  /\ q.step = "revoke" => q.kind = "logout" /\ q.session # 0
  /\ q.step = "clear" => q.kind = "logout"
  /\ q.session # 0 => Issued(q.session)
  /\ q.step = "reply" => q.pair # 0
  /\ q.pair # 0 => q.step = "reply" /\ q.pair \in redis

\* Since an account was closed, only the requests of that instant issue it a pair.
ClosedOK ==
  \A u \in Accounts : status[u] = "SUSPENSO" =>
    /\ closedAt[u] <= now
    /\ \A t \in TokenIds : tokens[t].user = u => tokens[t].issuedAt <= closedAt[u]
    /\ \A r \in Requests : At(r, "issue") /\ request[r].user = u => closedAt[u] = now

\* The pairs that renewed t, and the requests that may still renew it.
Children(t) == {k \in TokenIds : tokens[k] # NoToken /\ tokens[k].parent = t}
Renewing(q) == q.step \in {"del", "find", "issue"}
Holders(t) == {r \in Requests : Renewing(request[r]) /\ request[r].session = t}

\* A key that is still in Redis has renewed nothing.
RotationOK ==
  \A t \in TokenIds :
    /\ t \in redis => Children(t) = {} /\ \A r \in Holders(t) : At(r, "del")
    /\ Cardinality(Children(t)) + Cardinality(Holders(t)) <= Cardinality(Requests)

\* A pair that was not answered yet is known to its request alone, and a refresh
\* token in a cookie to the requests of that browser alone.
Private ==
  /\ \A r \in Requests : At(r, "reply") =>
       /\ \A b \in Browsers : cookies[b].refresh # request[r].pair
       /\ \A q \in Requests : request[q].session # request[r].pair
       /\ \A q \in Requests \ {r} : request[q].pair # request[r].pair
  /\ \A b \in Browsers : cookies[b].refresh # 0 =>
       /\ \A c \in Browsers \ {b} : cookies[c].refresh # cookies[b].refresh
       /\ \A r \in Requests :
            request[r].session = cookies[b].refresh => request[r].browser = b

\* A request that is going to write the cookies of browser b, having spent t.
WillWrite(q, b, t) ==
  /\ q.browser = b /\ q.session = t
  /\ \/ q.kind = "post" /\ q.step \in {"find", "issue", "reply", "refused"}
     \/ q.step = "clear"

KeptOK ==
  failures = 0 =>
    /\ \A r \in Requests : request[r].web
    /\ \A b \in Browsers : LET t == cookies[b].refresh IN
         t = 0 \/ t \in redis \/ spentBy[t] = "page" \/ \E r \in Requests : WillWrite(request[r], b, t)

\* The inductive invariant.
SessionsInv ==
  /\ Typed
  /\ TokensOK
  /\ \A b \in Browsers : CookieOK(cookies[b])
  /\ \A r \in Requests : RequestOK(request[r])
  /\ ClosedOK
  /\ RotationOK
  /\ Private
  /\ KeptOK

--------------------------------------------------------------------------------
(* What a step of one request leaves as it was *)

OthersWait(r) == \A q \in Requests \ {r} : request'[q] = request[q]

LEMMA Moves ==
  ASSUME Typed, NEW r \in Requests, NEW k \in Request, request' = [request EXCEPT ![r] = k]
  PROVE  request' \in [Requests -> Request] /\ OthersWait(r) /\ request'[r] = k
BY DEF Typed, OthersWait

LEMMA MovesTo ==
  ASSUME Typed, NEW r \in Requests, NEW step \in Steps, Goto(r, step)
  PROVE  /\ request' \in [Requests -> Request] /\ OthersWait(r)
         /\ request'[r] = [request[r] EXCEPT !.step = step]
<1>1. [request[r] EXCEPT !.step = step] \in Request
  BY DEF Typed, Request
<1>2. request' = [request EXCEPT ![r] = [request[r] EXCEPT !.step = step]]
  BY DEF Goto
<1> QED
  BY <1>1, <1>2, Moves

LEMMA IdleRequest == Idle \in Request /\ RequestOK(Idle)
BY SessionsAssumption DEF Idle, Request, Kinds, Steps, Numbers, RequestOK

LEMMA Ends ==
  ASSUME Typed, NEW r \in Requests, Finish(r)
  PROVE  request' \in [Requests -> Request] /\ OthersWait(r) /\ request'[r] = Idle
BY IdleRequest, Moves DEF Finish

\* No pair is issued: the pairs are as they were.
LEMMA TokensSame ==
  ASSUME SessionsInv, UNCHANGED tokens, redis' \subseteq redis, now' \in Nat, now <= now'
  PROVE  TokensOK'
<1>1. \A t \in TokenIds : tokens[t].issuedAt \in Nat
  BY DEF SessionsInv, Typed, Token
<1>2. now \in Nat
  BY SessionsAssumption DEF SessionsInv, Typed
<1>3. \A t : Issued(t)' <=> Issued(t)
  BY DEF Issued
<1>4. \A t \in TokenIds : tokens[t].issuedAt <= now => tokens[t].issuedAt <= now'
  BY <1>1, <1>2
<1>5. \A t \in TokenIds : Issued(t)' =>
        tokens'[t].user \in Accounts /\ tokens'[t].issuedAt <= now' /\ tokens'[t].parent < t
  BY <1>3, <1>4 DEF SessionsInv, TokensOK
<1>6. /\ \A j, k \in TokenIds : j < k /\ Issued(k)' => Issued(j)'
      /\ \A t \in redis' : Issued(t)'
  BY <1>3 DEF SessionsInv, TokensOK
<1> QED
  BY <1>5, <1>6 DEF TokensOK

LEMMA RequestsSame ==
  ASSUME SessionsInv, NEW r \in Requests, OthersWait(r), UNCHANGED tokens, RequestOK(request[r])',
         \A q \in Requests \ {r} : request[q].pair # 0 => request[q].pair \in redis'
  PROVE  \A q \in Requests : RequestOK(request[q])'
<1>1. ASSUME NEW q \in Requests \ {r} PROVE RequestOK(request[q])'
  <2>1. request'[q] = request[q] /\ RequestOK(request[q])
    BY DEF OthersWait, SessionsInv
  <2> QED
    BY <2>1 DEF RequestOK, Issued
<1> QED
  BY <1>1

\* A request that may issue a pair found the account open, or may have before.
LEMMA ClosedSame ==
  ASSUME SessionsInv, NEW r \in Requests, OthersWait(r), UNCHANGED <<status, tokens, closedAt, now>>,
         \/ request'[r].step # "issue"
         \/ At(r, "issue") /\ request'[r].user = request[r].user
         \/ status[request'[r].user] # "SUSPENSO"
  PROVE  ClosedOK'
<1>1. ASSUME NEW u \in Accounts, status[u] = "SUSPENSO", NEW q \in Requests,
             request'[q].step = "issue", request'[q].user = u
      PROVE  closedAt[u] = now
  BY <1>1 DEF OthersWait, SessionsInv, ClosedOK, At
<1> QED
  BY <1>1 DEF SessionsInv, ClosedOK, At

LEMMA HoldersFinite ==
  ASSUME NEW t
  PROVE  IsFiniteSet(Holders(t)) /\ Cardinality(Holders(t)) \in Nat
         /\ Cardinality(Holders(t)) <= Cardinality(Requests) /\ Cardinality(Requests) \in Nat
BY SessionsAssumption, FS_Subset, FS_CardinalityType DEF Holders

LEMMA ChildrenFinite ==
  ASSUME NEW t
  PROVE  IsFiniteSet(Children(t)) /\ Cardinality(Children(t)) \in Nat
<1>1. IsFiniteSet(TokenIds)
  BY SessionsAssumption, FS_Interval DEF TokenIds
<1> QED
  BY <1>1, FS_Subset, FS_CardinalityType DEF Children

\* A request comes to renew a pair only while its key is in Redis.
LEMMA RotationSame ==
  ASSUME SessionsInv, NEW r \in Requests, OthersWait(r), UNCHANGED tokens, redis' \subseteq redis,
         Renewing(request'[r]) =>
           \/ request'[r].session = 0
           \/ /\ request'[r].session = request[r].session /\ Renewing(request[r])
              /\ request'[r].step # "del" => request'[r].session \notin redis'
           \/ request'[r].step = "del" /\ request'[r].session \in redis
  PROVE  RotationOK'
<1> SUFFICES ASSUME NEW t \in TokenIds
             PROVE  /\ t \in redis' => Children(t)' = {} /\ \A q \in Holders(t)' : At(q, "del")'
                    /\ Cardinality(Children(t))' + Cardinality(Holders(t))'
                         <= Cardinality(Requests)
  BY DEF RotationOK
<1>1. Children(t)' = Children(t)
  BY DEF Children
<1>2. /\ t \in redis => Children(t) = {} /\ \A q \in Holders(t) : At(q, "del")
      /\ Cardinality(Children(t)) + Cardinality(Holders(t)) <= Cardinality(Requests)
  BY DEF SessionsInv, RotationOK
<1>3. t # 0 /\ IsFiniteSet(Holders(t))
  BY HoldersFinite DEF TokenIds
<1>4. \A q \in Requests \ {r} : q \in Holders(t)' <=> q \in Holders(t)
  BY DEF Holders, OthersWait, Renewing
<1>5. ASSUME t \in redis' PROVE \A q \in Holders(t)' : At(q, "del")'
  BY <1>2, <1>3, <1>5 DEF Holders, OthersWait, At, Renewing
<1>6. Cardinality(Children(t)) + Cardinality(Holders(t))' <= Cardinality(Requests)
  <2>1. CASE t \in redis
    <3>1. Cardinality(Children(t)) = 0
      BY <1>2, <2>1, FS_EmptySet
    <3>2. Cardinality(Holders(t)') \in Nat /\ Cardinality(Holders(t)') <= Cardinality(Requests)
      <4>1. Holders(t)' \in SUBSET Requests
        BY DEF Holders
      <4> QED
        BY <4>1, SessionsAssumption, FS_Subset, FS_CardinalityType
    <3> QED
      BY <3>1, <3>2
  <2>2. CASE t \notin redis
    <3>1. r \in Holders(t)' => r \in Holders(t)
      BY <1>3, <2>2 DEF Holders
    <3>2. Holders(t)' \in SUBSET Holders(t)
      BY <1>4, <3>1 DEF Holders
    <3>3. Cardinality(Holders(t)') \in Nat /\ Cardinality(Holders(t)') <= Cardinality(Holders(t))
      BY <1>3, <3>2, FS_Subset, FS_CardinalityType
    <3> QED
      BY <1>2, <3>3, HoldersFinite, ChildrenFinite
  <2> QED
    BY <2>1, <2>2
<1> QED
  BY <1>1, <1>2, <1>5, <1>6

\* A request carries what it carried, or what the cookies of its browser hold; a
\* browser keeps what it kept, nothing, or the pair it is answered.
LEMMA PrivateSame ==
  ASSUME SessionsInv, NEW r \in Requests, OthersWait(r), cookies' \in [Browsers -> Cookie],
         \A q \in Requests : RequestOK(request'[q]),
         request'[r].step = "reply" => At(r, "reply") /\ request'[r].pair = request[r].pair,
         \/ request'[r].session = 0
         \/ /\ request'[r].session = request[r].session
            /\ request'[r].browser = request[r].browser
         \/ /\ request'[r].browser \in Browsers
            /\ request'[r].session = cookies[request'[r].browser].refresh,
         \A b \in Browsers :
           \/ cookies'[b].refresh = cookies[b].refresh
           \/ cookies'[b].refresh = 0
           \/ /\ At(r, "reply") /\ request'[r] = Idle
              /\ b = request[r].browser /\ cookies'[b].refresh = request[r].pair
              /\ \A c \in Browsers \ {b} : cookies'[c] = cookies[c]
  PROVE  Private'
<1>1. \A q \in Requests : RequestOK(request[q]) /\ (request'[q].step = "reply" => At(q, "reply"))
  BY DEF SessionsInv, OthersWait, At
<1>2. \A q \in Requests : request'[q].step = "reply" => request'[q].pair = request[q].pair
  BY DEF OthersWait
<1>3. ASSUME NEW p \in Requests, request'[p].step = "reply"
      PROVE  /\ \A b \in Browsers : cookies'[b].refresh # request'[p].pair
             /\ \A q \in Requests : request'[q].session # request'[p].pair
             /\ \A q \in Requests \ {p} : request'[q].pair # request'[p].pair
  <2>1. /\ At(p, "reply") /\ request'[p].pair = request[p].pair /\ request[p].pair # 0
        /\ \A b \in Browsers : cookies[b].refresh # request[p].pair
        /\ \A q \in Requests : request[q].session # request[p].pair
        /\ \A q \in Requests \ {p} : request[q].pair # request[p].pair
    BY <1>1, <1>2, <1>3 DEF SessionsInv, Private, RequestOK, At
  <2>2. \A b \in Browsers : cookies'[b].refresh # request'[p].pair
    <3>1. p = r => request'[r] # Idle
      BY <1>3 DEF Idle
    <3> QED
      BY <2>1, <3>1
  <2>3. \A q \in Requests : request'[q].session # request'[p].pair
    BY <2>1 DEF OthersWait
  <2>4. ASSUME NEW q \in Requests \ {p} PROVE request'[q].pair # request'[p].pair
    <3>1. request'[q].pair = 0 \/ request'[q].step = "reply"
      BY DEF RequestOK
    <3> QED
      BY <1>2, <2>1, <3>1
  <2> QED
    BY <2>2, <2>3, <2>4
<1>4. ASSUME NEW b \in Browsers, cookies'[b].refresh # 0
      PROVE  /\ \A c \in Browsers \ {b} : cookies'[c].refresh # cookies'[b].refresh
             /\ \A q \in Requests :
                  request'[q].session = cookies'[b].refresh => request'[q].browser = b
  <2>1. CASE cookies'[b].refresh = cookies[b].refresh
    <3>1. /\ \A c \in Browsers \ {b} : cookies[c].refresh # cookies[b].refresh
          /\ \A q \in Requests :
                request[q].session = cookies[b].refresh => request[q].browser = b
      BY <1>4, <2>1 DEF SessionsInv, Private
    <3>2. \A c \in Browsers \ {b} : cookies'[c].refresh # cookies'[b].refresh
      BY <1>4, <2>1, <3>1 DEF SessionsInv, Private
    <3>3. ASSUME NEW q \in Requests, request'[q].session = cookies[b].refresh
          PROVE  request'[q].browser = b
      BY <1>4, <2>1, <3>1, <3>3 DEF OthersWait
    <3> QED
      BY <2>1, <3>2, <3>3
  <2>2. CASE cookies'[b].refresh # cookies[b].refresh
    <3>1. /\ At(r, "reply") /\ request'[r] = Idle /\ cookies'[b].refresh = request[r].pair
          /\ \A c \in Browsers \ {b} : cookies'[c] = cookies[c]
      BY <1>4, <2>2
    <3>2. /\ \A c \in Browsers : cookies[c].refresh # request[r].pair
          /\ \A q \in Requests : request[q].session # request[r].pair
      BY <3>1 DEF SessionsInv, Private
    <3>3. request'[r].session = 0
      BY <3>1 DEF Idle
    <3>4. \A q \in Requests : request'[q].session # cookies'[b].refresh
      BY <1>4, <3>1, <3>2, <3>3 DEF OthersWait
    <3> QED
      BY <3>1, <3>2, <3>4
  <2> QED
    BY <2>1, <2>2
<1> QED
  BY <1>3, <1>4 DEF Private, At


\* While nothing fails, whoever spends the refresh token of a cookie writes the
\* cookie again, unless it is a page.
LEMMA KeptSame ==
  ASSUME SessionsInv, NEW r \in Requests, OthersWait(r),
         failures' = 0 =>
           /\ failures = 0 /\ request'[r].web
           /\ \A b \in Browsers :
                \/ cookies'[b].refresh = 0 \/ cookies'[b].refresh \in redis'
                \/ /\ cookies'[b].refresh = cookies[b].refresh
                   /\ WillWrite(request[r], b, cookies[b].refresh) =>
                        WillWrite(request'[r], b, cookies[b].refresh)
                   /\ cookies[b].refresh \in redis \ redis' =>
                        \/ spentBy'[cookies[b].refresh] = "page"
                        \/ WillWrite(request'[r], b, cookies[b].refresh)
           /\ \A t \in TokenIds \ redis : spentBy'[t] = spentBy[t]
  PROVE  KeptOK'
<1> SUFFICES ASSUME failures' = 0
             PROVE  /\ \A q \in Requests : request'[q].web
                    /\ \A b \in Browsers :
                         \/ cookies'[b].refresh = 0 \/ cookies'[b].refresh \in redis'
                         \/ spentBy'[cookies'[b].refresh] = "page"
                         \/ \E q \in Requests : WillWrite(request'[q], b, cookies'[b].refresh)
  BY DEF KeptOK, WillWrite
<1>1. \A q \in Requests : request'[q].web
  BY DEF OthersWait, SessionsInv, KeptOK
<1>2. ASSUME NEW b \in Browsers, cookies'[b].refresh # 0, cookies'[b].refresh \notin redis'
      PROVE  \/ spentBy'[cookies'[b].refresh] = "page"
             \/ \E q \in Requests : WillWrite(request'[q], b, cookies'[b].refresh)
  <2> DEFINE t == cookies[b].refresh
  <2>1. /\ cookies'[b].refresh = t /\ t # 0 /\ t \in TokenIds
        /\ WillWrite(request[r], b, t) => WillWrite(request'[r], b, t)
        /\ t \in redis \ redis' => spentBy'[t] = "page" \/ WillWrite(request'[r], b, t)
    <3>1. t \in Numbers
      BY DEF SessionsInv, Typed, Cookie
    <3> QED
      BY <1>2, <3>1 DEF Numbers, TokenIds
  <2>2. t \in redis \/ spentBy[t] = "page" \/ \E q \in Requests : WillWrite(request[q], b, t)
    BY <2>1 DEF SessionsInv, KeptOK
  <2>3. \A q \in Requests \ {r} : WillWrite(request[q], b, t) => WillWrite(request'[q], b, t)
    BY DEF OthersWait
  <2> QED
    BY <1>2, <2>1, <2>2, <2>3
<1> QED
  BY <1>1, <1>2

\* A step of one request that issues nothing keeps the invariant, when ...
LEMMA RequestStep ==
  ASSUME SessionsInv, NEW r \in Requests, request' \in [Requests -> Request], OthersWait(r),
         UNCHANGED <<status, tokens, closedAt, now>>, redis' \subseteq redis,
         failures' \in 0 .. MaxFailures, spentBy' \in [TokenIds -> Kinds \cup {"none"}],
         cookies' \in [Browsers -> Cookie], \A b \in Browsers : CookieOK(cookies[b])',
         \* the request it leads to is one,
         RequestOK(request[r])',
         \A q \in Requests \ {r} : request[q].pair # 0 => request[q].pair \in redis',
         request'[r].step = "reply" => At(r, "reply") /\ request'[r].pair = request[r].pair,
         \* it may issue a pair to an account that is open only,
         \/ request'[r].step # "issue"
         \/ At(r, "issue") /\ request'[r].user = request[r].user
         \/ status[request'[r].user] # "SUSPENSO",
         \* it renews a pair that is in Redis, or that it was renewing,
         Renewing(request'[r]) =>
           \/ request'[r].session = 0
           \/ /\ request'[r].session = request[r].session /\ Renewing(request[r])
              /\ request'[r].step # "del" => request'[r].session \notin redis'
           \/ request'[r].step = "del" /\ request'[r].session \in redis,
         \* what it carries is its browser's,
         \/ request'[r].session = 0
         \/ request'[r].session = request[r].session /\ request'[r].browser = request[r].browser
         \/ /\ request'[r].browser \in Browsers
            /\ request'[r].session = cookies[request'[r].browser].refresh,
         \A b \in Browsers :
           \/ cookies'[b].refresh = cookies[b].refresh
           \/ cookies'[b].refresh = 0
           \/ /\ At(r, "reply") /\ request'[r] = Idle
              /\ b = request[r].browser /\ cookies'[b].refresh = request[r].pair
              /\ \A c \in Browsers \ {b} : cookies'[c] = cookies[c],
         \* and it keeps what cookies hold usable.
         KeptOK'
  PROVE  SessionsInv'
<1>2. Typed'
  BY DEF SessionsInv, Typed
<1>3. now' \in Nat /\ now <= now'
  BY SessionsAssumption DEF SessionsInv, Typed
<1>4. TokensOK'
  BY <1>3, TokensSame
<1>5. \A q \in Requests : RequestOK(request[q])'
  BY RequestsSame
<1>6. ClosedOK'
  BY ClosedSame
<1>7. RotationOK'
  BY RotationSame
<1>8. \A q \in Requests : RequestOK(request'[q])
  <2>1. ASSUME NEW q \in Requests PROVE RequestOK(request'[q])
    <3>1. RequestOK(request[q])'
      BY <1>5
    <3> QED
      BY <3>1 DEF RequestOK, Issued
  <2> QED
    BY <2>1
<1>9. Private'
  BY <1>8, PrivateSame
<1> QED
  BY <1>2, <1>4, <1>5, <1>6, <1>7, <1>9 DEF SessionsInv

--------------------------------------------------------------------------------
(* The web server *)

LEMMA CookieTyped ==
  ASSUME SessionsInv, NEW b \in Browsers
  PROVE  /\ cookies[b] \in Cookie /\ CookieOK(cookies[b])
         /\ getSession(b) \in Numbers /\ getSession(b) \in {0, cookies[b].refresh}
         /\ getSession(b) # 0 => Issued(getSession(b))
         /\ NoCookies \in Cookie
BY SessionsAssumption DEF SessionsInv, Typed, Cookie, CookieOK, getSession, Numbers, NoCookies

LEMMA StartKeeps ==
  ASSUME SessionsInv, NEW r \in Requests, At(r, "idle"),
         request' \in [Requests -> Request], OthersWait(r),
         UNCHANGED <<status, tokens, redis, cookies, now, failures, closedAt, spentBy>>,
         RequestOK(request'[r]), request'[r].web,
         request'[r].step \in {"get", "find", "revoke", "clear"},
         request'[r].step = "find" => request'[r].session = 0,
         \/ request'[r].session = 0
         \/ /\ request'[r].browser \in Browsers
            /\ request'[r].session = cookies[request'[r].browser].refresh
  PROVE  SessionsInv'
<1>2. RequestOK(request[r])'
  BY DEF RequestOK, Issued
<1>3. \A q \in Requests \ {r} : request[q].pair # 0 => request[q].pair \in redis'
  BY DEF SessionsInv, RequestOK
<1>4. \A b \in Browsers : CookieOK(cookies[b])'
  BY DEF SessionsInv, CookieOK, Issued
<1>5. ~Renewing(request[r]) /\ \A b, t : ~WillWrite(request[r], b, t)
  BY DEF At, Renewing, WillWrite
<1>6. KeptOK'
  BY <1>5, KeptSame
<1> QED
  BY <1>2, <1>3, <1>4, <1>6, RequestStep DEF Renewing, SessionsInv, Typed

LEMMA AuthenticatedKeeps ==
  ASSUME SessionsInv, NEW r \in Requests, NEW b \in Browsers, NEW kind \in {"page", "post"},
         Authenticated(r, b, kind)
  PROVE  SessionsInv'
<1> DEFINE k == [Idle EXCEPT !.step = "get", !.kind = kind, !.browser = b, !.session = getSession(b)]
<1>1. k \in Request /\ RequestOK(k) /\ k.web /\ k.step = "get"
      /\ k.browser = b /\ k.session = cookies[b].refresh
  BY CookieTyped, IdleRequest DEF Idle, Request, Kinds, Steps, Numbers, RequestOK, Authenticated, getSession
<1>2. request' = [request EXCEPT ![r] = k] /\ At(r, "idle")
      /\ UNCHANGED <<status, tokens, redis, cookies, now, failures, closedAt, spentBy>>
  BY DEF Authenticated
<1> HIDE DEF k
<1>3. request' \in [Requests -> Request] /\ OthersWait(r) /\ request'[r] = k
  BY <1>1, <1>2, Moves DEF SessionsInv
<1> QED
  BY <1>1, <1>2, <1>3, StartKeeps

LEMMA LoginKeeps ==
  ASSUME SessionsInv, NEW r \in Requests, NEW b \in Browsers, NEW u \in Accounts, Login(r, b, u)
  PROVE  SessionsInv'
<1> DEFINE k == [Idle EXCEPT !.step = "find", !.kind = "login", !.browser = b, !.user = u]
<1>1. k \in Request /\ RequestOK(k) /\ k.web /\ k.step \in {"get", "find", "revoke", "clear"}
      /\ (k.step = "find" => k.session = 0) /\ k.session = 0
  BY IdleRequest DEF Idle, Request, Kinds, Steps, Numbers, RequestOK
<1>2. request' = [request EXCEPT ![r] = k] /\ At(r, "idle")
      /\ UNCHANGED <<status, tokens, redis, cookies, now, failures, closedAt, spentBy>>
  BY DEF Login
<1> HIDE DEF k
<1>3. request' \in [Requests -> Request] /\ OthersWait(r) /\ request'[r] = k
  BY <1>1, <1>2, Moves DEF SessionsInv
<1> QED
  BY <1>1, <1>2, <1>3, StartKeeps

LEMMA LogoutKeeps ==
  ASSUME SessionsInv, NEW r \in Requests, NEW b \in Browsers, Logout(r, b)
  PROVE  SessionsInv'
<1> DEFINE k == [Idle EXCEPT !.step = "revoke", !.kind = "logout", !.browser = b,
                             !.session = getSession(b)]
           l == [Idle EXCEPT !.step = "clear", !.kind = "logout", !.browser = b, !.session = 0]
<1>1. At(r, "idle") /\ UNCHANGED <<status, tokens, redis, cookies, now, failures, closedAt, spentBy>>
  BY DEF Logout
<1>2. CASE getSession(b) # 0
  <2>1. k \in Request /\ RequestOK(k) /\ k.web /\ k.step = "revoke"
        /\ k.browser = b /\ k.session = cookies[b].refresh
    BY <1>2, CookieTyped, IdleRequest DEF Idle, Request, Kinds, Steps, Numbers, RequestOK
  <2>2. request' = [request EXCEPT ![r] = k]
    BY <1>2 DEF Logout
  <2> HIDE DEF k
  <2>3. request' \in [Requests -> Request] /\ OthersWait(r) /\ request'[r] = k
    BY <2>1, <2>2, Moves DEF SessionsInv
  <2> QED
    BY <1>1, <2>1, <2>3, StartKeeps
<1>3. CASE getSession(b) = 0
  <2>1. l \in Request /\ RequestOK(l) /\ l.web /\ l.step = "clear" /\ l.session = 0
    BY IdleRequest DEF Idle, Request, Kinds, Steps, Numbers, RequestOK
  <2>2. request' = [request EXCEPT ![r] = l]
    BY <1>3 DEF Logout
  <2> HIDE DEF l
  <2>3. request' \in [Requests -> Request] /\ OthersWait(r) /\ request'[r] = l
    BY <2>1, <2>2, Moves DEF SessionsInv
  <2> QED
    BY <1>1, <2>1, <2>3, StartKeeps
<1> QED
  BY <1>2, <1>3

\* A request ends: its browser keeps what it kept, nothing, or the pair.
LEMMA EndKeeps ==
  ASSUME SessionsInv, NEW r \in Requests, ~At(r, "idle"), Finish(r),
         UNCHANGED <<status, tokens, redis, now, closedAt, spentBy>>,
         failures' \in 0 .. MaxFailures, failures' = 0 => failures = 0,
         \/ /\ UNCHANGED cookies
            /\ failures' = 0 => \A b, t : ~WillWrite(request[r], b, t)
         \/ cookies' = [cookies EXCEPT ![request[r].browser] = NoCookies]
         \/ /\ At(r, "reply")
            /\ cookies' = [cookies EXCEPT ![request[r].browser] =
                             [access |-> request[r].pair, refresh |-> request[r].pair]]
  PROVE  SessionsInv'
<1>1. /\ request' \in [Requests -> Request] /\ OthersWait(r) /\ request'[r] = Idle
      /\ request' = [request EXCEPT ![r] = Idle]
  BY Ends DEF SessionsInv, Finish
<1>2. RequestOK(request[r])'
  BY <1>1, IdleRequest DEF RequestOK, Idle
<1>3. /\ \A q \in Requests \ {r} : request[q].pair # 0 => request[q].pair \in redis'
      /\ request[r].browser \in Browsers
      /\ At(r, "reply") => request[r].pair # 0 /\ request[r].pair \in redis
      /\ request[r].pair \in Numbers
  BY DEF SessionsInv, RequestOK, At, Typed, Request
<1>4. \A t \in redis : Issued(t)
  BY DEF SessionsInv, TokensOK
<1> DEFINE b == request[r].browser
<1>5. /\ cookies' \in [Browsers -> Cookie]
      /\ \A c \in Browsers \ {b} : cookies'[c] = cookies[c]
      /\ \/ cookies'[b] = cookies[b] /\ (failures' = 0 => \A c, t : ~WillWrite(request[r], c, t))
         \/ cookies'[b] = NoCookies
         \/ At(r, "reply") /\ cookies'[b] = [access |-> request[r].pair, refresh |-> request[r].pair]
  <2>1. /\ NoCookies \in Cookie /\ cookies \in [Browsers -> Cookie]
        /\ [access |-> request[r].pair, refresh |-> request[r].pair] \in Cookie
    BY <1>3, CookieTyped DEF SessionsInv, Typed, Cookie
  <2>2. ASSUME NEW c \in Cookie, cookies' = [cookies EXCEPT ![b] = c]
        PROVE  /\ cookies' \in [Browsers -> Cookie] /\ cookies'[b] = c
               /\ \A d \in Browsers \ {b} : cookies'[d] = cookies[d]
    BY <1>3, <2>1, <2>2
  <2> QED
    BY <1>3, <2>1, <2>2
<1>6. \A c \in Browsers : CookieOK(cookies[c])'
  BY <1>3, <1>4, <1>5 DEF SessionsInv, CookieOK, Issued, NoCookies
<1>7. \A c, t : WillWrite(request[r], c, t) => c = b
  BY DEF WillWrite
<1>8. KeptOK'
  BY <1>1, <1>3, <1>5, <1>7, KeptSame DEF NoCookies, Idle
<1>9. ~Renewing(Idle) /\ Idle.session = 0 /\ Idle.step # "reply" /\ Idle.step # "issue" /\ Idle \in Request
  BY IdleRequest DEF Renewing, Idle
<1>10. \A c \in Browsers :
           \/ cookies'[c].refresh = cookies[c].refresh
           \/ cookies'[c].refresh = 0
           \/ /\ At(r, "reply")
              /\ c = request[r].browser /\ cookies'[c].refresh = request[r].pair
              /\ \A d \in Browsers \ {c} : cookies'[d] = cookies[d]
  BY <1>5 DEF NoCookies
<1> QED
  BY <1>1, <1>2, <1>3, <1>5, <1>6, <1>8, <1>9, <1>10, RequestStep DEF SessionsInv, Typed

LEMMA ReplyKeeps ==
  ASSUME SessionsInv, NEW r \in Requests, Reply(r)
  PROVE  SessionsInv'
<1>1. request[r].kind = "page" => \A b, t : ~WillWrite(request[r], b, t)
  BY DEF Reply, At, WillWrite
<1>2. failures \in 0 .. MaxFailures /\ ~At(r, "idle")
  BY DEF SessionsInv, Typed, Reply, At
<1> QED
  BY <1>1, <1>2, EndKeeps DEF Reply

LEMMA RefusedKeeps ==
  ASSUME SessionsInv, NEW r \in Requests, Refused(r)
  PROVE  SessionsInv'
<1>1. request[r].kind # "post" => \A b, t : ~WillWrite(request[r], b, t)
  BY DEF Refused, At, WillWrite
<1>2. failures \in 0 .. MaxFailures /\ ~At(r, "idle")
  BY DEF SessionsInv, Typed, Refused, At
<1> QED
  BY <1>1, <1>2, EndKeeps DEF Refused

LEMMA ClearKeeps ==
  ASSUME SessionsInv, NEW r \in Requests, Clear(r)
  PROVE  SessionsInv'
<1>1. failures \in 0 .. MaxFailures /\ ~At(r, "idle")
  BY DEF SessionsInv, Typed, Clear, At
<1> QED
  BY <1>1, EndKeeps DEF Clear


\* Whoever has read a key and deleted it no longer finds it.
LEMMA SpentByNow ==
  ASSUME SessionsInv, NEW r \in Requests, Renewing(request[r]), ~At(r, "del"), request[r].session # 0
  PROVE  request[r].session \notin redis
<1>1. request[r].session \in TokenIds
  BY SessionsAssumption DEF SessionsInv, Typed, Request, Numbers, TokenIds
<1>2. r \in Holders(request[r].session)
  BY DEF Holders
<1> QED
  BY <1>1, <1>2 DEF SessionsInv, RotationOK

\* A request that stays on its way, with the cookies as they were.
LEMMA AdvanceKeeps ==
  ASSUME SessionsInv, NEW r \in Requests, ~At(r, "idle"),
         request' \in [Requests -> Request], OthersWait(r),
         UNCHANGED <<status, tokens, redis, cookies, now, closedAt, spentBy>>,
         failures' \in 0 .. MaxFailures, failures' = 0 => failures = 0 /\ request'[r].web,
         request'[r].session = request[r].session, request'[r].browser = request[r].browser,
         request'[r].kind = request[r].kind, request'[r].user = request[r].user,
         request'[r].pair = request[r].pair, ~At(r, "reply"),
         \/ request'[r].step = request[r].step
         \/ At(r, "get") /\ request'[r].step = "del" /\ request[r].session \in redis
         \/ At(r, "find") /\ request'[r].step = "issue" /\ status[request[r].user] = "ATIVO"
         \/ request[r].step \in {"get", "del", "find", "issue"} /\ request'[r].step = "refused"
              /\ (failures' = 0 => request[r].step \in {"get", "find"})
         \/ At(r, "revoke") /\ request'[r].step = "clear"
  PROVE  SessionsInv'
<1>1. /\ RequestOK(request[r]) /\ request[r].pair = 0 /\ request[r].step # "idle"
      /\ \A q \in Requests \ {r} : request[q].pair # 0 => request[q].pair \in redis'
  BY DEF SessionsInv, RequestOK, At
<1>2. request'[r].step # "idle" /\ request'[r].step # "reply" /\ request'[r] # Idle
  BY <1>1 DEF At, Idle
<1>3. RequestOK(request[r])'
  BY <1>1, <1>2 DEF RequestOK, Issued, At
<1>4. \A b \in Browsers : CookieOK(cookies[b])'
  BY DEF SessionsInv, CookieOK, Issued
<1>5. ASSUME failures' = 0, NEW b, NEW t, WillWrite(request[r], b, t) PROVE WillWrite(request'[r], b, t)
  BY <1>5 DEF WillWrite, At
<1>6. KeptOK'
  BY <1>5, KeptSame
<1>7. request[r].step # "del" /\ Renewing(request[r]) /\ request[r].session # 0 =>
        request[r].session \notin redis
  BY SpentByNow DEF At
<1>8. Renewing(request'[r]) =>
        \/ request'[r].session = 0
        \/ /\ request'[r].session = request[r].session /\ Renewing(request[r])
           /\ request'[r].step # "del" => request'[r].session \notin redis'
        \/ request'[r].step = "del" /\ request'[r].session \in redis
  BY <1>7 DEF Renewing, At
<1>9. \/ request'[r].step # "issue"
      \/ At(r, "issue") /\ request'[r].user = request[r].user
      \/ status[request'[r].user] # "SUSPENSO"
  BY DEF At
<1>10. cookies' \in [Browsers -> Cookie] /\ spentBy' \in [TokenIds -> Kinds \cup {"none"}]
  BY DEF SessionsInv, Typed
<1> QED
  BY <1>1, <1>2, <1>3, <1>4, <1>6, <1>8, <1>9, <1>10, RequestStep

LEMMA TimeoutKeeps ==
  ASSUME SessionsInv, NEW r \in Requests, Timeout(r)
  PROVE  SessionsInv'
<1> DEFINE k == [request[r] EXCEPT !.web = FALSE]
           b == request[r].browser
<1>1. /\ request[r] \in Request /\ RequestOK(request[r])
      /\ failures' \in 0 .. MaxFailures /\ failures' # 0 /\ b \in Browsers /\ ~At(r, "idle") /\ ~At(r, "reply")
      /\ request' = [request EXCEPT ![r] = k]
  BY SessionsAssumption DEF SessionsInv, Typed, Timeout, RequestOK, At
<1>2. k \in Request
  BY <1>1 DEF Request
<1>3. /\ request' \in [Requests -> Request] /\ OthersWait(r)
      /\ request'[r].session = request[r].session /\ request'[r].browser = request[r].browser
      /\ request'[r].kind = request[r].kind /\ request'[r].user = request[r].user
      /\ request'[r].pair = request[r].pair /\ request'[r].step = request[r].step
  BY <1>1, <1>2, Moves DEF SessionsInv, Request
<1>4. CASE UNCHANGED cookies
  BY <1>1, <1>3, <1>4, AdvanceKeeps DEF Timeout
<1>5. CASE cookies' = [cookies EXCEPT ![b] = NoCookies]
  <2>1. /\ cookies' \in [Browsers -> Cookie]
        /\ \A c \in Browsers : cookies'[c] = cookies[c] \/ cookies'[c] = NoCookies
    BY <1>1, <1>5, CookieTyped DEF SessionsInv, Typed
  <2>2. \A c \in Browsers : CookieOK(cookies[c])'
    BY <2>1 DEF SessionsInv, CookieOK, Issued, NoCookies, Timeout
  <2>3. request[r].pair = 0
    BY <1>1 DEF RequestOK, At
  <2>4. RequestOK(request[r])'
    <3>1. request'[r].step # "idle" /\ request'[r] # Idle
      BY <1>1, <1>3 DEF At, Idle
    <3> QED
      BY <1>1, <1>3, <2>3, <3>1 DEF RequestOK, Issued, Timeout, At
  <2>5. KeptOK'
    BY <1>1 DEF KeptOK
  <2>6. \A c \in Browsers : cookies'[c].refresh = cookies[c].refresh \/ cookies'[c].refresh = 0
    BY <2>1 DEF NoCookies
  <2>7. \A q \in Requests \ {r} : request[q].pair # 0 => request[q].pair \in redis
    BY DEF SessionsInv, RequestOK
  <2>8. request[r].step # "del" /\ Renewing(request[r]) /\ request[r].session # 0 =>
          request[r].session \notin redis
    BY SpentByNow DEF At
  <2>9. /\ UNCHANGED <<status, tokens, redis, now, closedAt, spentBy>>
        /\ spentBy \in [TokenIds -> Kinds \cup {"none"}] /\ request'[r].step # "reply"
    BY <1>1, <1>3 DEF Timeout, SessionsInv, Typed, At
  <2>10. failures' \in 0 .. MaxFailures /\ Renewing(request'[r]) = Renewing(request[r])
    BY <1>1, <1>3 DEF Renewing
  <2> QED
    BY <1>3, <2>1, <2>2, <2>4, <2>5, <2>6, <2>7, <2>8, <2>9, <2>10, RequestStep DEF At
<1> QED
  BY <1>4, <1>5 DEF Timeout

--------------------------------------------------------------------------------
(* The API *)

LEMMA AnswerKeeps ==
  ASSUME SessionsInv, NEW r \in Requests, request[r].step \in {"get", "find"},
         Answer(r, "refused"),
         UNCHANGED <<status, tokens, redis, cookies, now, failures, closedAt, spentBy>>
  PROVE  SessionsInv'
<1>1. failures \in 0 .. MaxFailures /\ request[r] \in Request
  BY DEF SessionsInv, Typed
<1>2. failures = 0 => request[r].web
  BY DEF SessionsInv, KeptOK
<1>3. CASE request[r].web
  <2>1. /\ request' \in [Requests -> Request] /\ OthersWait(r)
        /\ request'[r] = [request[r] EXCEPT !.step = "refused"]
    BY <1>3, MovesTo DEF Answer, SessionsInv, Steps
  <2> QED
    BY <1>1, <1>2, <2>1, AdvanceKeeps DEF Request, At
<1>4. CASE ~request[r].web
  <2>1. Finish(r) /\ failures # 0 /\ ~At(r, "idle")
    BY <1>2, <1>4 DEF Answer, At
  <2> QED
    BY <1>1, <2>1, EndKeeps
<1> QED
  BY <1>3, <1>4

LEMMA GetRefreshKeeps ==
  ASSUME SessionsInv, NEW r \in Requests, GetRefresh(r)
  PROVE  SessionsInv'
<1>1. CASE request[r].session \in redis
  <2>1. Goto(r, "del") /\ failures \in 0 .. MaxFailures /\ request[r] \in Request
        /\ (failures = 0 => request[r].web)
    BY <1>1 DEF GetRefresh, SessionsInv, Typed, KeptOK
  <2>2. /\ request' \in [Requests -> Request] /\ OthersWait(r)
        /\ request'[r] = [request[r] EXCEPT !.step = "del"]
    BY <2>1, MovesTo DEF SessionsInv, Steps
  <2> QED
    BY <1>1, <2>1, <2>2, AdvanceKeeps DEF Request, At, GetRefresh
<1>2. CASE request[r].session \notin redis
  BY <1>2, AnswerKeeps DEF GetRefresh, At
<1> QED
  BY <1>1, <1>2

LEMMA FindUserKeeps ==
  ASSUME SessionsInv, NEW r \in Requests, FindUser(r)
  PROVE  SessionsInv'
<1>1. CASE status[request[r].user] = "ATIVO"
  <2>1. Goto(r, "issue") /\ failures \in 0 .. MaxFailures /\ request[r] \in Request
        /\ (failures = 0 => request[r].web)
    BY <1>1 DEF FindUser, SessionsInv, Typed, KeptOK
  <2>2. /\ request' \in [Requests -> Request] /\ OthersWait(r)
        /\ request'[r] = [request[r] EXCEPT !.step = "issue"]
    BY <2>1, MovesTo DEF SessionsInv, Steps
  <2> QED
    BY <1>1, <2>1, <2>2, AdvanceKeeps DEF Request, At, FindUser
<1>2. CASE status[request[r].user] # "ATIVO"
  BY <1>2, AnswerKeeps DEF FindUser, At
<1> QED
  BY <1>1, <1>2

LEMMA FailureKeeps ==
  ASSUME SessionsInv, NEW r \in Requests, Failure(r)
  PROVE  SessionsInv'
<1>1. failures' \in 0 .. MaxFailures /\ failures' # 0 /\ request[r] \in Request /\ ~At(r, "idle")
  BY SessionsAssumption DEF Failure, SessionsInv, Typed
<1>2. CASE Finish(r)
  BY <1>1, <1>2, EndKeeps DEF Failure
<1>3. ASSUME NEW step \in {"refused", "clear"}, Goto(r, step),
             \/ step = "refused" /\ request[r].step \in {"get", "del", "find", "issue"}
             \/ step = "clear" /\ At(r, "revoke")
      PROVE  SessionsInv'
  <2>1. /\ request' \in [Requests -> Request] /\ OthersWait(r)
        /\ request'[r] = [request[r] EXCEPT !.step = step]
    BY <1>3, MovesTo DEF SessionsInv, Steps
  <2>2. /\ request'[r].session = request[r].session /\ request'[r].browser = request[r].browser
        /\ request'[r].kind = request[r].kind /\ request'[r].user = request[r].user
        /\ request'[r].pair = request[r].pair /\ request'[r].step = step
    BY <1>1, <2>1 DEF Request
  <2> QED
    BY <1>1, <1>3, <2>1, <2>2, AdvanceKeeps DEF At, Failure
<1> QED
  BY <1>2, <1>3 DEF Failure


\* A key leaves Redis: pairs that are being answered are others.
LEMMA PairsStay ==
  ASSUME SessionsInv, NEW r \in Requests
  PROVE  \A q \in Requests \ {r} :
           request[q].pair # 0 => request[q].pair \in redis \ {request[r].session}
BY DEF SessionsInv, RequestOK, Private, At

LEMMA DelRefreshKeeps ==
  ASSUME SessionsInv, NEW r \in Requests, DelRefresh(r)
  PROVE  SessionsInv'
<1> DEFINE t == request[r].session
           k == [request[r] EXCEPT !.step = "find", !.user = tokens[t].user]
<1>1. /\ request[r] \in Request /\ RequestOK(request[r]) /\ t \in TokenIds /\ Issued(t)
      /\ request[r].kind \in {"page", "post"} /\ request[r].pair = 0
      /\ request[r].browser \in Browsers /\ tokens[t].user \in Accounts
      /\ failures = 0 => request[r].web
  BY SessionsAssumption
     DEF SessionsInv, Typed, Request, Numbers, TokenIds, RequestOK, DelRefresh, At, TokensOK, KeptOK
<1>2. k \in Request
  BY <1>1 DEF Request, Steps
<1>3. request' = [request EXCEPT ![r] = k]
  BY DEF DelRefresh
<1>4. /\ request' \in [Requests -> Request] /\ OthersWait(r)
      /\ request'[r].session = t /\ request'[r].browser = request[r].browser
      /\ request'[r].kind = request[r].kind /\ request'[r].user = tokens[t].user
      /\ request'[r].pair = 0 /\ request'[r].step = "find" /\ request'[r].web = request[r].web
  BY <1>1, <1>2, <1>3, Moves DEF SessionsInv, Request
<1> HIDE DEF k
<1>5. /\ UNCHANGED <<status, tokens, cookies, now, failures, closedAt>>
      /\ redis' = redis \ {t} /\ At(r, "del")
  BY DEF DelRefresh
<1>6. /\ spentBy' \in [TokenIds -> Kinds \cup {"none"}]
      /\ \A x \in TokenIds : spentBy'[x] = IF x = t /\ t \in redis THEN request[r].kind ELSE spentBy[x]
  BY <1>1 DEF DelRefresh, SessionsInv, Typed, Kinds
<1>7. RequestOK(request[r])'
  <2>1. request'[r] # Idle
    BY <1>4 DEF Idle
  <2> QED
    BY <1>1, <1>4, <1>5, <2>1 DEF RequestOK, Issued
<1>8. \A b \in Browsers : CookieOK(cookies[b])'
  BY <1>5 DEF SessionsInv, CookieOK, Issued
<1>9. ASSUME failures' = 0, NEW b \in Browsers, cookies[b].refresh # 0
      PROVE  \/ cookies'[b].refresh \in redis'
             \/ /\ WillWrite(request[r], b, cookies[b].refresh) =>
                     WillWrite(request'[r], b, cookies[b].refresh)
                /\ cookies[b].refresh \in redis \ redis' =>
                     \/ spentBy'[cookies[b].refresh] = "page"
                     \/ WillWrite(request'[r], b, cookies[b].refresh)
  <2>1. ~WillWrite(request[r], b, cookies[b].refresh)
    BY <1>5 DEF WillWrite, At
  <2>2. CASE cookies[b].refresh = t
    <3>1. request[r].browser = b
      BY <1>9, <2>2 DEF SessionsInv, Private
    <3> QED
      BY <1>1, <1>4, <1>5, <1>6, <2>1, <2>2, <3>1 DEF WillWrite
  <2>3. CASE cookies[b].refresh # t
    BY <1>5, <2>1, <2>3
  <2> QED
    BY <2>2, <2>3
<1>10. KeptOK'
  BY <1>1, <1>4, <1>5, <1>6, <1>9, KeptSame
<1>11. Renewing(request[r]) /\ request'[r].session \notin redis'
  BY <1>4, <1>5 DEF Renewing, At
<1>12. /\ failures' \in 0 .. MaxFailures /\ cookies' \in [Browsers -> Cookie] /\ redis' \subseteq redis
       /\ \A q \in Requests \ {r} : request[q].pair # 0 => request[q].pair \in redis'
  BY <1>5, PairsStay DEF SessionsInv, Typed
<1> QED
  BY <1>4, <1>5, <1>6, <1>7, <1>8, <1>10, <1>11, <1>12, RequestStep

LEMMA RevokeKeeps ==
  ASSUME SessionsInv, NEW r \in Requests, Revoke(r)
  PROVE  SessionsInv'
<1> DEFINE t == request[r].session
<1>1. /\ request[r] \in Request /\ RequestOK(request[r]) /\ t \in TokenIds /\ Issued(t)
      /\ request[r].kind = "logout" /\ request[r].pair = 0
      /\ request[r].browser \in Browsers
      /\ failures = 0 => request[r].web
  BY SessionsAssumption
     DEF SessionsInv, Typed, Request, Numbers, TokenIds, RequestOK, Revoke, At, TokensOK, KeptOK
<1>2. /\ UNCHANGED <<status, tokens, cookies, now, failures, closedAt>>
      /\ redis' = redis \ {t} /\ At(r, "revoke") /\ Answer(r, "clear")
  BY DEF Revoke
<1>3. /\ request' \in [Requests -> Request] /\ OthersWait(r)
      /\ \/ request'[r] = [request[r] EXCEPT !.step = "clear"]
         \/ request'[r] = Idle /\ ~request[r].web
  BY <1>2, MovesTo, Ends DEF SessionsInv, Answer, Steps
<1>4. /\ spentBy' \in [TokenIds -> Kinds \cup {"none"}]
      /\ \A x \in TokenIds \ redis : spentBy'[x] = spentBy[x]
  BY <1>1 DEF Revoke, SessionsInv, Typed, Kinds
<1>5. /\ \/ request'[r] = Idle
         \/ /\ request'[r].session = t /\ request'[r].step = "clear"
            /\ request'[r].browser = request[r].browser
            /\ request'[r].kind = "logout" /\ request'[r].web = request[r].web
            /\ request'[r].pair = 0
      /\ request'[r].step # "reply" /\ request'[r].step # "issue" /\ ~Renewing(request'[r])
  BY <1>1, <1>3 DEF Idle, Request, Renewing
<1>6. RequestOK(request[r])'
  <2>1. CASE request'[r] = Idle
    BY <2>1, IdleRequest DEF RequestOK, Idle
  <2>2. CASE request'[r] # Idle
    BY <1>1, <1>2, <1>5, <2>2 DEF RequestOK, Issued
  <2> QED
    BY <2>1, <2>2
<1>7. \A b \in Browsers : CookieOK(cookies[b])'
  BY <1>2 DEF SessionsInv, CookieOK, Issued
<1>8. ASSUME failures' = 0, NEW b \in Browsers, cookies[b].refresh # 0
      PROVE  \/ cookies'[b].refresh \in redis'
             \/ /\ WillWrite(request[r], b, cookies[b].refresh) =>
                     WillWrite(request'[r], b, cookies[b].refresh)
                /\ cookies[b].refresh \in redis \ redis' =>
                     WillWrite(request'[r], b, cookies[b].refresh)
  <2>1. ~WillWrite(request[r], b, cookies[b].refresh)
    BY <1>1, <1>2 DEF WillWrite, At
  <2>2. CASE cookies[b].refresh = t
    <3>1. request[r].browser = b /\ request[r].web
      BY <1>1, <1>2, <1>8, <2>2 DEF SessionsInv, Private
    <3>2. request'[r] # Idle
      BY <1>1, <1>3, <3>1 DEF Idle, Request
    <3> QED
      BY <1>5, <2>1, <2>2, <3>1, <3>2 DEF WillWrite
  <2>3. CASE cookies[b].refresh # t
    BY <1>2, <2>1, <2>3
  <2> QED
    BY <2>2, <2>3
<1>9. failures' = 0 => failures = 0 /\ request'[r].web
  BY <1>1, <1>2, <1>5 DEF Idle
<1>10. KeptOK'
  BY <1>2, <1>3, <1>4, <1>8, <1>9, KeptSame
<1>11. \/ request'[r].session = 0
       \/ request'[r].session = request[r].session /\ request'[r].browser = request[r].browser
  BY <1>5 DEF Idle
<1>12. /\ failures' \in 0 .. MaxFailures /\ cookies' \in [Browsers -> Cookie] /\ redis' \subseteq redis
       /\ \A q \in Requests \ {r} : request[q].pair # 0 => request[q].pair \in redis'
  BY <1>2, PairsStay DEF SessionsInv, Typed
<1> QED
  BY <1>2, <1>3, <1>4, <1>5, <1>6, <1>7, <1>10, <1>11, <1>12, RequestStep


\* The pair that is issued is known to its request alone.
LEMMA IssueKeeps ==
  ASSUME SessionsInv, NEW r \in Requests, Issue(r)
  PROVE  SessionsInv'
<1>1. PICK t \in TokenIds :
        /\ tokens[t] = NoToken /\ \A j \in 1 .. t - 1 : tokens[j] # NoToken
        /\ tokens' = [tokens EXCEPT ![t] =
             [user |-> request[r].user, issuedAt |-> now, parent |-> request[r].session]]
        /\ redis' = redis \cup {t}
        /\ request' = IF request[r].web
             THEN [request EXCEPT ![r].step = "reply", ![r].pair = t]
             ELSE [request EXCEPT ![r] = Idle]
  BY DEF Issue
<1>2. /\ UNCHANGED <<status, cookies, now, failures, closedAt, spentBy>> /\ At(r, "issue")
      /\ Typed /\ TokensOK
  BY DEF Issue, SessionsInv
<1> DEFINE s == request[r].session
           u == request[r].user
           new == [user |-> u, issuedAt |-> now, parent |-> s]
           k == [request[r] EXCEPT !.step = "reply", !.pair = t]
<1>3. /\ request[r] \in Request /\ RequestOK(request[r]) /\ s \in Numbers
      /\ u \in Accounts /\ request[r].kind \in {"page", "post", "login"}
      /\ request[r].browser \in Browsers /\ (s # 0 => Issued(s))
      /\ t \in Numbers /\ t # 0 /\ t \in Nat /\ s \in Nat /\ now \in Nat
      /\ s # 0 => s \in TokenIds /\ s \notin redis
  <2>1. request[r] \in Request /\ RequestOK(request[r]) /\ Renewing(request[r]) /\ ~At(r, "del")
    BY <1>2 DEF SessionsInv, Typed, At, Renewing
  <2>2. request[r].session # 0 => request[r].session \notin redis
    BY <2>1, SpentByNow
  <2> QED
    BY <1>2, <2>1, <2>2, SessionsAssumption DEF RequestOK, Request, At, Numbers, TokenIds, Typed
<1>4. new # NoToken /\ new \in Token
  BY <1>3, SessionsAssumption DEF NoToken, Token
<1>5. /\ tokens' \in [TokenIds -> Token] /\ tokens'[t] = new
      /\ \A j \in TokenIds \ {t} : tokens'[j] = tokens[j]
  BY <1>1, <1>2, <1>4 DEF Typed
<1>6. ~Issued(t) /\ (\A j \in TokenIds : Issued(j)' <=> (Issued(j) \/ j = t))
      /\ \A j \in TokenIds : Issued(j) => j < t
  <2>1. \A j \in TokenIds : Issued(j)' <=> (Issued(j) \/ j = t)
    BY <1>4, <1>5 DEF Issued
  <2>2. ASSUME NEW j \in TokenIds, Issued(j) PROVE j < t
    <3>1. j # t /\ ~(t < j)
      BY <1>1, <1>2, <2>2 DEF Issued, TokensOK
    <3> QED
      BY <3>1, SessionsAssumption DEF TokenIds
  <2> QED
    BY <1>1, <2>1, <2>2 DEF Issued
<1>7. /\ request' \in [Requests -> Request] /\ OthersWait(r)
      /\ \/ request'[r] = k
         \/ request'[r] = Idle /\ ~request[r].web
  <2>1. k \in Request
    BY <1>3 DEF Request, Steps
  <2>2. CASE request[r].web
    <3>1. request' = [request EXCEPT ![r] = k]
      BY <1>1, <2>2
    <3> QED
      BY <1>2, <2>1, <3>1, Moves
  <2>3. CASE ~request[r].web
    <3>1. Finish(r)
      BY <1>1, <2>3 DEF Finish
    <3> QED
      BY <1>2, <2>3, <3>1, Ends
  <2> QED
    BY <2>2, <2>3
<1>8. \/ /\ request'[r].step = "reply" /\ request'[r].pair = t /\ request'[r].session = s
         /\ request'[r].user = u /\ request'[r].kind = request[r].kind
         /\ request'[r].browser = request[r].browser /\ request'[r].web = request[r].web
         /\ request'[r] # Idle
      \/ /\ request'[r] = Idle /\ ~request[r].web /\ request'[r].step = "idle"
         /\ request'[r].session = 0 /\ request'[r].pair = 0
  <2>1. CASE request'[r] = k
    <3>1. /\ k.step = "reply" /\ k.pair = t /\ k.session = s /\ k.user = u
          /\ k.kind = request[r].kind /\ k.browser = request[r].browser
          /\ k.web = request[r].web
      BY <1>3 DEF Request
    <3>2. request'[r] # Idle
      <4>1. Idle.step = "idle"
        BY DEF Idle
      <4> HIDE DEF k
      <4> QED
        BY <2>1, <3>1, <4>1
    <3> QED
      BY <2>1, <3>1, <3>2
  <2>2. CASE request'[r] = Idle /\ ~request[r].web
    BY <2>2 DEF Idle
  <2> QED
    BY <1>7, <2>1, <2>2
<1>9. Typed'
  BY <1>1, <1>2, <1>5, <1>7 DEF Typed
<1>10. TokensOK'
  <2>1. \A j \in TokenIds : Issued(j)' =>
          tokens'[j].user \in Accounts /\ tokens'[j].issuedAt <= now' /\ tokens'[j].parent < j
    <3>1. s < t
      BY <1>3, <1>6 DEF TokenIds
    <3> QED
      BY <1>2, <1>3, <1>5, <1>6, <3>1 DEF TokensOK
  <2>2. \A j, l \in TokenIds : j < l /\ Issued(l)' => Issued(j)'
    <3>1. \A j \in TokenIds : j < t => Issued(j)
      BY <1>1, SessionsAssumption DEF Issued, TokenIds
    <3> QED
      BY <1>2, <1>6, <3>1 DEF TokensOK
  <2>3. \A j \in redis' : Issued(j)'
    BY <1>1, <1>2, <1>6 DEF TokensOK, Typed
  <2> QED
    BY <2>1, <2>2, <2>3 DEF TokensOK
<1>11. ASSUME NEW j \in Numbers, j # 0, Issued(j) PROVE tokens'[j] # NoToken /\ j # t
  BY <1>6, <1>11 DEF Numbers, TokenIds, Issued
<1>12. \A b \in Browsers : CookieOK(cookies[b])'
  <2>1. \A b \in Browsers : cookies[b] \in Cookie /\ CookieOK(cookies[b])
    BY DEF SessionsInv, Typed
  <2> QED
    BY <1>2, <1>11, <2>1 DEF CookieOK, Cookie, Issued
<1>13. ASSUME NEW q \in Requests PROVE RequestOK(request[q])'
  <2>1. CASE q = r
    <3>1. s # 0 => tokens'[s] # NoToken
      BY <1>3, <1>11
    <3>3. CASE request'[r] = Idle
      BY <2>1, <3>3, IdleRequest DEF RequestOK, Idle
    <3>4. CASE request'[r] # Idle
      BY <1>1, <1>3, <1>8, <2>1, <3>1, <3>4 DEF RequestOK, Issued
    <3> QED
      BY <3>3, <3>4
  <2>2. CASE q # r
    <3>1. request'[q] = request[q] /\ RequestOK(request[q]) /\ request[q].session \in Numbers
      BY <1>2, <1>7, <2>2 DEF OthersWait, SessionsInv, Typed, Request
    <3>2. request[q].session # 0 => tokens'[request[q].session] # NoToken
      BY <1>11, <3>1 DEF RequestOK
    <3>3. \A j \in redis : j \in redis'
      BY <1>1
    <3> DEFINE g == request[q]
    <3>4. /\ RequestOK(g) /\ request'[q] = g
          /\ (g.session # 0 => tokens'[g.session] # NoToken) /\ (g.pair \in redis => g.pair \in redis')
      BY <3>1, <3>2, <3>3
    <3> HIDE DEF g
    <3> QED
      BY <3>4, ZenonT(40) DEF RequestOK, Issued
  <2> QED
    BY <2>1, <2>2
<1>14. ClosedOK'
  <2> SUFFICES ASSUME NEW v \in Accounts, status[v] = "SUSPENSO"
               PROVE  /\ closedAt[v] <= now
                      /\ \A j \in TokenIds : tokens'[j].user = v => tokens'[j].issuedAt <= closedAt[v]
                      /\ \A q \in Requests :
                           request'[q].step = "issue" /\ request'[q].user = v => closedAt[v] = now
    BY <1>2 DEF ClosedOK, At
  <2>1. /\ closedAt[v] <= now
        /\ \A j \in TokenIds : tokens[j].user = v => tokens[j].issuedAt <= closedAt[v]
        /\ \A q \in Requests : request[q].step = "issue" /\ request[q].user = v => closedAt[v] = now
    BY DEF SessionsInv, ClosedOK, At
  <2>2. \A j \in TokenIds : tokens'[j].user = v => tokens'[j].issuedAt <= closedAt[v]
    <3>1. u = v => closedAt[v] = now
      BY <1>2, <2>1 DEF At
    <3>2. now <= now
      BY <1>3
    <3> QED
      BY <1>5, <2>1, <3>1, <3>2
  <2>3. request'[r].step # "issue"
    BY <1>8
  <2> QED
    BY <1>7, <2>1, <2>2, <2>3 DEF OthersWait
<1>15. RotationOK'
  <2> SUFFICES ASSUME NEW x \in TokenIds
               PROVE  /\ x \in redis' => Children(x)' = {} /\ \A q \in Holders(x)' : At(q, "del")'
                      /\ Cardinality(Children(x)') + Cardinality(Holders(x)') <= Cardinality(Requests)
    BY DEF RotationOK
  <2>1. Children(x)' = IF x = s THEN Children(x) \cup {t} ELSE Children(x)
    <3>1. \A j \in TokenIds : j \in Children(x)' <=> j \in Children(x) \/ (j = t /\ x = s)
      BY <1>1, <1>4, <1>5 DEF Children, NoToken
    <3>2. Children(x) \subseteq TokenIds /\ Children(x)' \subseteq TokenIds
      BY DEF Children
    <3> QED
      BY <3>1, <3>2
  <2>2. Holders(x)' = Holders(x) \ {r} /\ (r \in Holders(x) <=> x = s)
    <3>1. \A q \in Requests : q \in Holders(x)' <=> q \in Holders(x) /\ q # r
      BY <1>7, <1>8 DEF Holders, OthersWait, Renewing
    <3> QED
      BY <1>2, <3>1 DEF Holders, Renewing, At
  <2>3. /\ x \in redis => Children(x) = {} /\ \A q \in Holders(x) : At(q, "del")
        /\ Cardinality(Children(x)) + Cardinality(Holders(x)) <= Cardinality(Requests)
    BY DEF SessionsInv, RotationOK
  <2>4. ASSUME x \in redis' PROVE Children(x)' = {} /\ \A q \in Holders(x)' : At(q, "del")'
    <3>1. CASE x = t
      <4>1. x # s
        BY <1>3, <1>11, <3>1
      <4>2. \A j \in TokenIds : Issued(j) => tokens[j].parent # t
        <5>1. ASSUME NEW j \in TokenIds, Issued(j) PROVE tokens[j].parent # t
          <6>1. tokens[j].parent < j /\ j < t /\ tokens[j].parent \in Numbers
            BY <1>2, <1>6, <5>1 DEF TokensOK, Typed, Token
          <6> QED
            BY <6>1, SessionsAssumption DEF Numbers, TokenIds
        <5> QED
          BY <5>1
      <4>3. Children(x) = {}
        BY <3>1, <4>2 DEF Children, Issued
      <4>4. \A q \in Requests : request[q].session # t
        <5>1. ASSUME NEW q \in Requests PROVE request[q].session # t
          <6>1. request[q].session \in Numbers /\ RequestOK(request[q])
            BY <1>2 DEF SessionsInv, Typed, Request
          <6> QED
            BY <1>3, <1>11, <6>1 DEF RequestOK
        <5> QED
          BY <5>1
      <4>5. Holders(x) = {}
        BY <3>1, <4>4 DEF Holders
      <4> QED
        BY <2>1, <2>2, <4>1, <4>3, <4>5
    <3>2. CASE x # t
      <4>1. x \in redis /\ x # s
        BY <1>1, <1>3, <2>4, <3>2 DEF TokenIds
      <4>2. \A q \in Holders(x)' : request'[q] = request[q] /\ q \in Holders(x)
        BY <1>7, <2>2 DEF OthersWait, Holders
      <4> QED
        BY <2>1, <2>3, <4>1, <4>2 DEF At
    <3> QED
      BY <3>1, <3>2
  <2>5. Cardinality(Children(x)') + Cardinality(Holders(x)') <= Cardinality(Requests)
    <3>1. CASE x = s
      <4>1. Cardinality(Children(x)') <= Cardinality(Children(x)) + 1 /\ Cardinality(Children(x)') \in Nat
        <5>1. Children(x)' = Children(x) \cup {t} /\ IsFiniteSet(Children(x))
          BY <2>1, <3>1, ChildrenFinite
        <5>2. Cardinality(Children(x) \cup {t}) =
                IF t \in Children(x) THEN Cardinality(Children(x)) ELSE Cardinality(Children(x)) + 1
          BY <5>1, FS_AddElement
        <5>3. Cardinality(Children(x)) \in Nat
          BY ChildrenFinite
        <5> QED
          BY <5>1, <5>2, <5>3
      <4>2. Cardinality(Holders(x)') = Cardinality(Holders(x)) - 1
        BY <2>2, <3>1, HoldersFinite, FS_RemoveElement
      <4> QED
        BY <2>3, <4>1, <4>2, ChildrenFinite, HoldersFinite
    <3>2. CASE x # s
      <4>1. Children(x)' = Children(x) /\ Holders(x)' = Holders(x)
        BY <2>1, <2>2, <3>2
      <4> QED
        BY <2>3, <4>1
    <3> QED
      BY <3>1, <3>2
  <2> QED
    BY <2>4, <2>5
<1>16. \A q \in Requests : request[q].session # t /\ request[q].pair # t
  <2>1. ASSUME NEW q \in Requests PROVE request[q].session # t /\ request[q].pair # t
    <3>1. request[q] \in Request /\ RequestOK(request[q])
      BY <1>2 DEF SessionsInv, Typed
    <3>2. request[q].pair # t
      BY <1>2, <1>3, <1>6, <3>1 DEF RequestOK, TokensOK
    <3> QED
      BY <1>3, <1>11, <3>1, <3>2 DEF RequestOK, Request
  <2> QED
    BY <2>1
<1>17. \A b \in Browsers : cookies[b].refresh # t
  <2>1. \A b \in Browsers : cookies[b].refresh \in Numbers /\ CookieOK(cookies[b])
    BY <1>2 DEF SessionsInv, Typed, Cookie
  <2> QED
    BY <1>3, <1>11, <2>1 DEF CookieOK
<1>18. Private'
  <2>1. ASSUME NEW p \in Requests, request'[p].step = "reply"
        PROVE  /\ \A b \in Browsers : cookies[b].refresh # request'[p].pair
               /\ \A q \in Requests : request'[q].session # request'[p].pair
               /\ \A q \in Requests \ {p} : request'[q].pair # request'[p].pair
    <3>1. CASE p = r
      BY <1>3, <1>7, <1>8, <1>16, <1>17, <2>1, <3>1 DEF OthersWait
    <3>2. CASE p # r
      <4>1. request'[p] = request[p] /\ At(p, "reply") /\ request[p].pair # 0
        BY <1>7, <2>1, <3>2 DEF OthersWait, At, SessionsInv, RequestOK
      <4>2. /\ \A b \in Browsers : cookies[b].refresh # request[p].pair
            /\ \A q \in Requests : request[q].session # request[p].pair
            /\ \A q \in Requests \ {p} : request[q].pair # request[p].pair
        BY <4>1 DEF SessionsInv, Private
      <4> QED
        BY <1>7, <1>8, <1>16, <4>1, <4>2 DEF OthersWait
    <3> QED
      BY <3>1, <3>2
  <2>2. \A b \in Browsers : cookies[b].refresh # 0 =>
          /\ \A c \in Browsers \ {b} : cookies[c].refresh # cookies[b].refresh
          /\ \A q \in Requests : request'[q].session = cookies[b].refresh => request'[q].browser = b
    <3>1. \A b \in Browsers : cookies[b].refresh # 0 =>
            /\ \A c \in Browsers \ {b} : cookies[c].refresh # cookies[b].refresh
            /\ \A q \in Requests : request[q].session = cookies[b].refresh => request[q].browser = b
      BY DEF SessionsInv, Private
    <3> QED
      BY <1>7, <1>8, <3>1 DEF OthersWait
  <2> QED
    BY <1>2, <2>1, <2>2 DEF Private, At
<1>19. KeptOK'
  <2>1. ASSUME failures' = 0 PROVE failures = 0 /\ request'[r].web
    <3>1. failures = 0 /\ request[r].web
      BY <1>2, <2>1 DEF SessionsInv, KeptOK
    <3> QED
      BY <1>8, <3>1
  <2>2. ASSUME failures' = 0, NEW b \in Browsers, NEW x, WillWrite(request[r], b, x)
        PROVE  WillWrite(request'[r], b, x)
    <3>1. request[r].web
      BY <1>2, <2>2 DEF SessionsInv, KeptOK
    <3> QED
      BY <1>2, <1>8, <2>2, <3>1 DEF WillWrite, At
  <2> QED
    BY <1>1, <1>2, <1>7, <2>1, <2>2, KeptSame
<1> QED
  BY <1>9, <1>10, <1>12, <1>13, <1>14, <1>15, <1>18, <1>19 DEF SessionsInv

--------------------------------------------------------------------------------
(* The environment *)

LEMMA SetStatusKeeps ==
  ASSUME SessionsInv, NEW u \in Accounts, SetStatus(u)
  PROVE  SessionsInv'
<1>1. /\ UNCHANGED <<tokens, redis, cookies, request, now, failures, spentBy>>
      /\ status' \in [Accounts -> {"ATIVO", "SUSPENSO"}] /\ closedAt' \in [Accounts -> Int]
      /\ \A v \in Accounts \ {u} : status'[v] = status[v] /\ closedAt'[v] = closedAt[v]
      /\ status'[u] = "SUSPENSO" => closedAt'[u] = now
  BY SessionsAssumption DEF SetStatus, SessionsInv, Typed
<1>2. Typed' /\ TokensOK'
  BY <1>1 DEF SessionsInv, Typed, TokensOK, Issued
<1>5. RotationOK'
  BY <1>1 DEF SessionsInv, RotationOK, Children, Holders, At
<1>6. Private' /\ KeptOK'
  BY <1>1 DEF SessionsInv, Private, At, KeptOK, WillWrite
<1>3. (\A b \in Browsers : CookieOK(cookies[b])') /\ \A r \in Requests : RequestOK(request[r])'
  BY <1>1 DEF SessionsInv, CookieOK, RequestOK, Issued
<1>4. ClosedOK'
  <2>1. ASSUME NEW v \in Accounts, status'[v] = "SUSPENSO"
        PROVE  /\ closedAt'[v] <= now
               /\ \A t \in TokenIds : tokens[t].user = v => tokens[t].issuedAt <= closedAt'[v]
               /\ \A r \in Requests : At(r, "issue") /\ request[r].user = v => closedAt'[v] = now
    <3>1. CASE v = u
      <4>1. ASSUME NEW t \in TokenIds, tokens[t].user = v PROVE tokens[t].issuedAt <= now
        BY <4>1, SessionsAssumption DEF SessionsInv, TokensOK, Issued, NoToken
      <4>2. now <= now
        BY SessionsAssumption DEF SessionsInv, Typed
      <4> QED
        BY <1>1, <2>1, <3>1, <4>1, <4>2
    <3>2. CASE v # u
      BY <1>1, <2>1, <3>2 DEF SessionsInv, ClosedOK
    <3> QED
      BY <3>1, <3>2
  <2> QED
    BY <1>1, <2>1 DEF ClosedOK, At
<1> QED
  BY <1>2, <1>3, <1>4, <1>5, <1>6 DEF SessionsInv

LEMMA CloseBrowserKeeps ==
  ASSUME SessionsInv, NEW b \in Browsers, CloseBrowser(b)
  PROVE  SessionsInv'
<1>1. /\ UNCHANGED <<status, tokens, redis, request, now, failures, closedAt, spentBy>>
      /\ cookies' \in [Browsers -> Cookie]
      /\ \A c \in Browsers : cookies'[c].refresh = cookies[c].refresh
                             /\ cookies'[c].access \in {0, cookies[c].access}
  <2>1. [cookies[b] EXCEPT !.access = 0] \in Cookie
    BY SessionsAssumption DEF SessionsInv, Typed, Cookie, Numbers
  <2>2. cookies' = [cookies EXCEPT ![b] = [cookies[b] EXCEPT !.access = 0]]
    BY DEF CloseBrowser
  <2> QED
    BY <2>1, <2>2 DEF CloseBrowser, SessionsInv, Typed, Cookie
<1>2. Typed' /\ TokensOK' /\ ClosedOK' /\ RotationOK'
  BY <1>1 DEF SessionsInv, Typed, TokensOK, Issued, ClosedOK, RotationOK, Children, Holders, At
<1>3. \A r \in Requests : RequestOK(request[r])'
  BY <1>1 DEF SessionsInv, RequestOK, Issued
<1>4. \A c \in Browsers : CookieOK(cookies[c])'
  BY <1>1 DEF SessionsInv, CookieOK, Issued
<1>5. Private' /\ KeptOK'
  BY <1>1 DEF SessionsInv, Private, KeptOK, WillWrite, At
<1> QED
  BY <1>2, <1>3, <1>4, <1>5 DEF SessionsInv

\* Nothing is in progress when time passes: there is nothing to renew or to answer.
LEMMA TickKeeps ==
  ASSUME SessionsInv, Tick
  PROVE  SessionsInv'
<1> DEFINE expired == {t \in TokenIds : tokens[t] # NoToken
                                        /\ now + 1 >= tokens[t].issuedAt + REFRESH_TTL}
<1>1. /\ UNCHANGED <<status, tokens, request, failures, closedAt, spentBy>>
      /\ now' = now + 1 /\ now' \in 0 .. MaxTime /\ redis' = redis \ expired
      /\ now \in Nat /\ now <= now' /\ now' \in Nat
      /\ cookies' = [b \in Browsers |->
           IF cookies[b].refresh \in expired THEN [cookies[b] EXCEPT !.refresh = 0] ELSE cookies[b]]
  BY SessionsAssumption DEF Tick, SessionsInv, Typed
<1>2. \A r \in Requests : request[r] = Idle /\ At(r, "idle")
  BY DEF Tick, Quiet, SessionsInv, RequestOK, At
<1> HIDE DEF expired
<1>3. \A b \in Browsers :
        /\ cookies'[b] \in Cookie /\ cookies'[b].access = cookies[b].access
        /\ \/ cookies'[b].refresh = 0
           \/ cookies'[b].refresh = cookies[b].refresh /\ cookies[b].refresh \notin expired
  BY <1>1, SessionsAssumption DEF SessionsInv, Typed, Cookie, Numbers
<1>4. cookies' \in [Browsers -> Cookie]
  BY <1>1, <1>3
<1>5. Typed'
  BY <1>1, <1>4 DEF SessionsInv, Typed
<1>6. TokensOK'
  BY <1>1, TokensSame
<1>7. \A b \in Browsers : CookieOK(cookies[b])'
  BY <1>1, <1>3 DEF SessionsInv, CookieOK, Issued
<1>8. \A r \in Requests : RequestOK(request[r])'
  BY <1>1, <1>2, IdleRequest DEF RequestOK, Idle
<1>9. ClosedOK'
  <2>1. \A u \in Accounts : closedAt[u] \in Int
    BY DEF SessionsInv, Typed
  <2>2. \A u \in Accounts : closedAt[u] <= now => closedAt[u] <= now'
    BY <1>1, <2>1
  <2> QED
    BY <1>1, <1>2, <2>2 DEF SessionsInv, ClosedOK, At
<1>10. RotationOK'
  BY <1>1 DEF SessionsInv, RotationOK, Children, Holders, At
<1>11. Private'
  BY <1>1, <1>2, <1>3 DEF SessionsInv, Private, At, Idle
<1>12. KeptOK'
  BY <1>1, <1>2, <1>3 DEF SessionsInv, KeptOK, WillWrite, Idle
<1> QED
  BY <1>5, <1>6, <1>7, <1>8, <1>9, <1>10, <1>11, <1>12 DEF SessionsInv

--------------------------------------------------------------------------------
(* The theorems *)

LEMMA InitEstablishes ==
  ASSUME Init
  PROVE  SessionsInv
<1>1. /\ \A t \in TokenIds : ~Issued(t)
      /\ \A b \in Browsers : cookies[b] = NoCookies
      /\ \A r \in Requests : request[r] = Idle
  BY DEF Init, Issued
<1>2. Typed
  BY SessionsAssumption, IdleRequest
     DEF Init, Typed, Token, NoToken, Cookie, NoCookies, Numbers, Kinds
<1>3. TokensOK /\ ClosedOK
  BY <1>1 DEF Init, TokensOK, ClosedOK
<1>4. /\ \A b \in Browsers : CookieOK(cookies[b])
      /\ \A r \in Requests : RequestOK(request[r])
  BY <1>1, IdleRequest DEF CookieOK, NoCookies
<1>5. RotationOK
  <2> SUFFICES ASSUME NEW t \in TokenIds
               PROVE  Cardinality(Children(t)) + Cardinality(Holders(t)) <= Cardinality(Requests)
    BY DEF RotationOK, Init
  <2>1. Children(t) = {} /\ Holders(t) = {}
    BY <1>1 DEF Children, Holders, Issued, Renewing, Idle
  <2> QED
    BY <2>1, FS_EmptySet, HoldersFinite
<1>6. Private /\ KeptOK
  BY <1>1 DEF Private, KeptOK, NoCookies, Idle, At
<1> QED
  BY <1>2, <1>3, <1>4, <1>5, <1>6 DEF SessionsInv

LEMMA NextKeeps ==
  ASSUME SessionsInv, [Next]_vars
  PROVE  SessionsInv'
<1>1. CASE UNCHANGED vars
  <2>1. UNCHANGED <<status, tokens, redis, cookies, request, now, failures, closedAt, spentBy>>
    BY <1>1 DEF vars
  <2>2. Typed' /\ TokensOK' /\ ClosedOK'
    BY <2>1 DEF SessionsInv, Typed, TokensOK, Issued, ClosedOK, At
  <2>3. (\A b \in Browsers : CookieOK(cookies[b])') /\ \A r \in Requests : RequestOK(request[r])'
    BY <2>1 DEF SessionsInv, CookieOK, RequestOK, Issued
  <2>4. RotationOK'
    BY <2>1 DEF SessionsInv, RotationOK, Children, Holders, At
  <2>5. Private' /\ KeptOK'
    BY <2>1 DEF SessionsInv, Private, At, KeptOK, WillWrite
  <2> QED
    BY <2>2, <2>3, <2>4, <2>5 DEF SessionsInv
<1>2. ASSUME NEW r \in Requests,
             \/ Reply(r) \/ Refused(r) \/ Clear(r) \/ Timeout(r) \/ GetRefresh(r) \/ DelRefresh(r)
             \/ FindUser(r) \/ Issue(r) \/ Revoke(r) \/ Failure(r)
      PROVE  SessionsInv'
  BY <1>2, ReplyKeeps, RefusedKeeps, ClearKeeps, TimeoutKeeps, GetRefreshKeeps, DelRefreshKeeps,
     FindUserKeeps, IssueKeeps, RevokeKeeps, FailureKeeps
<1>3. ASSUME NEW r \in Requests, NEW b \in Browsers,
             \/ Logout(r, b)
             \/ \E kind \in {"page", "post"} : Authenticated(r, b, kind)
             \/ \E u \in Accounts : Login(r, b, u)
      PROVE  SessionsInv'
  BY <1>3, LogoutKeeps, AuthenticatedKeeps, LoginKeeps
<1> QED
  BY <1>1, <1>2, <1>3, SetStatusKeeps, CloseBrowserKeeps, TickKeeps DEF Next

\* What each request in progress has done, with the rows it read: the invariant
\* that the properties of the sessions rest on.
THEOREM SessionsInvariance == Spec => []SessionsInv
<1>1. Init => SessionsInv
  BY InitEstablishes
<1>2. SessionsInv /\ [Next]_vars => SessionsInv'
  BY NextKeeps
<1> QED
  BY <1>1, <1>2, PTL DEF Spec

\* Every variable keeps its type, every cookie and every key in Redis is of a pair
\* that was issued, and a pair renews an earlier one.
THEOREM SessionsTypeCorrect == Spec => []TypeOK
<1>1. SessionsInv => TypeOK
  <2> SUFFICES ASSUME SessionsInv PROVE TypeOK
    OBVIOUS
  <2>1. \A t \in TokenIds : tokens[t] # NoToken =>
          /\ tokens[t].user \in Accounts /\ tokens[t].issuedAt \in 0 .. now
          /\ tokens[t].parent \in 0 .. t - 1
    BY SessionsAssumption DEF SessionsInv, Typed, TokensOK, Issued, Token, Numbers, TokenIds
  <2>2. \A b \in Browsers :
          /\ \A t \in {cookies[b].access, cookies[b].refresh} : t # 0 => tokens[t] # NoToken
          /\ getSession(b) # 0 => cookies[b].access = cookies[b].refresh
    BY DEF SessionsInv, CookieOK, Issued, getSession
  <2>3. \A r \in Requests :
          /\ request[r].step \in Steps
          /\ request[r].step # "idle" =>
               request[r].kind \in Kinds /\ request[r].browser \in Browsers
    BY DEF SessionsInv, Typed, Request, RequestOK
  <2> QED
    BY <2>1, <2>2, <2>3 DEF SessionsInv, Typed, TokensOK, Issued, TypeOK, Steps
<1> QED
  BY <1>1, SessionsInvariance, PTL

\* assertActive at every renewal: once the time of an access token has passed, a
\* suspended account has no valid one, however many requests, browsers and pairs.
THEOREM SuspendedIsOutSoonAlways == Spec => []SuspendedIsOutSoon
<1>1. SessionsInv => SuspendedIsOutSoon
  <2> SUFFICES ASSUME SessionsInv, NEW u \in Accounts, status[u] = "SUSPENSO",
                      now >= closedAt[u] + ACCESS_TTL, NEW t \in TokenIds, tokens[t].user = u
               PROVE  ~accessValid(t)
    BY DEF SuspendedIsOutSoon
  <2>1. tokens[t].issuedAt <= closedAt[u]
    BY DEF SessionsInv, ClosedOK
  <2>2. tokens[t].issuedAt \in Nat /\ closedAt[u] \in Int /\ now \in Nat
    BY SessionsAssumption DEF SessionsInv, Typed, Token
  <2> QED
    BY <2>1, <2>2, SessionsAssumption DEF accessValid
<1> QED
  BY <1>1, SessionsInvariance, PTL

\* A refresh token is renewed at most once by each of the requests that run at a
\* time, and never again: consumeRefresh deletes what it read.
THEOREM RotatedAtEachUseAlways == Spec => []RotatedAtEachUse
<1>1. SessionsInv => RotatedAtEachUse
  <2> SUFFICES ASSUME SessionsInv, NEW t \in TokenIds
               PROVE  Cardinality(Children(t)) <= Cardinality(Requests)
    BY DEF RotatedAtEachUse, Children
  <2>1. Cardinality(Children(t)) + Cardinality(Holders(t)) <= Cardinality(Requests)
    BY DEF SessionsInv, RotationOK
  <2> QED
    BY <2>1, HoldersFinite, ChildrenFinite
<1> QED
  BY <1>1, SessionsInvariance, PTL

\* While nothing fails, the only refresh token in a cookie that cannot be used any
\* more is one that the render of a page consumed (persistBestEffort).
THEOREM LostOnlyToPagesAlways == Spec => []LostOnlyToPages
<1>1. SessionsInv => LostOnlyToPages
  <2> SUFFICES ASSUME SessionsInv, Quiet, failures = 0, NEW b \in Browsers, cookies[b].refresh # 0
               PROVE  cookies[b].refresh \in redis \/ spentBy[cookies[b].refresh] = "page"
    BY DEF LostOnlyToPages
  <2>1. \A r \in Requests : ~WillWrite(request[r], b, cookies[b].refresh)
    BY DEF Quiet, At, WillWrite
  <2> QED
    BY <2>1 DEF SessionsInv, KeptOK
<1> QED
  BY <1>1, SessionsInvariance, PTL

================================================================================
