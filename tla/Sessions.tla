-------------------------------- MODULE Sessions --------------------------------
(***************************************************************************)
(* The sessions of ObraCerta: the pair of tokens the API issues and        *)
(* rotates, and the web server that keeps the pair in the browser's        *)
(* cookies and renews it when the access token has expired.                *)
(*                                                                         *)
(* A pair is one number: its access token is a signed JWT, good for        *)
(* ACCESS_TTL whatever happens; its refresh token is a key in Redis, good  *)
(* for REFRESH_TTL and for one use.  A request carries it through three    *)
(* calls of Redis and one of the database, none of them in a transaction.  *)
(* Time advances between requests only: they take seconds.                 *)
(***************************************************************************)
EXTENDS Integers, FiniteSets

CONSTANTS
  Accounts,
  Browsers,
  Requests,      \* names for the requests of a browser in progress
  MaxTokens,     \* bound: pairs issued
  MaxTime,       \* bound: the last instant
  MaxFailures,   \* bound: calls that throw, processes that die, timeouts
  ACCESS_TTL,    \* JWT_ACCESS_TTL
  REFRESH_TTL    \* JWT_REFRESH_TTL_DAYS, and the maxAge of the refresh cookie

ASSUME SessionsAssumption ==
  /\ "none" \notin Accounts /\ IsFiniteSet(Requests)
  /\ MaxTokens \in Nat /\ MaxTime \in Nat /\ MaxFailures \in Nat
  /\ ACCESS_TTL \in Nat /\ REFRESH_TTL \in Nat

VARIABLES
  status,     \* of the accounts: "ATIVO" or "SUSPENSO"
  tokens,     \* the pairs issued: user, issuedAt and parent, the pair renewed
  redis,      \* pairs whose refresh token is a live key
  cookies,    \* of each browser: access and refresh, 0 for no cookie
  request,    \* the requests in progress
  now, failures,
  closedAt,   \* history: when the account was last suspended, -1 for never
  spentBy     \* history: the kind of request that consumed a refresh token

vars == <<status, tokens, redis, cookies, request, now, failures, closedAt, spentBy>>

TokenIds == 1 .. MaxTokens
NoCookies == [access |-> 0, refresh |-> 0]
NoToken == [user |-> "none", issuedAt |-> 0, parent |-> 0]

Kinds == {"page", "post", "login", "logout"}
\* web: the web server still waits for the answer.
Idle == [step |-> "idle", kind |-> "page", browser |-> "none", session |-> 0,
         user |-> "none", pair |-> 0, web |-> TRUE]

\* getSession: both cookies or no session at all.
getSession(b) ==
  IF cookies[b].access # 0 /\ cookies[b].refresh # 0 THEN cookies[b].refresh ELSE 0

TypeOK ==
  /\ status \in [Accounts -> {"ATIVO", "SUSPENSO"}]
  /\ redis \subseteq {t \in TokenIds : tokens[t] # NoToken}
  /\ \A t \in TokenIds :
       tokens[t] # NoToken =>
         /\ tokens[t].user \in Accounts /\ tokens[t].issuedAt \in 0 .. now
         /\ tokens[t].parent \in 0 .. t - 1
  /\ \A b \in Browsers :
       /\ \A t \in {cookies[b].access, cookies[b].refresh} : t # 0 => tokens[t] # NoToken
       /\ getSession(b) # 0 => cookies[b].access = cookies[b].refresh
  /\ \A r \in Requests :
       /\ request[r].step \in {"idle", "get", "del", "find", "issue", "reply", "refused",
                               "revoke", "clear"}
       /\ request[r].step # "idle" =>
            request[r].kind \in Kinds /\ request[r].browser \in Browsers
  /\ now \in 0 .. MaxTime /\ failures \in 0 .. MaxFailures

Init ==
  /\ status = [u \in Accounts |-> "ATIVO"]
  /\ tokens = [t \in TokenIds |-> NoToken]
  /\ redis = {}
  /\ cookies = [b \in Browsers |-> NoCookies]
  /\ request = [r \in Requests |-> Idle]
  /\ now = 0 /\ failures = 0
  /\ closedAt = [u \in Accounts |-> -1]
  /\ spentBy = [t \in TokenIds |-> "none"]

At(r, step) == request[r].step = step
Goto(r, step) == request' = [request EXCEPT ![r].step = step]
Finish(r) == request' = [request EXCEPT ![r] = Idle]
Quiet == \A r \in Requests : At(r, "idle")

accessValid(t) == now < tokens[t].issuedAt + ACCESS_TTL

--------------------------------------------------------------------------------
(* The web server *)

\* serverApi, from the render of a page or from a route handler, when the API
\* answers 401.  With a valid access token nothing of the session changes.
Authenticated(r, b, kind) ==
  /\ At(r, "idle") /\ kind \in {"page", "post"}
  /\ getSession(b) # 0 /\ ~accessValid(getSession(b))
  /\ request' = [request EXCEPT ![r] =
       [Idle EXCEPT !.step = "get", !.kind = kind, !.browser = b, !.session = getSession(b)]]
  /\ UNCHANGED <<status, tokens, redis, cookies, now, failures, closedAt, spentBy>>

\* The routes that sign in, once the API has recognised the user.
Login(r, b, u) ==
  /\ At(r, "idle")
  /\ request' = [request EXCEPT ![r] =
       [Idle EXCEPT !.step = "find", !.kind = "login", !.browser = b, !.user = u]]
  /\ UNCHANGED <<status, tokens, redis, cookies, now, failures, closedAt, spentBy>>

Logout(r, b) ==
  /\ At(r, "idle") /\ cookies[b] # NoCookies
  /\ request' = [request EXCEPT ![r] =
       [Idle EXCEPT !.step = IF getSession(b) # 0 THEN "revoke" ELSE "clear",
                    !.kind = "logout", !.browser = b, !.session = getSession(b)]]
  /\ UNCHANGED <<status, tokens, redis, cookies, now, failures, closedAt, spentBy>>

\* Mutated: the renewed pair is never written back.
ReplyNotPersisted(r) ==
  /\ At(r, "reply")
  /\ cookies' = IF request[r].kind # "login" THEN cookies
                ELSE [cookies EXCEPT ![request[r].browser] =
                        [access |-> request[r].pair, refresh |-> request[r].pair]]
  /\ Finish(r)
  /\ UNCHANGED <<status, tokens, redis, now, failures, closedAt, spentBy>>

\* Mutated: the renewal writes the access cookie alone.
ReplyAccessOnly(r) ==
  /\ At(r, "reply")
  /\ cookies' = IF request[r].kind = "page" THEN cookies
                ELSE [cookies EXCEPT ![request[r].browser].access = request[r].pair,
                                     ![request[r].browser].refresh =
                        IF request[r].kind = "login" THEN request[r].pair ELSE @]
  /\ Finish(r)
  /\ UNCHANGED <<status, tokens, redis, now, failures, closedAt, spentBy>>

\* persistBestEffort and setSessionCookies: a page that renders cannot write cookies
\* and goes on with a pair that nobody keeps.
Reply(r) ==
  /\ At(r, "reply")
  /\ cookies' = IF request[r].kind = "page" THEN cookies
                ELSE [cookies EXCEPT ![request[r].browser] =
                        [access |-> request[r].pair, refresh |-> request[r].pair]]
  /\ Finish(r)
  /\ UNCHANGED <<status, tokens, redis, now, failures, closedAt, spentBy>>

\* No renewal: clearSessionCookies, which throws in a page; signing in only answers
\* with the error.
Refused(r) ==
  /\ At(r, "refused")
  /\ cookies' = IF request[r].kind # "post" THEN cookies
                ELSE [cookies EXCEPT ![request[r].browser] = NoCookies]
  /\ Finish(r)
  /\ UNCHANGED <<status, tokens, redis, now, failures, closedAt, spentBy>>

\* The end of a logout, also when the call of the API failed.
Clear(r) ==
  /\ At(r, "clear")
  /\ cookies' = [cookies EXCEPT ![request[r].browser] = NoCookies]
  /\ Finish(r)
  /\ UNCHANGED <<status, tokens, redis, now, failures, closedAt, spentBy>>

\* API_TIMEOUT_MS: the web server stops waiting for an answer; for its browser the
\* call failed, and the API does not notice.
Timeout(r) ==
  LET abandoned == [request EXCEPT ![r].web = FALSE]
      b == request[r].browser
  IN
  /\ request[r].step \in {"get", "del", "find", "issue", "revoke"} /\ request[r].web
  /\ failures < MaxFailures /\ failures' = failures + 1
  /\ request' = abandoned
  /\ cookies' = IF request[r].kind \in {"post", "logout"}
                THEN [cookies EXCEPT ![b] = NoCookies] ELSE cookies
  /\ UNCHANGED <<status, tokens, redis, now, closedAt, spentBy>>

--------------------------------------------------------------------------------
(* The API *)

\* The answer of the API, which an abandoned call no longer waits for.
Answer(r, step) == IF request[r].web THEN Goto(r, step) ELSE Finish(r)

\* consumeRefresh, the read
GetRefresh(r) ==
  /\ At(r, "get")
  /\ IF request[r].session \in redis THEN Goto(r, "del") ELSE Answer(r, "refused")
  /\ UNCHANGED <<status, tokens, redis, cookies, now, failures, closedAt, spentBy>>

\* Mutated: the key is read and not consumed.
DelRefreshKept(r) ==
  /\ At(r, "del")
  /\ request' = [request EXCEPT ![r].step = "find", ![r].user = tokens[request[r].session].user]
  /\ UNCHANGED <<status, tokens, redis, cookies, now, failures, closedAt, spentBy>>

\* consumeRefresh, the delete: it does not ask whether the key was still there.
DelRefresh(r) ==
  LET t == request[r].session IN
  /\ At(r, "del")
  /\ redis' = redis \ {t}
  /\ spentBy' = [spentBy EXCEPT ![t] = IF t \in redis THEN request[r].kind ELSE @]
  /\ request' = [request EXCEPT ![r].step = "find", ![r].user = tokens[t].user]
  /\ UNCHANGED <<status, tokens, cookies, now, failures, closedAt>>

\* Mutated: a renewal does not ask for the status of the account.
FindUserUnchecked(r) ==
  /\ At(r, "find")
  /\ Goto(r, "issue")
  /\ UNCHANGED <<status, tokens, redis, cookies, now, failures, closedAt, spentBy>>

\* findById and assertActive
FindUser(r) ==
  /\ At(r, "find")
  /\ IF status[request[r].user] = "ATIVO" THEN Goto(r, "issue") ELSE Answer(r, "refused")
  /\ UNCHANGED <<status, tokens, redis, cookies, now, failures, closedAt, spentBy>>

Issue(r) ==
  /\ At(r, "issue")
  /\ \E t \in TokenIds :
       /\ tokens[t] = NoToken /\ \A k \in 1 .. t - 1 : tokens[k] # NoToken
       /\ tokens' = [tokens EXCEPT ![t] =
            [user |-> request[r].user, issuedAt |-> now, parent |-> request[r].session]]
       /\ redis' = redis \cup {t}
       /\ request' = IF request[r].web
            THEN [request EXCEPT ![r].step = "reply", ![r].pair = t]
            ELSE [request EXCEPT ![r] = Idle]
  /\ UNCHANGED <<status, cookies, now, failures, closedAt, spentBy>>

Revoke(r) ==
  LET t == request[r].session IN
  /\ At(r, "revoke")
  /\ redis' = redis \ {t}
  /\ spentBy' = [spentBy EXCEPT ![t] = IF t \in redis THEN "logout" ELSE @]
  /\ Answer(r, "clear")
  /\ UNCHANGED <<status, tokens, cookies, now, failures, closedAt>>

--------------------------------------------------------------------------------
(* The environment *)

\* Moderation stamps the status of the account.
SetStatus(u) ==
  /\ status' = [status EXCEPT ![u] = IF @ = "ATIVO" THEN "SUSPENSO" ELSE "ATIVO"]
  /\ closedAt' = IF status[u] = "ATIVO" THEN [closedAt EXCEPT ![u] = now] ELSE closedAt
  /\ UNCHANGED <<tokens, redis, cookies, request, now, failures, spentBy>>

\* The access cookie has no maxAge: it goes with the browser's session.
CloseBrowser(b) ==
  /\ cookies[b].access # 0
  /\ cookies' = [cookies EXCEPT ![b].access = 0]
  /\ UNCHANGED <<status, tokens, redis, request, now, failures, closedAt, spentBy>>

\* An instant passes: keys in Redis and refresh cookies reach their window; the access
\* cookie stays while the browser is open.
Tick ==
  LET expired == {t \in TokenIds : tokens[t] # NoToken
                                   /\ now + 1 >= tokens[t].issuedAt + REFRESH_TTL}
  IN
  /\ Quiet /\ now < MaxTime
  /\ now' = now + 1
  /\ redis' = redis \ expired
  /\ cookies' = [b \in Browsers |->
       IF cookies[b].refresh \in expired THEN [cookies[b] EXCEPT !.refresh = 0] ELSE cookies[b]]
  /\ UNCHANGED <<status, tokens, request, failures, closedAt, spentBy>>

\* A call throws, or a process dies, with the request: its answer is an error, which
\* renews nothing, ends a logout all the same and does not reach a closed browser.
Failure(r) ==
  /\ ~At(r, "idle")
  /\ failures < MaxFailures /\ failures' = failures + 1
  /\ \/ Finish(r)
     \/ /\ request[r].step \in {"get", "del", "find", "issue"} /\ request[r].web
        /\ Goto(r, "refused")
     \/ At(r, "revoke") /\ request[r].web /\ Goto(r, "clear")
  /\ UNCHANGED <<status, tokens, redis, cookies, now, closedAt, spentBy>>

Next ==
  \/ \E r \in Requests :
       \/ Reply(r) \/ Refused(r) \/ Clear(r) \/ Timeout(r) \/ GetRefresh(r) \/ DelRefresh(r)
       \/ FindUser(r) \/ Issue(r) \/ Revoke(r) \/ Failure(r)
       \/ \E b \in Browsers :
            \/ Logout(r, b)
            \/ \E kind \in {"page", "post"} : Authenticated(r, b, kind)
            \/ \E u \in Accounts : Login(r, b, u)
  \/ \E u \in Accounts : SetStatus(u)
  \/ \E b \in Browsers : CloseBrowser(b)
  \/ Tick

Spec == Init /\ [][Next]_vars

--------------------------------------------------------------------------------
(* Properties *)

\* assertActive at every renewal, and at no other call (JwtAuthGuard asks for the
\* JWT alone): a suspended account has no valid access token once the time of one
\* has passed since it was suspended, although its refresh tokens stay in Redis.
SuspendedIsOutSoon ==
  \A u \in Accounts :
    status[u] = "SUSPENSO" /\ now >= closedAt[u] + ACCESS_TTL =>
      \A t \in TokenIds : tokens[t].user = u => ~accessValid(t)

\* "O refresh é rotacionado a cada uso" (token.service.ts): the read and the delete
\* are two calls, so requests in progress at once may each renew the same pair, and
\* no request after them.
RotatedAtEachUse ==
  \A t \in TokenIds :
    Cardinality({k \in TokenIds : tokens[k] # NoToken /\ tokens[k].parent = t})
      <= Cardinality(Requests)

\* When nothing failed and no request is in progress, a browser that kept a refresh
\* token inside its window can still use it, unless it was a page that consumed it:
\* route handlers either write the renewed pair back or clear both cookies, also
\* when requests of two sessions overlap in the same browser.
LostOnlyToPages ==
  Quiet /\ failures = 0 =>
    \A b \in Browsers :
      LET t == cookies[b].refresh IN t # 0 => t \in redis \/ spentBy[t] = "page"

--------------------------------------------------------------------------------
(* What the documentation says and the code does not keep *)

\* "Janela do refresh token (30 dias) — o access é renovado a partir dele"
\* (session.ts): when nothing failed and no account was suspended, the refresh token
\* in a browser's cookie is good for a renewal as long as its cookie lasts.
SessionIsKept ==
  Quiet /\ failures = 0 /\ (\A u \in Accounts : closedAt[u] = -1) =>
    \A b \in Browsers : cookies[b].refresh # 0 => cookies[b].refresh \in redis

================================================================================
