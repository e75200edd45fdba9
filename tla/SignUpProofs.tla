------------------------------ MODULE SignUpProofs ------------------------------
(***************************************************************************)
(* Proofs about signing up, for any number of windows, handlers, codes and *)
(* failures: no window runs ahead of the account, and a window that asks   *)
(* for the profile of a verified number can send it.                       *)
(*                                                                         *)
(* An answer may come when the window has moved on, so what makes the      *)
(* properties inductive is what each request carries: which steps it may   *)
(* be at, which steps of the page its answer leads to, and what it has     *)
(* already made true.  The account and the subscription are never taken    *)
(* back, nor is it that the person has been signed in, so an answer may be *)
(* late.                                                                   *)
(***************************************************************************)
EXTENDS SignUp, FiniteSetTheorems, TLAPS

\* The person is signed in, or was until a session ended.
Entered == signedIn \/ signedOut

\* What is true of a request: its calls, where its answer leads and what it has made.
RequestOK(w) ==
  LET op == task[w].op
      step == task[w].step
      to == task[w].to
  IN
  /\ op = "idle" => step = "idle"
  /\ op # "idle" => task[w].tab \in Tabs
  /\ op = "request" => step \in {"setCode", "delAttempts", "reply"} /\ to = "codigo"
  /\ op = "verify" =>
       /\ step \in {"getCode", "incr", "delCode", "delBoth", "setVerified", "findUser", "reply"}
       /\ to \in {"perfil", "inicio"}
  /\ op = "cadastro" =>
       step \in {"consume", "insert", "profile", "reply"} /\ to \in {"especialidades", "inicio"}
  /\ op = "register" =>
       step \in {"insert", "profile", "reply"} /\ to \in {"plano", "inicio"}
  /\ op \in {"cadastro", "register"} /\ step = "reply" => account = "profile"
  /\ op = "atuacao" => step = "reply" /\ to = "plano" /\ Entered /\ account = "profile"
  /\ op = "subscribe" =>
       /\ step \in {"findActive", "create", "reply"} /\ to = "pronto"
       /\ Entered /\ account = "profile"
       /\ step = "reply" => subscribed

\* What a window shows is so.
PageOK(t) ==
  /\ page[t].step \in {"especialidades", "plano", "cartao", "pronto"} =>
       Entered /\ account = "profile"
  /\ page[t].step = "pronto" => subscribed

\* The inductive invariant.
WizardInv ==
  /\ TypeOK
  /\ \A w \in Workers : RequestOK(w)
  /\ \A t \in Tabs : PageOK(t)

--------------------------------------------------------------------------------
(* Moves *)

OthersWait(w) == \A v \in Workers \ {w} : task'[v] = task[v]

\* The account, the subscription and having been signed in are never taken back.
Kept ==
  /\ account = "profile" => account' = "profile"
  /\ subscribed => subscribed'
  /\ Entered => Entered'

LEMMA Moves ==
  ASSUME TypeOK, NEW w \in Workers
  PROVE  /\ \A k \in Task : Start(w, k) =>
              task' \in [Workers -> Task] /\ OthersWait(w) /\ task'[w] = k
         /\ \A step \in Steps : Goto(w, step) =>
              /\ task' \in [Workers -> Task] /\ OthersWait(w)
              /\ task'[w] = [task[w] EXCEPT !.step = step]
BY SMTT(30) DEF TypeOK, Start, Goto, Task, OthersWait

LEMMA IdleTask == Idle \in Task
BY DEF Idle, Doing, Task, Ops, Steps, PageSteps, Codes

\* A step of one request that takes nothing back, after which its request and its
\* window are so.
LEMMA RequestMoves ==
  ASSUME WizardInv, NEW w \in Workers, TypeOK', OthersWait(w), Kept, RequestOK(w)',
         \A t \in Tabs : page'[t].step = page[t].step \/ PageOK(t)'
  PROVE  WizardInv'
<1>1. ASSUME NEW v \in Workers PROVE RequestOK(v)'
  BY DEF WizardInv, OthersWait, RequestOK, Kept
<1>2. ASSUME NEW t \in Tabs PROVE PageOK(t)'
  BY DEF WizardInv, PageOK, Kept
<1> QED
  BY <1>1, <1>2 DEF WizardInv

\* The page of a request that is refused or that goes on to another step.
LEMMA RefusedPage ==
  ASSUME WizardInv, NEW w \in Workers, Refused(w)
  PROVE  /\ page' \in [Tabs -> [form : Methods, step : PageSteps, loading : BOOLEAN]]
         /\ \A t \in Tabs : page'[t].step = page[t].step
         /\ task' \in [Workers -> Task] /\ OthersWait(w) /\ task'[w] = Idle
         /\ RequestOK(w)'
<1>1. task' \in [Workers -> Task] /\ OthersWait(w) /\ task'[w] = Idle
  BY Moves, IdleTask DEF WizardInv, Refused
<1>2. RequestOK(w)'
  BY <1>1 DEF RequestOK, Idle, Doing
<1>3. /\ page' \in [Tabs -> [form : Methods, step : PageSteps, loading : BOOLEAN]]
      /\ \A t \in Tabs : page'[t].step = page[t].step
  BY DEF WizardInv, TypeOK, Refused
<1> QED
  BY <1>1, <1>2, <1>3

LEMMA ShownPage ==
  ASSUME TypeOK, NEW t \in Tabs, NEW step \in PageSteps, NEW loading \in BOOLEAN,
         Show(t, step, loading)
  PROVE  /\ page' \in [Tabs -> [form : Methods, step : PageSteps, loading : BOOLEAN]]
         /\ \A u \in Tabs \ {t} : page'[u] = page[u]
         /\ page'[t].step = step
BY DEF TypeOK, Show, Showing

--------------------------------------------------------------------------------
(* The page *)

LEMMA SendStep ==
  ASSUME WizardInv, NEW w \in Workers, NEW t \in Tabs,
         NEW op \in Ops, NEW step \in Steps, NEW typed \in Codes \cup {0}, NEW to \in PageSteps,
         Send(t, w, op, step, typed, to),
         \* what RequestOK asks of the request that is sent
         \/ op = "request" /\ step = "setCode" /\ to = "codigo"
         \/ op = "verify" /\ step = "getCode" /\ to \in {"perfil", "inicio"}
         \/ op = "cadastro" /\ step = "consume" /\ to \in {"especialidades", "inicio"}
         \/ op = "register" /\ step = "insert" /\ to \in {"plano", "inicio"}
         \/ op = "atuacao" /\ step = "reply" /\ to = "plano" /\ Entered /\ account = "profile"
         \/ op = "subscribe" /\ step = "findActive" /\ to = "pronto" /\ Entered
              /\ account = "profile"
  PROVE  WizardInv'
<1> DEFINE k == Doing(op, step, t, typed, 0, "espera", to)
<1>1. k \in Task
  BY DEF Doing, Task
<1>2. task' \in [Workers -> Task] /\ OthersWait(w) /\ task'[w] = k
  BY <1>1, Moves DEF WizardInv, Send
<1>3. page[t].step \in PageSteps
  BY DEF WizardInv, TypeOK
<1>4. /\ page' \in [Tabs -> [form : Methods, step : PageSteps, loading : BOOLEAN]]
      /\ \A u \in Tabs \ {t} : page'[u] = page[u]
      /\ page'[t].step = page[t].step
  BY <1>3, ShownPage DEF WizardInv, Send
<1>5. UNCHANGED <<signedIn, code, attempts, verified, account, subscribed, sent, failures,
                  compared, expired, signedOut>>
  BY DEF Send, redis, history
<1>6. TypeOK'
  BY <1>2, <1>4, <1>5 DEF WizardInv, TypeOK
<1>7. RequestOK(w)'
  BY <1>2, <1>5 DEF RequestOK, Doing, Entered
<1> QED
  BY <1>2, <1>4, <1>5, <1>6, <1>7, RequestMoves DEF Kept, Entered

LEMMA PressStep ==
  ASSUME WizardInv, NEW w \in Workers, NEW t \in Tabs, Press(t, w)
  PROVE  WizardInv'
<1> USE DEF Ops, Steps, PageSteps, Methods
<1>1. CASE RequestOtp(t, w)
  BY <1>1, SendStep DEF RequestOtp
<1>2. CASE Cadastrar(t, w)
  BY <1>2, SendStep DEF Cadastrar
<1>3. CASE Submit(t, w)
  BY <1>3, SendStep DEF Submit
<1>4. CASE SalvarAtuacao(t, w)
  <2>1. account = "profile"
    BY <1>4 DEF SalvarAtuacao, Shows, WizardInv, PageOK
  <2> QED
    BY <1>4, <2>1, SendStep DEF SalvarAtuacao, Entered
<1>5. CASE AssinarComCartao(t, w)
  <2>1. account = "profile"
    BY <1>5 DEF AssinarComCartao, Shows, WizardInv, PageOK
  <2> QED
    BY <1>5, <2>1, SendStep DEF AssinarComCartao, Entered
<1>6. CASE \E typed \in 0 .. sent : VerifyOtp(t, w, typed)
  <2>1. PICK typed \in 0 .. sent : VerifyOtp(t, w, typed)
    BY <1>6
  <2>2. typed \in Codes \cup {0}
    BY SignUpAssumption DEF WizardInv, TypeOK, Codes
  <2> QED
    BY <2>1, <2>2, SendStep DEF VerifyOtp
<1> QED
  BY <1>1, <1>2, <1>3, <1>4, <1>5, <1>6 DEF Press

\* A step of the page alone, to a step that asks for nothing more.
LEMMA PageMoves ==
  ASSUME WizardInv, NEW t \in Tabs,
         page' \in [Tabs -> [form : Methods, step : PageSteps, loading : BOOLEAN]],
         \A u \in Tabs \ {t} : page'[u] = page[u],
         PageOK(t)',
         \A w \in Workers :
           /\ task'[w].op = task[w].op /\ task'[w].step = task[w].step
           /\ task'[w].tab = task[w].tab /\ task'[w].to = task[w].to,
         task' \in [Workers -> Task],
         UNCHANGED <<signedIn, redis, account, subscribed, sent, failures, history>>
  PROVE  WizardInv'
<1>1. UNCHANGED <<signedIn, code, attempts, verified, account, subscribed, sent, failures,
                  compared, expired, signedOut>>
  BY DEF redis, history
<1>2. TypeOK'
  BY <1>1 DEF WizardInv, TypeOK
<1>3. ASSUME NEW w \in Workers PROVE RequestOK(w)'
  BY <1>1 DEF WizardInv, RequestOK, Entered
<1>4. ASSUME NEW u \in Tabs PROVE PageOK(u)'
  BY <1>1 DEF WizardInv, PageOK, Entered
<1> QED
  BY <1>2, <1>3, <1>4 DEF WizardInv

LEMMA LeftTasks ==
  ASSUME TypeOK, NEW t \in Tabs, NEW waits \in {"saiu", "desistiu"}, Left(t, waits)
  PROVE  /\ task' \in [Workers -> Task]
         /\ \A w \in Workers :
              /\ task'[w].op = task[w].op /\ task'[w].step = task[w].step
              /\ task'[w].tab = task[w].tab /\ task'[w].to = task[w].to
              /\ task'[w].stored = task[w].stored
BY DEF TypeOK, Left, Task

LEMMA WindowStep ==
  ASSUME WizardInv, NEW t \in Tabs,
         \/ EscolherPlano(t) \/ OpenPanel(t) \/ Reload(t)
         \/ \E form \in Methods : ChangeMethod(t, form)
  PROVE  WizardInv'
<1>1. CASE EscolherPlano(t)
  <2>1. page[t].step \in {"plano", "cartao"}
    BY <1>1 DEF EscolherPlano, Shows
  <2>2. PICK step \in {"plano", "cartao"} : Show(t, step, FALSE)
    BY <1>1 DEF EscolherPlano
  <2>3. /\ page' \in [Tabs -> [form : Methods, step : PageSteps, loading : BOOLEAN]]
        /\ \A u \in Tabs \ {t} : page'[u] = page[u]
        /\ page'[t].step = step
    BY <2>2, ShownPage DEF WizardInv, PageSteps
  <2>4. task' = task /\ UNCHANGED <<signedIn, redis, account, subscribed, sent, failures, history>>
    BY <1>1 DEF EscolherPlano
  <2>5. PageOK(t)'
    BY <2>1, <2>3, <2>4 DEF WizardInv, PageOK, Entered, history
  <2> QED
    BY <2>3, <2>4, <2>5, PageMoves DEF WizardInv, TypeOK
<1>2. CASE OpenPanel(t)
  <2>1. /\ page' \in [Tabs -> [form : Methods, step : PageSteps, loading : BOOLEAN]]
        /\ \A u \in Tabs \ {t} : page'[u] = page[u]
        /\ page'[t].step = "inicio"
    BY <1>2, ShownPage DEF WizardInv, OpenPanel, PageSteps
  <2>2. task' = task /\ UNCHANGED <<signedIn, redis, account, subscribed, sent, failures, history>>
    BY <1>2 DEF OpenPanel
  <2>3. PageOK(t)'
    BY <2>1 DEF PageOK
  <2> QED
    BY <2>1, <2>2, <2>3, PageMoves DEF WizardInv, TypeOK
<1>3. ASSUME NEW form \in Methods, page' = [page EXCEPT ![t] = Opened(form)]
      PROVE  /\ page' \in [Tabs -> [form : Methods, step : PageSteps, loading : BOOLEAN]]
             /\ \A u \in Tabs \ {t} : page'[u] = page[u]
             /\ PageOK(t)'
  BY <1>3 DEF WizardInv, TypeOK, PageOK, Opened, FirstStep, Showing, PageSteps, Methods
<1>4. CASE Reload(t)
  BY <1>4, <1>3, LeftTasks, PageMoves DEF Reload, WizardInv, Methods
<1>5. CASE \E form \in Methods : ChangeMethod(t, form)
  BY <1>5, <1>3, LeftTasks, PageMoves DEF ChangeMethod, WizardInv
<1> QED
  BY <1>1, <1>2, <1>4, <1>5

LEMMA ReplyStep ==
  ASSUME WizardInv, NEW w \in Workers, Reply(w)
  PROVE  WizardInv'
<1>1. task[w] \in Task /\ RequestOK(w) /\ task[w].step = "reply"
  BY DEF WizardInv, TypeOK, Reply, At
<1>2. task[w].tab \in Tabs /\ task[w].to \in PageSteps
  BY <1>1 DEF RequestOK, Task
<1>3. PICK t \in Tabs : t = task[w].tab
  BY <1>2
<1>4. PICK to \in PageSteps : to = task[w].to
  BY <1>2
<1>5. task' \in [Workers -> Task] /\ OthersWait(w) /\ task'[w] = Idle
  BY Moves, IdleTask DEF WizardInv, Reply
<1>6. /\ UNCHANGED <<code, attempts, verified, account, subscribed, sent, failures, compared,
                     expired, signedOut>>
      /\ signedIn' = (signedIn \/ (task[w].waits # "desistiu" /\ SignsIn(w)))
  BY DEF Reply, redis, history
<1>7. Entered => Entered'
  BY <1>6, Zenon DEF Entered
<1>8. task[w].waits # "desistiu" /\ SignsIn(w) => Entered'
  BY <1>6, Zenon DEF Entered
<1>9. signedIn' \in BOOLEAN
  BY <1>6
<1>10. CASE page' = page
  <2>1. TypeOK'
    BY <1>5, <1>6, <1>10, <1>9 DEF WizardInv, TypeOK
  <2> QED
    BY <1>5, <1>6, <1>10, <1>7, <2>1, RequestMoves DEF Kept, RequestOK, Idle, Doing
<1>11. CASE Show(t, to, FALSE) /\ task[w].waits # "desistiu"
  <2>1. /\ page' \in [Tabs -> [form : Methods, step : PageSteps, loading : BOOLEAN]]
        /\ \A u \in Tabs \ {t} : page'[u] = page[u]
        /\ page'[t].step = to
    BY <1>11, ShownPage DEF WizardInv
  <2>2. TypeOK'
    BY <1>5, <1>6, <1>9, <2>1 DEF WizardInv, TypeOK
  <2>3. task[w].op \in {"cadastro", "register"} => Entered'
    BY <1>11, <1>8 DEF SignsIn
  <2>4. PageOK(t)'
    BY <1>1, <1>3, <1>4, <1>6, <1>7, <2>1, <2>3 DEF PageOK, RequestOK, Task, Ops
  <2> QED
    BY <1>5, <1>6, <1>7, <2>1, <2>2, <2>4, RequestMoves DEF Kept, RequestOK, Idle, Doing
<1>12. page' = page \/ (Show(t, to, FALSE) /\ task[w].waits # "desistiu")
  BY <1>3, <1>4 DEF Reply
<1> QED
  BY <1>10, <1>11, <1>12

--------------------------------------------------------------------------------
(* The handlers *)

LEMMA GoesOn ==
  ASSUME TypeOK, NEW w \in Workers, NEW step \in Steps, Goto(w, step)
  PROVE  /\ task' \in [Workers -> Task] /\ OthersWait(w)
         /\ task'[w].op = task[w].op /\ task'[w].step = step
         /\ task'[w].tab = task[w].tab /\ task'[w].to = task[w].to
<1>1. /\ task' \in [Workers -> Task] /\ OthersWait(w)
      /\ task'[w] = [task[w] EXCEPT !.step = step]
  BY Moves
<1>2. task[w] \in Task
  BY DEF TypeOK
<1> QED
  BY <1>1, <1>2 DEF Task

\* The handlers of a code, none of which touches the account.
LEMMA CodeStep ==
  ASSUME WizardInv, NEW w \in Workers,
         \/ SetCode(w) \/ DelAttempts(w) \/ GetCode(w) \/ Incr(w) \/ DelCode(w) \/ DelBoth(w)
         \/ SetVerified(w) \/ FindUser(w)
  PROVE  WizardInv'
<1> USE DEF At, redis, history, Steps
<1>1. TypeOK /\ RequestOK(w) /\ task[w] \in Task
  BY DEF WizardInv, TypeOK
<1>2. /\ UNCHANGED <<signedIn, account, subscribed, signedOut>>
      /\ page' \in [Tabs -> [form : Methods, step : PageSteps, loading : BOOLEAN]]
      /\ \A t \in Tabs : page'[t].step = page[t].step
  <2>1. UNCHANGED <<signedIn, account, subscribed, signedOut>>
    BY DEF SetCode, DelAttempts, GetCode, Incr, DelCode, DelBoth, SetVerified, FindUser
  <2>2. page' = page \/ Refused(w)
    BY DEF SetCode, DelAttempts, GetCode, Incr, DelCode, DelBoth, SetVerified, FindUser
  <2> QED
    BY <1>1, <2>1, <2>2, RefusedPage DEF TypeOK
<1>3. /\ task' \in [Workers -> Task] /\ OthersWait(w) /\ RequestOK(w)'
  <2>1. CASE Refused(w)
    BY <2>1, RefusedPage
  <2>2. CASE SetCode(w) /\ Goto(w, "delAttempts")
    BY <1>1, <1>2, <2>2, GoesOn DEF SetCode, RequestOK, Task, Ops
  <2>3. CASE DelAttempts(w) /\ Goto(w, "reply")
    BY <1>1, <1>2, <2>3, GoesOn DEF DelAttempts, RequestOK, Task, Ops
  <2>4. CASE GetCode(w) /\ ~Refused(w)
    <3> DEFINE k == Doing("verify", "incr", task[w].tab, task[w].typed, code, task[w].waits,
                          task[w].to)
    <3>1. k \in Task
      BY <1>1 DEF Doing, Task, TypeOK, Ops
    <3>2. Start(w, k)
      BY <2>4 DEF GetCode
    <3>3. task' \in [Workers -> Task] /\ OthersWait(w) /\ task'[w] = k
      BY <1>1, <3>1, <3>2, Moves
    <3> QED
      BY <1>1, <1>2, <2>4, <3>3 DEF GetCode, RequestOK, Doing, Task, Ops
  <2>5. CASE Incr(w) /\ Goto(w, "delCode")
    BY <1>1, <1>2, <2>5, GoesOn DEF Incr, RequestOK, Task, Ops
  <2>6. CASE Incr(w) /\ Goto(w, "delBoth")
    BY <1>1, <1>2, <2>6, GoesOn DEF Incr, RequestOK, Task, Ops
  <2>7. CASE DelBoth(w) /\ Goto(w, "setVerified")
    BY <1>1, <1>2, <2>7, GoesOn DEF DelBoth, RequestOK, Task, Ops
  <2>8. CASE SetVerified(w) /\ Goto(w, "findUser")
    BY <1>1, <1>2, <2>8, GoesOn DEF SetVerified, RequestOK, Task, Ops
  <2>9. CASE FindUser(w)
    <3> DEFINE k == Doing("verify", "reply", task[w].tab, task[w].typed, task[w].stored,
                          task[w].waits, IF account = "none" THEN "perfil" ELSE "inicio")
    <3>1. k \in Task
      BY <1>1 DEF Doing, Task, Ops, PageSteps
    <3>2. task' \in [Workers -> Task] /\ OthersWait(w) /\ task'[w] = k
      BY <1>1, <2>9, <3>1, Moves DEF FindUser
    <3> QED
      BY <1>1, <1>2, <2>9, <3>2 DEF FindUser, RequestOK, Doing, Task, Ops
  <2> QED
    BY <2>1, <2>2, <2>3, <2>4, <2>5, <2>6, <2>7, <2>8, <2>9
       DEF SetCode, DelAttempts, GetCode, Incr, DelCode, DelBoth, SetVerified
<1>4. TypeOK'
  <2>1. code' \in Codes \cup {0} /\ sent' \in 0 .. MaxCodes
    <3>1. CASE SetCode(w)
      BY <1>1, <3>1, SignUpAssumption DEF TypeOK, Codes, SetCode
    <3>2. CASE ~SetCode(w)
      BY <1>1, <3>2
         DEF TypeOK, DelAttempts, GetCode, Incr, DelCode, DelBoth, SetVerified, FindUser
    <3> QED
      BY <3>1, <3>2
  <2>2. attempts' \in Nat
    BY <1>1
       DEF TypeOK, SetCode, DelAttempts, GetCode, Incr, DelCode, DelBoth, SetVerified, FindUser
  <2>3. verified' \in BOOLEAN /\ failures' = failures /\ expired' = expired
    BY <1>1
       DEF TypeOK, SetCode, DelAttempts, GetCode, Incr, DelCode, DelBoth, SetVerified, FindUser
  <2>4. compared' \in [Codes -> Nat]
    <3>1. \/ compared' = compared
          \/ compared' = [compared EXCEPT ![task[w].stored] = @ + 1]
      BY DEF SetCode, DelAttempts, GetCode, Incr, DelCode, DelBoth, SetVerified, FindUser
    <3> QED
      BY <1>1, <3>1 DEF TypeOK
  <2> QED
    BY <1>1, <1>2, <1>3, <2>1, <2>2, <2>3, <2>4 DEF TypeOK
<1> QED
  BY <1>2, <1>3, <1>4, RequestMoves DEF Kept, Entered

LEMMA AccountStep ==
  ASSUME WizardInv, NEW w \in Workers,
         \/ ConsumeVerified(w) \/ InsertUser(w) \/ CreateProfile(w) \/ FindActive(w)
         \/ CreateSubscription(w)
  PROVE  WizardInv'
<1> USE DEF At, redis, history, Steps
<1>1. TypeOK /\ RequestOK(w) /\ task[w] \in Task
  BY DEF WizardInv, TypeOK
<1>2. /\ UNCHANGED <<signedIn, code, attempts, sent, failures, compared, expired,
                  signedOut>>
      /\ verified' \in BOOLEAN /\ account' \in {"none", "row", "profile"}
      /\ subscribed' \in BOOLEAN /\ Kept
  BY <1>1 DEF TypeOK, Kept, Entered, ConsumeVerified, InsertUser, CreateProfile, FindActive,
              CreateSubscription, history
<1>3. /\ page' \in [Tabs -> [form : Methods, step : PageSteps, loading : BOOLEAN]]
      /\ \A t \in Tabs : page'[t].step = page[t].step
  <2>1. page' = page \/ Refused(w)
    BY DEF ConsumeVerified, InsertUser, CreateProfile, FindActive, CreateSubscription
  <2> QED
    BY <1>1, <2>1, RefusedPage DEF TypeOK
<1>4. /\ task' \in [Workers -> Task] /\ OthersWait(w) /\ RequestOK(w)'
  <2>1. CASE Refused(w)
    BY <2>1, RefusedPage
  <2>2. CASE ConsumeVerified(w) /\ Goto(w, "insert")
    BY <1>1, <1>2, <2>2, GoesOn DEF ConsumeVerified, RequestOK, Task, Ops
  <2>3. CASE InsertUser(w) /\ Goto(w, "profile")
    BY <1>1, <1>2, <2>3, GoesOn DEF InsertUser, RequestOK, Task, Ops
  <2>4. CASE CreateProfile(w) /\ Goto(w, "reply")
    BY <1>1, <1>2, <2>4, GoesOn DEF CreateProfile, RequestOK, Task, Ops
  <2>5. CASE FindActive(w) /\ Goto(w, "create")
    BY <1>1, <1>2, <2>5, GoesOn DEF FindActive, RequestOK, Task, Ops, Entered
  <2>6. CASE CreateSubscription(w) /\ Goto(w, "reply")
    <3>1. task[w].op = "subscribe" /\ Entered' /\ account' = "profile" /\ subscribed'
      BY <1>1, <1>2, <2>6 DEF CreateSubscription, RequestOK, Task, Ops, Kept
    <3> QED
      BY <1>1, <2>6, <3>1, GoesOn DEF RequestOK
  <2> QED
    BY <2>1, <2>2, <2>3, <2>4, <2>5, <2>6
       DEF ConsumeVerified, InsertUser, CreateProfile, FindActive, CreateSubscription
<1>5. TypeOK'
  BY <1>1, <1>2, <1>3, <1>4 DEF TypeOK
<1> QED
  BY <1>2, <1>3, <1>4, <1>5, RequestMoves

LEMMA FailureStep ==
  ASSUME WizardInv, NEW w \in Workers, GiveUp(w) \/ Failure(w)
  PROVE  WizardInv'
<1> USE DEF redis, history
<1>1. TypeOK /\ RequestOK(w) /\ task[w] \in Task
  BY DEF WizardInv, TypeOK
<1>2. /\ UNCHANGED <<signedIn, code, attempts, verified, account, subscribed, sent, compared,
                     expired, signedOut>>
      /\ failures' \in Nat
  BY <1>1 DEF TypeOK, GiveUp, Failure
<1>3. CASE Failure(w)
  BY <1>1, <1>2, <1>3, RefusedPage, RequestMoves DEF Failure, Kept, Entered, TypeOK
<1>4. CASE GiveUp(w)
  <2>1. /\ page' \in [Tabs -> [form : Methods, step : PageSteps, loading : BOOLEAN]]
        /\ \A t \in Tabs : page'[t].step = page[t].step
    BY <1>1, <1>4 DEF GiveUp, TypeOK
  <2>2. /\ task' \in [Workers -> Task] /\ OthersWait(w)
        /\ task'[w].op = task[w].op /\ task'[w].step = task[w].step
        /\ task'[w].tab = task[w].tab /\ task'[w].to = task[w].to
    BY <1>1, <1>4 DEF GiveUp, TypeOK, Task, OthersWait
  <2>3. RequestOK(w)'
    BY <1>1, <1>2, <2>2 DEF RequestOK, Entered
  <2>4. TypeOK'
    BY <1>1, <1>2, <2>1, <2>2 DEF TypeOK
  <2> QED
    BY <1>2, <2>1, <2>2, <2>3, <2>4, RequestMoves DEF Kept, Entered
<1> QED
  BY <1>3, <1>4

LEMMA ExpireStep ==
  ASSUME WizardInv, Expire
  PROVE  WizardInv'
<1>1. /\ UNCHANGED <<page, signedIn, attempts, account, subscribed, task, sent, failures,
                     compared, signedOut>>
      /\ code' \in Codes \cup {0} /\ verified' \in BOOLEAN /\ expired' \in BOOLEAN
  BY DEF WizardInv, TypeOK, Expire
<1> QED
  BY <1>1 DEF WizardInv, TypeOK, RequestOK, PageOK, Entered

LEMMA EndSessionStep ==
  ASSUME WizardInv, EndSession
  PROVE  WizardInv'
<1>1. /\ UNCHANGED <<page, code, attempts, verified, account, subscribed, task, sent, failures,
                     compared, expired>>
      /\ signedIn' = FALSE /\ signedOut' = TRUE
  BY DEF EndSession, redis
<1>2. Entered'
  BY <1>1 DEF Entered
<1> QED
  BY <1>1, <1>2 DEF WizardInv, TypeOK, RequestOK, PageOK

--------------------------------------------------------------------------------
(* The windows follow the account *)

\* The inductive invariant holds in every reachable state: requests are at their
\* calls, lead where their answers may, and have made what they say (page.tsx).
THEOREM SignUpInvariance == Spec => []WizardInv
<1>1. Init => WizardInv
  <2> SUFFICES ASSUME Init PROVE WizardInv
    OBVIOUS
  <2>1. TypeOK
    <3>1. Opened("email") \in [form : Methods, step : PageSteps, loading : BOOLEAN]
      BY DEF Opened, FirstStep, Showing, PageSteps, Methods
    <3>2. 0 \in 0 .. MaxCodes
      BY SignUpAssumption
    <3> QED
      BY <3>1, <3>2, IdleTask DEF Init, TypeOK
  <2> QED
    BY <2>1 DEF Init, WizardInv, RequestOK, PageOK, Idle, Doing, Opened, FirstStep, Showing
<1>2. WizardInv /\ [Next]_vars => WizardInv'
  <2> SUFFICES ASSUME WizardInv, [Next]_vars PROVE WizardInv'
    OBVIOUS
  <2>1. CASE UNCHANGED vars
    BY <2>1 DEF WizardInv, TypeOK, RequestOK, PageOK, Entered, vars, redis, history
  <2>2. ASSUME NEW w \in Workers, Step(w) PROVE WizardInv'
    BY <2>2, ReplyStep, CodeStep, AccountStep DEF Step
  <2>3. ASSUME NEW w \in Workers, GiveUp(w) \/ Failure(w) PROVE WizardInv'
    BY <2>3, FailureStep
  <2>4. ASSUME NEW w \in Workers, NEW t \in Tabs, Press(t, w) PROVE WizardInv'
    BY <2>4, PressStep
  <2>5. ASSUME NEW t \in Tabs,
               \/ EscolherPlano(t) \/ OpenPanel(t) \/ Reload(t)
               \/ \E form \in Methods : ChangeMethod(t, form)
        PROVE  WizardInv'
    BY <2>5, WindowStep
  <2>6. CASE Expire
    BY <2>6, ExpireStep
  <2>7. CASE EndSession
    BY <2>7, EndSessionStep
  <2> QED
    BY <2>1, <2>2, <2>3, <2>4, <2>5, <2>6, <2>7 DEF Next
<1> QED
  BY <1>1, <1>2, PTL DEF Spec

\* Every variable keeps its type.
THEOREM SignUpTypeCorrect == Spec => []TypeOK
<1>1. WizardInv => TypeOK
  BY DEF WizardInv
<1> QED
  BY <1>1, SignUpInvariance, PTL

\* No window runs ahead of the account, whichever answers are late, lost or given up,
\* also when the session ends in another window (page.tsx, server-api.ts).
THEOREM WizardFollowsAccountAlways == Spec => []WizardFollowsAccount
<1>1. WizardInv => WizardFollowsAccount
  BY DEF WizardInv, PageOK, WizardFollowsAccount, Entered
<1> QED
  BY <1>1, SignUpInvariance, PTL

--------------------------------------------------------------------------------
(* A verified number can register *)

NoFaults == failures = 0 /\ ~expired

\* The mark is there, or it was spent by a registration that made the account, or that
\* is about to.
CanRegister ==
  \/ verified \/ account # "none"
  \/ \E w \in Workers : task[w].op = "cadastro" /\ task[w].step = "insert"

\* A window asks for the profile, or an answer is under way that makes it ask.
WillAsk(w) ==
  /\ task[w].op = "verify"
  /\ task[w].step = "findUser" \/ (task[w].step = "reply" /\ task[w].to = "perfil")
Asks ==
  \/ \E t \in Tabs : page[t].step = "perfil"
  \/ \E w \in Workers : WillAsk(w)

PerfilInv == NoFaults /\ Asks => CanRegister

\* The requests of the others, and the windows that do not change, ask as before.
LEMMA AskMoves ==
  ASSUME WizardInv, NEW w \in Workers, OthersWait(w), WillAsk(w)' => WillAsk(w) \/ CanRegister',
         \A t \in Tabs : page'[t].step = page[t].step \/ page'[t].step # "perfil"
                           \/ Asks
  PROVE  Asks' => Asks \/ CanRegister'
<1>1. ASSUME NEW v \in Workers \ {w} PROVE WillAsk(v)' => WillAsk(v)
  BY DEF OthersWait, WillAsk
<1> QED
  BY <1>1 DEF Asks

\* While the mark, the account and the registration about to insert stay.
LEMMA RegisterMoves ==
  ASSUME NEW w \in Workers, OthersWait(w), verified => verified' \/ CanRegister',
         account # "none" => account' # "none",
         task[w].op = "cadastro" /\ task[w].step = "insert" => CanRegister'
  PROVE  CanRegister => CanRegister'
<1>1. ASSUME NEW v \in Workers \ {w}, task[v].op = "cadastro" /\ task[v].step = "insert"
      PROVE  CanRegister'
  BY <1>1 DEF OthersWait, CanRegister
<1> QED
  BY <1>1 DEF CanRegister

LEMMA ReplyAsks ==
  ASSUME WizardInv, NEW w \in Workers, Reply(w)
  PROVE  (Asks' => Asks \/ CanRegister') /\ (CanRegister => CanRegister')
<1> USE DEF At, redis
<1>1. TypeOK /\ RequestOK(w) /\ task[w] \in Task
  BY DEF WizardInv, TypeOK
<1>2. OthersWait(w) /\ task'[w] = Idle
  BY <1>1, Moves, IdleTask DEF Reply
<1>3. ~WillAsk(w)'
  BY <1>2 DEF WillAsk, Idle, Doing
<1>4. task[w].step = "reply" /\ verified' = verified /\ account' = account
  BY DEF Reply
<1>5. PICK u \in Tabs : u = task[w].tab
  BY <1>1, <1>4 DEF RequestOK, Task, Ops
<1>6. PICK to \in PageSteps : to = task[w].to
  BY <1>1 DEF Task
<1>7. page' = page \/ Show(u, to, FALSE)
  BY <1>5, <1>6 DEF Reply
<1>8. to = "perfil" => Asks
  BY <1>1, <1>4, <1>6 DEF Asks, WillAsk, RequestOK, Task, Ops
<1>9. ASSUME NEW t \in Tabs
      PROVE  page'[t].step = page[t].step \/ page'[t].step # "perfil" \/ Asks
  BY <1>1, <1>7, <1>8, ShownPage
<1> QED
  BY <1>2, <1>3, <1>4, <1>9, AskMoves, RegisterMoves

\* A step after which the mark and the account are as they were, and that asks for no
\* profile, or only after it has set the mark or made the account.
LEMMA QuietAsks ==
  ASSUME WizardInv, NEW w \in Workers, OthersWait(w),
         \A t \in Tabs : page'[t].step = page[t].step,
         verified => verified' \/ CanRegister',
         account # "none" => account' # "none",
         task[w].op = "cadastro" /\ task[w].step = "insert" => CanRegister',
         WillAsk(w)' => WillAsk(w) \/ CanRegister'
  PROVE  (Asks' => Asks \/ CanRegister') /\ (CanRegister => CanRegister')
BY AskMoves, RegisterMoves

LEMMA CodeAsks ==
  ASSUME WizardInv, NEW w \in Workers,
         \/ SetCode(w) \/ DelAttempts(w) \/ GetCode(w) \/ Incr(w) \/ DelCode(w) \/ DelBoth(w)
         \/ SetVerified(w) \/ FindUser(w)
  PROVE  (Asks' => Asks \/ CanRegister') /\ (CanRegister => CanRegister')
<1> USE DEF At, redis, Steps
<1>1. TypeOK /\ RequestOK(w) /\ task[w] \in Task
  BY DEF WizardInv, TypeOK
<1>2. account' = account /\ (verified => verified') /\ task[w].step # "insert"
  BY DEF SetCode, DelAttempts, GetCode, Incr, DelCode, DelBoth, SetVerified, FindUser
<1>3. CASE Refused(w)
  <2>1. /\ OthersWait(w) /\ task'[w] = Idle
        /\ \A t \in Tabs : page'[t].step = page[t].step
    BY <1>3, RefusedPage
  <2>2. ~WillAsk(w)'
    BY <2>1 DEF WillAsk, Idle, Doing
  <2> QED
    BY <1>2, <2>1, <2>2, QuietAsks
<1>4. CASE GetCode(w) /\ ~Refused(w)
  <2> DEFINE k == Doing("verify", "incr", task[w].tab, task[w].typed, code, task[w].waits,
                        task[w].to)
  <2>1. k \in Task
    BY <1>1 DEF Doing, Task, TypeOK, Ops
  <2>2. Start(w, k) /\ page' = page
    BY <1>4 DEF GetCode
  <2>3. OthersWait(w) /\ task'[w] = k
    BY <1>1, <2>1, <2>2, Moves
  <2>4. ~WillAsk(w)'
    BY <2>3 DEF WillAsk, Doing
  <2> QED
    BY <1>2, <2>2, <2>3, <2>4, QuietAsks
<1>5. CASE FindUser(w)
  <2> DEFINE k == Doing("verify", "reply", task[w].tab, task[w].typed, task[w].stored,
                        task[w].waits, IF account = "none" THEN "perfil" ELSE "inicio")
  <2>1. k \in Task
    BY <1>1 DEF Doing, Task, Ops, PageSteps
  <2>2. OthersWait(w) /\ page' = page
    BY <1>1, <1>5, <2>1, Moves DEF FindUser
  <2>3. WillAsk(w)
    BY <1>1, <1>5 DEF FindUser, WillAsk, RequestOK, Task, Ops
  <2> QED
    BY <1>2, <2>2, <2>3, QuietAsks
<1>6. CASE SetVerified(w)
  <2>1. OthersWait(w) /\ page' = page
    BY <1>1, <1>6, GoesOn DEF SetVerified
  <2>2. CanRegister'
    BY <1>6 DEF SetVerified, CanRegister
  <2> QED
    BY <2>2
<1>7. CASE /\ ~Refused(w)
           /\ SetCode(w) \/ DelAttempts(w) \/ Incr(w) \/ DelBoth(w)
  <2>1. page' = page
    BY <1>7 DEF SetCode, DelAttempts, Incr, DelBoth
  <2>2. CASE SetCode(w)
    <3>1. OthersWait(w) /\ task'[w].step = "delAttempts"
      BY <1>1, <2>2, GoesOn DEF SetCode
    <3> QED
      BY <1>2, <2>1, <3>1, QuietAsks DEF WillAsk
  <2>3. CASE DelAttempts(w)
    <3>1. OthersWait(w) /\ task'[w].op = task[w].op /\ task[w].op = "request"
      BY <1>1, <2>3, GoesOn DEF DelAttempts, RequestOK, Task, Ops
    <3> QED
      BY <1>2, <2>1, <3>1, QuietAsks DEF WillAsk
  <2>4. CASE Incr(w) \/ DelBoth(w)
    <3>1. OthersWait(w) /\ task'[w].step \in {"delCode", "delBoth", "setVerified"}
      BY <1>1, <1>7, <2>4, GoesOn DEF Incr, DelBoth
    <3> QED
      BY <1>2, <2>1, <3>1, QuietAsks DEF WillAsk
  <2> QED
    BY <1>7, <2>2, <2>3, <2>4
<1>8. CASE DelCode(w)
  BY <1>3, <1>8 DEF DelCode
<1> QED
  BY <1>3, <1>4, <1>5, <1>6, <1>7, <1>8

LEMMA AccountAsks ==
  ASSUME WizardInv, NEW w \in Workers,
         \/ ConsumeVerified(w) \/ InsertUser(w) \/ CreateProfile(w) \/ FindActive(w)
         \/ CreateSubscription(w)
  PROVE  (Asks' => Asks \/ CanRegister') /\ (CanRegister => CanRegister')
<1> USE DEF At, redis, Steps
<1>1. TypeOK /\ RequestOK(w) /\ task[w] \in Task
  BY DEF WizardInv, TypeOK
<1>2. CASE ConsumeVerified(w) /\ verified
  <2>1. task'[w].op = "cadastro" /\ task'[w].step = "insert"
    BY <1>1, <1>2, GoesOn DEF ConsumeVerified, RequestOK, Task, Ops
  <2> QED
    BY <2>1 DEF CanRegister
<1>3. CASE InsertUser(w) \/ CreateProfile(w)
  <2>1. account' # "none"
    BY <1>3 DEF InsertUser, CreateProfile
  <2> QED
    BY <2>1 DEF CanRegister
<1>4. CASE (ConsumeVerified(w) /\ ~verified) \/ FindActive(w) \/ CreateSubscription(w)
  <2>1. account' = account /\ (verified => verified') /\ task[w].step # "insert"
    BY <1>4 DEF ConsumeVerified, FindActive, CreateSubscription
  <2>2. CASE Refused(w)
    <3>1. /\ OthersWait(w) /\ task'[w] = Idle
          /\ \A t \in Tabs : page'[t].step = page[t].step
      BY <2>2, RefusedPage
    <3>2. ~WillAsk(w)'
      BY <3>1 DEF WillAsk, Idle, Doing
    <3> QED
      BY <2>1, <3>1, <3>2, QuietAsks
  <2>3. CASE ~Refused(w)
    <3>1. /\ page' = page
          /\ \/ FindActive(w) /\ Goto(w, "create")
             \/ CreateSubscription(w) /\ Goto(w, "reply")
      BY <1>4, <2>3 DEF ConsumeVerified, FindActive, CreateSubscription
    <3>2. OthersWait(w) /\ task'[w].op = task[w].op /\ task[w].op = "subscribe"
      BY <1>1, <3>1, GoesOn DEF FindActive, CreateSubscription, RequestOK, Task, Ops
    <3> QED
      BY <2>1, <3>1, <3>2, QuietAsks DEF WillAsk
  <2> QED
    BY <2>2, <2>3
<1> QED
  BY <1>2, <1>3, <1>4

LEMMA PressAsks ==
  ASSUME WizardInv, NEW w \in Workers, NEW t \in Tabs, Press(t, w)
  PROVE  (Asks' => Asks \/ CanRegister') /\ (CanRegister => CanRegister')
<1>1. PICK op \in Ops, step \in Steps, typed \in Codes \cup {0}, to \in PageSteps :
        /\ Send(t, w, op, step, typed, to)
        /\ op = "verify" => step = "getCode"
  <2> USE DEF Ops, Steps, PageSteps
  <2>1. \A typed \in 0 .. sent : typed \in Codes \cup {0}
    BY SignUpAssumption DEF WizardInv, TypeOK, Codes
  <2>2. CASE RequestOtp(t, w)
    BY <2>2 DEF RequestOtp
  <2>3. CASE Cadastrar(t, w)
    BY <2>3 DEF Cadastrar
  <2>4. CASE Submit(t, w)
    BY <2>4 DEF Submit
  <2>5. CASE SalvarAtuacao(t, w)
    BY <2>5 DEF SalvarAtuacao
  <2>6. CASE AssinarComCartao(t, w)
    BY <2>6 DEF AssinarComCartao
  <2>7. CASE \E typed \in 0 .. sent : VerifyOtp(t, w, typed)
    BY <2>1, <2>7 DEF VerifyOtp
  <2> QED
    BY <2>2, <2>3, <2>4, <2>5, <2>6, <2>7 DEF Press
<1> DEFINE k == Doing(op, step, t, typed, 0, "espera", to)
<1>2. k \in Task
  BY DEF Doing, Task
<1>3. OthersWait(w) /\ task'[w] = k /\ task[w] = Idle
  BY <1>1, <1>2, Moves DEF WizardInv, Send, Free
<1>4. page[t].step \in PageSteps
  BY DEF WizardInv, TypeOK
<1>5. \A u \in Tabs : page'[u].step = page[u].step
  BY <1>1, <1>4, ShownPage DEF WizardInv, Send
<1>6. verified' = verified /\ account' = account
  BY <1>1 DEF Send, redis
<1>7. task[w].step # "insert"
  BY <1>3 DEF Idle, Doing
<1>8. WillAsk(w)' => op = "verify" /\ step # "getCode"
  BY <1>3 DEF WillAsk, Doing
<1> QED
  BY <1>1, <1>3, <1>5, <1>6, <1>7, <1>8, QuietAsks

\* A step of a window alone leaves the requests where they are.
LEMMA WindowAsks ==
  ASSUME WizardInv, NEW t \in Tabs,
         \/ EscolherPlano(t) \/ OpenPanel(t) \/ Reload(t)
         \/ \E form \in Methods : ChangeMethod(t, form)
  PROVE  (Asks' => Asks \/ CanRegister') /\ (CanRegister => CanRegister')
<1>1. verified' = verified /\ account' = account
  BY DEF EscolherPlano, OpenPanel, Reload, ChangeMethod, redis
<1>2. \A w \in Workers :
        /\ task'[w].op = task[w].op /\ task'[w].step = task[w].step /\ task'[w].to = task[w].to
  BY LeftTasks DEF EscolherPlano, OpenPanel, Reload, ChangeMethod, WizardInv
<1>3. \A u \in Tabs : page'[u].step = page[u].step \/ page'[u].step # "perfil"
  <2>1. \A step \in {"plano", "cartao", "inicio"} : Show(t, step, FALSE) =>
          \A u \in Tabs : page'[u].step = page[u].step \/ page'[u].step # "perfil"
    BY ShownPage DEF WizardInv, PageSteps
  <2>2. \A form \in Methods : page' = [page EXCEPT ![t] = Opened(form)] =>
          \A u \in Tabs : page'[u].step = page[u].step \/ page'[u].step # "perfil"
    BY DEF WizardInv, TypeOK, Opened, FirstStep, Showing, Methods
  <2> QED
    BY <2>1, <2>2 DEF EscolherPlano, OpenPanel, Reload, ChangeMethod, Methods
<1> QED
  BY <1>1, <1>2, <1>3 DEF Asks, WillAsk, CanRegister

\* Unless something fails or expires, who is asked for a profile can register.
LEMMA PerfilKept ==
  ASSUME WizardInv, PerfilInv, [Next]_vars
  PROVE  PerfilInv'
<1> SUFFICES ASSUME NoFaults'
             PROVE  NoFaults /\ (Asks' => Asks \/ CanRegister') /\ (CanRegister => CanRegister')
  BY DEF PerfilInv
<1> USE DEF redis, history
<1>1. failures \in Nat /\ expired \in BOOLEAN
  BY DEF WizardInv, TypeOK
<1>2. CASE UNCHANGED vars
  BY <1>2 DEF vars, NoFaults, Asks, WillAsk, CanRegister
<1>3. ASSUME NEW w \in Workers, Step(w)
      PROVE  failures' = failures /\ expired' = expired
  BY <1>3 DEF Step, Reply, SetCode, DelAttempts, GetCode, Incr, DelCode, DelBoth, SetVerified,
     FindUser, ConsumeVerified, InsertUser, CreateProfile, FindActive, CreateSubscription
<1>4. ASSUME NEW w \in Workers, Step(w)
      PROVE  (Asks' => Asks \/ CanRegister') /\ (CanRegister => CanRegister')
  BY <1>4, ReplyAsks, CodeAsks, AccountAsks DEF Step
<1>5. ASSUME NEW w \in Workers, NEW t \in Tabs, Press(t, w)
      PROVE  failures' = failures /\ expired' = expired
  BY <1>5 DEF Press, RequestOtp, Cadastrar, Submit, SalvarAtuacao, AssinarComCartao, VerifyOtp,
     Send
<1>6. ASSUME NEW t \in Tabs,
             \/ EscolherPlano(t) \/ OpenPanel(t) \/ Reload(t)
             \/ \E form \in Methods : ChangeMethod(t, form)
      PROVE  failures' = failures /\ expired' = expired
  BY <1>6 DEF EscolherPlano, OpenPanel, Reload, ChangeMethod
<1>7. ASSUME NEW w \in Workers, GiveUp(w) \/ Failure(w)
      PROVE  FALSE
  BY <1>1, <1>7 DEF GiveUp, Failure, NoFaults
<1>8. ~Expire
  BY DEF Expire, NoFaults
<1>9. CASE EndSession
  BY <1>9 DEF EndSession, NoFaults, Asks, WillAsk, CanRegister
<1> QED
  BY <1>2, <1>3, <1>4, <1>5, <1>6, <1>7, <1>8, <1>9, PressAsks, WindowAsks DEF Next, NoFaults

\* A window that asks for the profile can send it, or the account was made elsewhere,
\* unless something failed or expired (auth.service.ts, otp.service.ts).
THEOREM PerfilCanProceedAlways == Spec => []PerfilCanProceed
<1>1. Init => PerfilInv
  BY DEF Init, PerfilInv, Asks, WillAsk, Idle, Doing, Opened, FirstStep, Showing
<1>2. WizardInv /\ PerfilInv /\ [Next]_vars => PerfilInv'
  BY PerfilKept
<1>3. WizardInv /\ PerfilInv => PerfilCanProceed
  <2> SUFFICES ASSUME PerfilInv, Quiet, NoFaults, NEW t \in Tabs, page[t].step = "perfil"
               PROVE  verified \/ account # "none"
    BY DEF PerfilCanProceed, NoFaults
  <2>1. CanRegister
    BY DEF PerfilInv, Asks
  <2>2. \A w \in Workers : task[w].step = "idle"
    BY DEF Quiet, Free, Idle, Doing
  <2> QED
    BY <2>1, <2>2 DEF CanRegister
<1> QED
  BY <1>1, <1>2, <1>3, SignUpInvariance, PTL DEF Spec

--------------------------------------------------------------------------------
(* Guesses are bounded *)

\* Requests of a code that are about to set the attempts back, and attempts that have
\* read a code and not compared it yet.
Resetting == {w \in Workers : task[w].step = "delAttempts"}
Reading(c) == {w \in Workers : task[w].step = "incr" /\ task[w].stored = c}

\* Guesses that the attempts still allow.
Allowed == IF attempts < OTP_MAX_ATTEMPTS THEN OTP_MAX_ATTEMPTS - attempts ELSE 0

Handlers == Cardinality(Workers)

\* The code in Redis: each request that is about to set the attempts back allows as many
\* guesses again, and takes a handler that does not guess meanwhile.
CurrentBounded ==
  code # 0 =>
    compared[code] + OTP_MAX_ATTEMPTS * Cardinality(Resetting)
      + (IF Resetting = Workers THEN 0 ELSE Allowed)
    <= OTP_MAX_ATTEMPTS * Handlers

\* A code that was replaced, used or has expired: only those that had read it are left,
\* and one handler, the one that replaced it, is not among them.  A code that expired may
\* have been read by all, when none of them is about to set the attempts back.
FormerBounded(c) ==
  \/ compared[c] + Cardinality(Reading(c)) <= OTP_MAX_ATTEMPTS * Handlers + Handlers - 1
  \/ Reading(c) = Workers /\ compared[c] + Allowed <= OTP_MAX_ATTEMPTS * Handlers

\* A code that was not drawn yet.
Unused(c) == compared[c] = 0 /\ Reading(c) = {}

GuessInv ==
  /\ code <= sent
  /\ CurrentBounded
  /\ \A c \in Codes : c # code => FormerBounded(c)
  /\ \A c \in Codes : c > sent => Unused(c)

LEMMA Counting ==
  ASSUME NEW S, S \subseteq Workers
  PROVE  /\ Handlers \in Nat \ {0}
         /\ Cardinality(S) \in Nat /\ Cardinality(S) <= Handlers
         /\ S # Workers => Cardinality(S) <= Handlers - 1
         /\ \A w \in S : Cardinality(S \ {w}) = Cardinality(S) - 1 /\ Cardinality(S) > 0
<1>1. IsFiniteSet(Workers) /\ Workers # {}
  BY SignUpAssumption
<1>2. IsFiniteSet(S) /\ Cardinality(S) <= Cardinality(Workers)
  BY <1>1, FS_Subset
<1>3. Cardinality(S) \in Nat /\ Cardinality(Workers) \in Nat
  BY <1>1, <1>2, FS_CardinalityType
<1>4. Cardinality(Workers) # 0
  BY <1>1, FS_EmptySet
<1>5. S # Workers => Cardinality(S) # Cardinality(Workers)
  BY <1>1, FS_Subset
<1>6. ASSUME NEW w \in S
      PROVE  Cardinality(S \ {w}) = Cardinality(S) - 1 /\ Cardinality(S) > 0
  <2>1. Cardinality(S \ {w}) = Cardinality(S) - 1
    BY <1>2, FS_RemoveElement
  <2>2. Cardinality(S) # 0
    BY <1>2, FS_EmptySet
  <2> QED
    BY <1>3, <2>1, <2>2
<1> QED
  BY <1>2, <1>3, <1>4, <1>5, <1>6 DEF Handlers

LEMMA Times ==
  ASSUME NEW m \in Nat, NEW h \in Nat \ {0}
  PROVE  /\ m * h \in Nat
         /\ m * (h - 1) = m * h - m
         /\ h * (m + 1) = m * h + h
         /\ \A d \in Nat : d <= h => m * d <= m * h
         /\ \A d \in Nat : d <= h - 1 => m * d + m <= m * h
<1>1. m * h \in Nat /\ m * (h - 1) = m * h - m /\ h * (m + 1) = m * h + h
  OBVIOUS
<1>2. ASSUME NEW d \in Nat, NEW n \in Nat, d <= n PROVE m * d <= m * n
  <2>1. PICK k \in Nat : n = d + k
    BY <1>2
  <2>2. m * n = m * d + m * k /\ m * k \in Nat /\ m * d \in Nat
    BY <2>1
  <2> QED
    BY <2>2
<1>3. ASSUME NEW d \in Nat, d <= h - 1 PROVE m * d + m <= m * h
  BY <1>1, <1>2, <1>3
<1> QED
  BY <1>1, <1>2, <1>3

\* The bounds as numbers.
LEMMA Numbers ==
  ASSUME TypeOK
  PROVE  /\ OTP_MAX_ATTEMPTS \in Nat \ {0} /\ Handlers \in Nat \ {0}
         /\ OTP_MAX_ATTEMPTS * Handlers \in Nat
         /\ Allowed \in Nat /\ Allowed <= OTP_MAX_ATTEMPTS
         /\ code \in Codes \cup {0} /\ sent \in Nat /\ attempts \in Nat
         /\ \A c \in Codes : c \in Nat \ {0} /\ compared[c] \in Nat
         /\ Cardinality(Resetting) \in Nat
         /\ OTP_MAX_ATTEMPTS * Cardinality(Resetting) \in Nat
         /\ Cardinality(Resetting) <= Handlers
         /\ \A c \in Codes : Cardinality(Reading(c)) \in Nat /\ Cardinality(Reading(c)) <= Handlers
<1>1. OTP_MAX_ATTEMPTS \in Nat \ {0} /\ attempts \in Nat /\ MaxCodes \in Nat
  BY SignUpAssumption DEF TypeOK
<1>2. Allowed \in Nat /\ Allowed <= OTP_MAX_ATTEMPTS
  BY <1>1 DEF Allowed
<1>3. Resetting \subseteq Workers /\ \A c \in Codes : Reading(c) \subseteq Workers
  BY DEF Resetting, Reading
<1>4. /\ Handlers \in Nat \ {0}
      /\ Cardinality(Resetting) \in Nat /\ Cardinality(Resetting) <= Handlers
  BY <1>3, Counting
<1>5. ASSUME NEW c \in Codes
      PROVE  Cardinality(Reading(c)) \in Nat /\ Cardinality(Reading(c)) <= Handlers
  BY <1>3, Counting
<1>6. /\ OTP_MAX_ATTEMPTS * Handlers \in Nat
      /\ OTP_MAX_ATTEMPTS * Cardinality(Resetting) \in Nat
  BY <1>1, <1>4
<1>7. /\ code \in Codes \cup {0} /\ sent \in Nat
      /\ \A c \in Codes : c \in Nat \ {0} /\ compared[c] \in Nat
  BY <1>1 DEF TypeOK, Codes
<1> QED
  BY <1>1, <1>2, <1>4, <1>5, <1>6, <1>7

\* The code that is there was compared with what the attempts allow, and no more.
LEMMA CurrentAtMost ==
  ASSUME TypeOK, CurrentBounded, code # 0
  PROVE  compared[code] <= OTP_MAX_ATTEMPTS * Handlers
<1> DEFINE m == OTP_MAX_ATTEMPTS * Handlers
           d == OTP_MAX_ATTEMPTS * Cardinality(Resetting)
           a == IF Resetting = Workers THEN 0 ELSE Allowed
<1>1. m \in Nat /\ d \in Nat /\ a \in Nat /\ compared[code] \in Nat
  BY Numbers
<1>2. compared[code] + d + a <= m
  BY DEF CurrentBounded
<1> HIDE DEF m, d, a
<1>3. compared[code] <= m
  BY <1>1, <1>2
<1> QED
  BY <1>3 DEF m

\* The code that is there may go at any time.
LEMMA BecomesFormer ==
  ASSUME TypeOK, CurrentBounded, code # 0
  PROVE  FormerBounded(code)
<1> DEFINE m == OTP_MAX_ATTEMPTS * Handlers
           r == Cardinality(Reading(code))
<1>1. m \in Nat /\ Handlers \in Nat \ {0} /\ compared[code] \in Nat /\ r \in Nat
      /\ Allowed \in Nat
  BY Numbers
<1>2. compared[code] <= m
  BY CurrentAtMost
<1>3. CASE Reading(code) # Workers
  <2>1. r <= Handlers - 1
    BY <1>3, Counting DEF Reading
  <2>2. compared[code] + r <= m + Handlers - 1
    <3> HIDE DEF m, r
    <3> QED
      BY <1>1, <1>2, <2>1
  <2> QED
    BY <2>2 DEF FormerBounded
<1>4. CASE Reading(code) = Workers
  <2>1. Resetting = {}
    BY <1>4 DEF Resetting, Reading
  <2>2. Cardinality(Resetting) = 0 /\ Resetting # Workers
    BY <2>1, FS_EmptySet, SignUpAssumption
  <2>3. OTP_MAX_ATTEMPTS * Cardinality(Resetting) = 0
    BY <2>2, Numbers
  <2>4. compared[code] + 0 + Allowed <= m
    BY <2>2, <2>3 DEF CurrentBounded
  <2>5. compared[code] + Allowed <= m
    <3> HIDE DEF m
    <3> QED
      BY <1>1, <2>4
  <2> QED
    BY <1>4, <2>5 DEF FormerBounded
<1> QED
  BY <1>3, <1>4

LEMMA AllFormer ==
  ASSUME TypeOK, GuessInv, NEW c \in Codes
  PROVE  FormerBounded(c)
BY BecomesFormer, Numbers DEF GuessInv

\* A handler that does not hold the code goes on, or one gives it up.
LEMMA FormerMoves ==
  ASSUME TypeOK, TypeOK', GuessInv, NEW w \in Workers, NEW c \in Codes,
         compared'[c] = compared[c],
         \/ Reading(c)' = Reading(c) /\ (w \notin Reading(c) \/ attempts' = attempts)
         \/ Reading(c)' = Reading(c) \ {w}
  PROVE  FormerBounded(c)'
<1> DEFINE m == OTP_MAX_ATTEMPTS * Handlers
           r == Cardinality(Reading(c))
           q == Cardinality(Reading(c)')
           x == compared[c]
<1>1. /\ m \in Nat /\ Handlers \in Nat \ {0} /\ x \in Nat /\ r \in Nat /\ r <= Handlers
      /\ Allowed \in Nat
  BY Numbers
<1>2. x + r <= m + Handlers - 1 \/ (Reading(c) = Workers /\ x + Allowed <= m)
  BY AllFormer DEF FormerBounded
<1>3. CASE Reading(c)' = Reading(c) /\ w \notin Reading(c)
  BY <1>2, <1>3 DEF FormerBounded
<1>4. CASE Reading(c)' = Reading(c) /\ attempts' = attempts
  BY <1>2, <1>4 DEF FormerBounded, Allowed
<1>5. CASE Reading(c)' = Reading(c) \ {w} /\ w \in Reading(c)
  <2>1. q = r - 1
    BY <1>5, Counting DEF Reading
  <2>2. x + q <= m + Handlers - 1
    <3>1. x <= m \/ x + r <= m + Handlers - 1
      <4> HIDE DEF x, m, r
      <4> QED
        BY <1>1, <1>2
    <3> HIDE DEF x, m, r, q
    <3> QED
      BY <1>1, <2>1, <3>1
  <2> QED
    BY <2>2 DEF FormerBounded
<1> QED
  BY <1>3, <1>4, <1>5

\* A handler ends, whatever it was at.
LEMMA EndGuesses ==
  ASSUME TypeOK, TypeOK', GuessInv, NEW w \in Workers, OthersWait(w), task'[w] = Idle,
         UNCHANGED <<code, attempts, sent, compared>>
  PROVE  GuessInv'
<1>1. Resetting' = Resetting \ {w}
  BY DEF Resetting, OthersWait, Idle, Doing
<1>2. \A c \in Codes : Reading(c)' = Reading(c) \ {w}
  BY DEF Reading, OthersWait, Idle, Doing
<1>3. CurrentBounded'
  <2> DEFINE m == OTP_MAX_ATTEMPTS * Handlers
             d == OTP_MAX_ATTEMPTS * Cardinality(Resetting)
             e == OTP_MAX_ATTEMPTS * Cardinality(Resetting')
             x == compared[code]
  <2> SUFFICES ASSUME code # 0
               PROVE  x + e + (IF Resetting' = Workers THEN 0 ELSE Allowed) <= m
    BY DEF CurrentBounded, Allowed
  <2>1. /\ m \in Nat /\ d \in Nat /\ x \in Nat /\ Allowed \in Nat
        /\ Allowed <= OTP_MAX_ATTEMPTS /\ OTP_MAX_ATTEMPTS \in Nat /\ Handlers \in Nat \ {0}
        /\ Cardinality(Resetting) \in Nat
    BY Numbers
  <2>2. x + d + (IF Resetting = Workers THEN 0 ELSE Allowed) <= m
    BY DEF GuessInv, CurrentBounded
  <2>3. CASE w \notin Resetting
    BY <1>1, <2>2, <2>3
  <2>4. CASE w \in Resetting
    <3>1. /\ Cardinality(Resetting') = Cardinality(Resetting) - 1
          /\ Cardinality(Resetting) > 0
      BY <1>1, <2>4, Counting DEF Resetting
    <3>2. e = d - OTP_MAX_ATTEMPTS
      BY <2>1, <3>1, Times
    <3>3. Resetting' # Workers
      BY <1>1
    <3>4. x + d <= m
      <4> HIDE DEF x, d, m
      <4> QED
        BY <2>1, <2>2
    <3> HIDE DEF x, d, e, m
    <3> QED
      BY <2>1, <3>2, <3>3, <3>4
  <2> QED
    BY <2>3, <2>4
<1>4. ASSUME NEW c \in Codes PROVE FormerBounded(c)'
  BY <1>2, FormerMoves
<1>5. \A c \in Codes : c > sent => Unused(c)'
  BY <1>2 DEF GuessInv, Unused
<1> QED
  BY <1>3, <1>4, <1>5 DEF GuessInv

\* Nothing that the bound counts changes.
LEMMA SameGuesses ==
  ASSUME GuessInv, UNCHANGED <<code, attempts, sent, compared>>, Resetting' = Resetting,
         \A c \in Codes : Reading(c)' = Reading(c)
  PROVE  GuessInv'
BY DEF GuessInv, CurrentBounded, FormerBounded, Unused, Allowed

\* A handler goes on to a step other than the comparison.
LEMMA HandlerMoves ==
  ASSUME TypeOK, NEW w \in Workers, NEW step \in Steps \ {"incr"}, Goto(w, step)
  PROVE  /\ Resetting' = IF step = "delAttempts" THEN Resetting \cup {w} ELSE Resetting \ {w}
         /\ \A c \in Codes : Reading(c)' = Reading(c) \ {w}
<1>1. OthersWait(w) /\ task'[w].step = step
  BY GoesOn
<1> QED
  BY <1>1 DEF Resetting, Reading, OthersWait

\* The request draws a code, which no one has compared.
LEMMA SetCodeGuesses ==
  ASSUME TypeOK, TypeOK', GuessInv, NEW w \in Workers, SetCode(w)
  PROVE  GuessInv'
<1>1. /\ sent' = sent + 1 /\ code' = sent + 1 /\ attempts' = attempts /\ compared' = compared
      /\ task[w].step = "setCode" /\ Goto(w, "delAttempts")
  BY DEF SetCode, At, history
<1>2. Resetting' = Resetting \cup {w} /\ \A c \in Codes : Reading(c)' = Reading(c)
  <2>1. Resetting' = Resetting \cup {w} /\ \A c \in Codes : Reading(c)' = Reading(c) \ {w}
    BY <1>1, HandlerMoves DEF Steps
  <2>2. \A c \in Codes : w \notin Reading(c)
    BY <1>1 DEF Reading
  <2> QED
    BY <2>1, <2>2
<1>3. code' \in Codes /\ code' > sent /\ sent \in Nat /\ sent' \in Nat
  BY <1>1, Numbers, SignUpAssumption DEF SetCode, Codes
<1>4. CurrentBounded'
  <2> DEFINE m == OTP_MAX_ATTEMPTS * Handlers
             e == OTP_MAX_ATTEMPTS * Cardinality(Resetting')
  <2>1. compared'[code'] = 0 /\ Allowed' = Allowed
    BY <1>1, <1>3 DEF GuessInv, Unused, Allowed
  <2>2. /\ Allowed \in Nat /\ Allowed <= OTP_MAX_ATTEMPTS /\ OTP_MAX_ATTEMPTS \in Nat
        /\ Handlers \in Nat \ {0} /\ m \in Nat
    BY Numbers
  <2>3. Resetting' \subseteq Workers
    BY <1>2 DEF Resetting
  <2>4. CASE Resetting' = Workers
    <3>1. e = m
      BY <2>4 DEF Handlers
    <3>2. 0 + e + 0 <= m
      BY <2>2, <3>1
    <3> QED
      BY <2>1, <2>4, <3>2 DEF CurrentBounded
  <2>5. CASE Resetting' # Workers
    <3>1. Cardinality(Resetting') \in Nat /\ Cardinality(Resetting') <= Handlers - 1
      BY <2>3, <2>5, Counting
    <3>2. e + OTP_MAX_ATTEMPTS <= m /\ e \in Nat
      BY <2>2, <3>1, Times
    <3>3. 0 + e + Allowed <= m
      <4> HIDE DEF e, m
      <4> QED
        BY <2>2, <3>2
    <3> QED
      BY <2>1, <2>5, <3>3 DEF CurrentBounded
  <2> QED
    BY <2>4, <2>5
<1>5. ASSUME NEW c \in Codes PROVE FormerBounded(c)'
  BY <1>1, <1>2, FormerMoves
<1>6. ASSUME NEW c \in Codes, c > sent' PROVE Unused(c)'
  <2>1. c > sent
    BY <1>1, <1>3, <1>6 DEF Codes
  <2> QED
    BY <1>1, <1>2, <2>1 DEF GuessInv, Unused
<1>7. code' <= sent'
  BY <1>1, <1>3
<1> QED
  BY <1>4, <1>5, <1>6, <1>7 DEF GuessInv

\* The attempts start again: the handler frees what it held back.
LEMMA DelAttemptsGuesses ==
  ASSUME TypeOK, TypeOK', GuessInv, NEW w \in Workers, DelAttempts(w)
  PROVE  GuessInv'
<1>1. /\ sent' = sent /\ code' = code /\ attempts' = 0 /\ compared' = compared
      /\ task[w].step = "delAttempts" /\ Goto(w, "reply")
  BY DEF DelAttempts, At, history
<1>2. /\ Resetting' = Resetting \ {w} /\ w \in Resetting
      /\ \A c \in Codes : Reading(c)' = Reading(c) /\ w \notin Reading(c)
  <2>1. Resetting' = Resetting \ {w} /\ \A c \in Codes : Reading(c)' = Reading(c) \ {w}
    BY <1>1, HandlerMoves DEF Steps
  <2>2. w \in Resetting /\ \A c \in Codes : w \notin Reading(c)
    BY <1>1 DEF Reading, Resetting
  <2> QED
    BY <2>1, <2>2
<1>3. CurrentBounded'
  <2> DEFINE m == OTP_MAX_ATTEMPTS * Handlers
             d == OTP_MAX_ATTEMPTS * Cardinality(Resetting)
             e == OTP_MAX_ATTEMPTS * Cardinality(Resetting')
             x == compared[code]
  <2> SUFFICES ASSUME code # 0
               PROVE  x + e + Allowed' <= m /\ Resetting' # Workers
    BY <1>1 DEF CurrentBounded
  <2>1. /\ m \in Nat /\ d \in Nat /\ x \in Nat /\ Allowed \in Nat
        /\ OTP_MAX_ATTEMPTS \in Nat \ {0} /\ Handlers \in Nat \ {0}
        /\ Cardinality(Resetting) \in Nat
    BY Numbers
  <2>2. x + d + (IF Resetting = Workers THEN 0 ELSE Allowed) <= m
    BY DEF GuessInv, CurrentBounded
  <2>3. x + d <= m
    <3> HIDE DEF x, d, m
    <3> QED
      BY <2>1, <2>2
  <2>4. Cardinality(Resetting') = Cardinality(Resetting) - 1 /\ Cardinality(Resetting) > 0
    BY <1>2, Counting DEF Resetting
  <2>5. e = d - OTP_MAX_ATTEMPTS
    BY <2>1, <2>4, Times
  <2>6. Allowed' = OTP_MAX_ATTEMPTS
    BY <1>1, <2>1 DEF Allowed
  <2>7. Resetting' # Workers
    BY <1>2
  <2> HIDE DEF x, d, e, m
  <2> QED
    BY <2>1, <2>3, <2>5, <2>6, <2>7
<1>4. ASSUME NEW c \in Codes PROVE FormerBounded(c)'
  BY <1>1, <1>2, FormerMoves
<1> QED
  BY <1>1, <1>2, <1>3, <1>4 DEF GuessInv, Unused

\* The code that was read.
LEMMA GetCodeGuesses ==
  ASSUME TypeOK, TypeOK', GuessInv, NEW w \in Workers, GetCode(w), ~Refused(w)
  PROVE  GuessInv'
<1> DEFINE k == Doing("verify", "incr", task[w].tab, task[w].typed, code, task[w].waits,
                      task[w].to)
<1>1. /\ sent' = sent /\ code' = code /\ attempts' = attempts /\ compared' = compared
      /\ task[w].step = "getCode" /\ Start(w, k)
  BY DEF GetCode, At, redis, history
<1>2. OthersWait(w) /\ task'[w] = k
  <2>1. task[w] \in Task
    BY DEF TypeOK
  <2>2. k \in Task
    BY <2>1 DEF Doing, Task, TypeOK, Ops, Steps
  <2> QED
    BY <1>1, <2>2, Moves
<1>3. Resetting' = Resetting
  BY <1>1, <1>2 DEF Resetting, OthersWait, Doing
<1>4. \A c \in Codes : c # code => Reading(c)' = Reading(c)
  BY <1>1, <1>2 DEF Reading, OthersWait, Doing
<1>5. CurrentBounded'
  BY <1>1, <1>3 DEF GuessInv, CurrentBounded, Allowed
<1>6. \A c \in Codes : c # code => FormerBounded(c)'
  BY <1>1, <1>4 DEF GuessInv, FormerBounded, Allowed
<1>7. ASSUME NEW c \in Codes, c > sent PROVE Unused(c)'
  <2>1. c # code
    BY <1>7, Numbers DEF GuessInv
  <2> QED
    BY <1>1, <1>4, <1>7, <2>1 DEF GuessInv, Unused
<1> QED
  BY <1>1, <1>5, <1>6, <1>7 DEF GuessInv

\* One more attempt, which the code that was read is compared with if it is allowed.
LEMMA IncrGuesses ==
  ASSUME WizardInv, TypeOK', GuessInv, NEW w \in Workers, Incr(w)
  PROVE  GuessInv'
<1> DEFINE m == OTP_MAX_ATTEMPTS * Handlers
<1>0. PICK c \in Codes \cup {0} : c = task[w].stored
  BY DEF WizardInv, TypeOK, Task
<1>1. /\ sent' = sent /\ code' = code /\ attempts' = attempts + 1
      /\ task[w].step = "incr"
  BY DEF Incr, At
<1>2. TypeOK /\ task[w] \in Task
  BY DEF WizardInv, TypeOK
<1>3. /\ Resetting' = Resetting /\ Resetting # Workers
      /\ \A b \in Codes : Reading(b)' = Reading(b) \ {w}
  <2>1. PICK step \in {"delCode", "delBoth", "idle"} :
          OthersWait(w) /\ task'[w].step = step
    <3>1. CASE Refused(w)
      BY <1>2, <3>1, Moves, IdleTask DEF Refused, Idle, Doing
    <3>2. CASE ~Refused(w)
      BY <1>2, <3>2, GoesOn DEF Incr, Steps
    <3> QED
      BY <3>1, <3>2
  <2> QED
    BY <1>1, <2>1 DEF Resetting, Reading, OthersWait
<1>4. /\ m \in Nat /\ Handlers \in Nat \ {0} /\ OTP_MAX_ATTEMPTS \in Nat \ {0}
      /\ attempts \in Nat /\ Allowed \in Nat
  BY <1>2, Numbers
<1>5. Allowed' \in Nat /\ Allowed' <= Allowed /\ Allowed \in Nat /\ m \in Nat
  BY <1>1, <1>4 DEF Allowed
<1>6. ASSUME NEW b \in Codes, compared'[b] = compared[b]
      PROVE  FormerBounded(b)'
  <2>1. Reading(b)' = Reading(b) \ {w}
    BY <1>3
  <2> QED
    BY <1>2, <1>6, <2>1, FormerMoves
<1>7. ASSUME code # 0, compared'[code] = compared[code]
      PROVE  CurrentBounded'
  <2>1. PICK d \in Nat, x \in Nat :
          d = OTP_MAX_ATTEMPTS * Cardinality(Resetting) /\ x = compared[code]
    BY <1>2, <1>7, Numbers
  <2>2. PICK a \in Nat, b \in Nat : a = Allowed /\ b = Allowed' /\ b <= a
    BY <1>5
  <2>3. x + d + a <= m
    BY <1>3, <1>7, <2>1, <2>2 DEF GuessInv, CurrentBounded
  <2>4. x + d + b <= m
    <3>1. m \in Nat
      BY <1>4
    <3> HIDE DEF m
    <3> QED
      BY <2>1, <2>2, <2>3, <3>1
  <2> QED
    BY <1>1, <1>3, <1>7, <2>1, <2>2, <2>4 DEF CurrentBounded
<1>8. code = 0 => CurrentBounded'
  BY <1>1 DEF CurrentBounded
<1>9. \A b \in Codes : b > sent => b # c
  BY <1>0, <1>1, <1>2 DEF GuessInv, Unused, Reading
<1>10. CASE compared' = compared
  <2>1. \A b \in Codes : b > sent => Unused(b)'
    BY <1>3, <1>10 DEF GuessInv, Unused
  <2> QED
    BY <1>1, <1>6, <1>7, <1>8, <1>10, <2>1 DEF GuessInv
<1>11. CASE compared' # compared
  <2>1. /\ attempts + 1 <= OTP_MAX_ATTEMPTS
        /\ compared' = [compared EXCEPT ![c] = @ + 1]
    BY <1>0, <1>4, <1>11 DEF Incr
  <2>2. c \in Codes
    BY <1>2, <1>11, <2>1 DEF TypeOK
  <2>3. compared'[c] = compared[c] + 1 /\ \A b \in Codes \ {c} : compared'[b] = compared[b]
    BY <1>2, <2>1, <2>2 DEF TypeOK
  <2>4. Allowed' = Allowed - 1
    BY <1>1, <1>4, <2>1 DEF Allowed
  <2>5. c = code => CurrentBounded'
    <3> SUFFICES ASSUME c = code PROVE CurrentBounded'
      OBVIOUS
    <3> DEFINE d == OTP_MAX_ATTEMPTS * Cardinality(Resetting)
               x == compared[code]
    <3>1. code # 0
      BY <1>2, <2>2, Numbers
    <3>2. x + d + Allowed <= m
      BY <1>3, <3>1 DEF GuessInv, CurrentBounded
    <3>3. x \in Nat /\ d \in Nat
      BY <1>2, <3>1, Numbers
    <3>4. x + 1 + d + Allowed' <= m
      <4> HIDE DEF x, d, m
      <4> QED
        BY <1>4, <2>4, <3>2, <3>3
    <3> QED
      BY <1>1, <1>3, <2>3, <3>4 DEF CurrentBounded
  <2>6. c # code => FormerBounded(c)'
    <3> SUFFICES ASSUME c # code PROVE FormerBounded(c)'
      OBVIOUS
    <3> DEFINE r == Cardinality(Reading(c))
               q == Cardinality(Reading(c)')
               x == compared[c]
    <3>1. x \in Nat /\ r \in Nat /\ r <= Handlers
      BY <1>2, <2>2, Numbers
    <3>2. x + r <= m + Handlers - 1 \/ x + Allowed <= m
      BY <2>2 DEF GuessInv, FormerBounded
    <3>3. q = r - 1
      <4>1. w \in Reading(c) /\ Reading(c) \subseteq Workers
        BY <1>0, <1>1 DEF Reading
      <4>2. Reading(c)' = Reading(c) \ {w}
        BY <1>3, <2>2
      <4> QED
        BY <4>1, <4>2, Counting
    <3>4. x + 1 + q <= m + Handlers - 1
      <4> HIDE DEF x, r, q, m
      <4> QED
        BY <1>4, <1>5, <2>4, <3>1, <3>2, <3>3
    <3> QED
      BY <2>3, <3>4 DEF FormerBounded
  <2>7. CurrentBounded'
    BY <1>2, <1>7, <1>8, <2>3, <2>5, Numbers
  <2>8. \A b \in Codes : b # code => FormerBounded(b)'
    BY <1>6, <2>3, <2>6
  <2>9. \A b \in Codes : b > sent => Unused(b)'
    BY <1>3, <1>9, <2>3 DEF GuessInv, Unused
  <2> QED
    BY <1>1, <2>7, <2>8, <2>9 DEF GuessInv
<1> QED
  BY <1>10, <1>11

\* The code goes: it was spent, it has had too many attempts, or its time is over.
LEMMA GoneGuesses ==
  ASSUME TypeOK, TypeOK', GuessInv, code' = 0, sent' = sent, compared' = compared,
         NEW w \in Workers,
         \A c \in Codes : /\ Reading(c)' = Reading(c)
                          /\ w \notin Reading(c) \/ attempts' = attempts
  PROVE  GuessInv'
<1>1. ASSUME NEW c \in Codes PROVE FormerBounded(c)'
  BY <1>1, FormerMoves
<1>2. CurrentBounded' /\ code' <= sent'
  BY Numbers DEF CurrentBounded
<1> QED
  BY <1>1, <1>2 DEF GuessInv, Unused

\* A step of a handler.
LEMMA StepGuesses ==
  ASSUME WizardInv, TypeOK', GuessInv, NEW w \in Workers, Step(w)
  PROVE  GuessInv'
<1> USE DEF redis, history, At
<1>1. TypeOK
  BY DEF WizardInv
<1>2. CASE SetCode(w)
  BY <1>1, <1>2, SetCodeGuesses
<1>3. CASE DelAttempts(w)
  BY <1>1, <1>3, DelAttemptsGuesses
<1>4. CASE Incr(w)
  BY <1>4, IncrGuesses
<1>5. CASE DelCode(w) \/ DelBoth(w)
  <2>1. /\ code' = 0 /\ sent' = sent /\ compared' = compared
        /\ \A c \in Codes : w \notin Reading(c)
    BY <1>5 DEF DelCode, DelBoth, Reading
  <2>2. OthersWait(w) /\ task'[w].step \in {"idle", "setVerified"}
    <3>1. CASE Refused(w)
      BY <1>1, <3>1, Moves, IdleTask DEF Refused, Idle, Doing
    <3>2. CASE Goto(w, "setVerified")
      BY <1>1, <3>2, GoesOn DEF Steps
    <3> QED
      BY <1>5, <3>1, <3>2 DEF DelCode, DelBoth
  <2>3. \A c \in Codes : Reading(c)' = Reading(c)
    BY <2>1, <2>2 DEF Reading, OthersWait
  <2> QED
    BY <1>1, <2>1, <2>3, GoneGuesses
<1>6. CASE Refused(w) /\ UNCHANGED <<code, attempts, sent, compared>>
  <2>1. OthersWait(w) /\ task'[w] = Idle
    BY <1>1, <1>6, Moves, IdleTask DEF Refused
  <2> QED
    BY <1>1, <1>6, <2>1, EndGuesses
<1>7. CASE Reply(w)
  <2>1. OthersWait(w) /\ task'[w] = Idle /\ UNCHANGED <<code, attempts, sent, compared>>
    BY <1>1, <1>7, Moves, IdleTask DEF Reply
  <2> QED
    BY <1>1, <2>1, EndGuesses
<1>8. CASE GetCode(w) /\ ~Refused(w)
  BY <1>1, <1>8, GetCodeGuesses
<1>9. CASE /\ ~Refused(w)
           /\ \/ SetVerified(w) \/ FindUser(w) \/ ConsumeVerified(w) \/ InsertUser(w)
              \/ CreateProfile(w) \/ FindActive(w) \/ CreateSubscription(w)
  <2>1. /\ UNCHANGED <<code, attempts, sent, compared>>
        /\ task[w].step \notin {"delAttempts", "incr"}
    BY <1>9 DEF SetVerified, FindUser, ConsumeVerified, InsertUser, CreateProfile, FindActive,
                CreateSubscription
  <2>2. OthersWait(w) /\ task'[w].step \in Steps \ {"delAttempts", "incr"}
    <3>1. CASE FindUser(w)
      <4> DEFINE k == Doing("verify", "reply", task[w].tab, task[w].typed, task[w].stored,
                            task[w].waits, IF account = "none" THEN "perfil" ELSE "inicio")
      <4>1. k \in Task
        BY <1>1 DEF Doing, Task, Ops, PageSteps, TypeOK, Steps
      <4>2. OthersWait(w) /\ task'[w] = k
        BY <1>1, <3>1, <4>1, Moves DEF FindUser
      <4> QED
        BY <4>2 DEF Doing, Steps
    <3>2. CASE ~FindUser(w)
      BY <1>1, <1>9, <3>2, GoesOn
         DEF SetVerified, ConsumeVerified, InsertUser, CreateProfile, FindActive,
             CreateSubscription, Steps
    <3> QED
      BY <3>1, <3>2
  <2>3. Resetting' = Resetting /\ \A c \in Codes : Reading(c)' = Reading(c)
    BY <2>1, <2>2 DEF Resetting, Reading, OthersWait
  <2> QED
    BY <2>1, <2>3, SameGuesses
<1> QED
  BY <1>2, <1>3, <1>4, <1>5, <1>6, <1>7, <1>8, <1>9
     DEF Step, GetCode, SetVerified, FindUser, ConsumeVerified, InsertUser, CreateProfile,
         FindActive, CreateSubscription

\* A step of a window, which may send a request, or of the web server that gives up.
LEMMA WindowGuesses ==
  ASSUME WizardInv, TypeOK', GuessInv,
         \/ \E w \in Workers : GiveUp(w) \/ \E t \in Tabs : Press(t, w)
         \/ \E t \in Tabs :
              \/ EscolherPlano(t) \/ OpenPanel(t) \/ Reload(t)
              \/ \E form \in Methods : ChangeMethod(t, form)
  PROVE  GuessInv'
<1> USE DEF redis, history
<1>1. TypeOK
  BY DEF WizardInv
<1>2. ASSUME NEW w \in Workers, NEW t \in Tabs, Press(t, w) PROVE GuessInv'
  <2>1. PICK op \in Ops, step \in Steps \ {"delAttempts", "incr"}, typed \in Codes \cup {0},
             to \in PageSteps : Send(t, w, op, step, typed, to)
    <3> USE DEF Ops, Steps, PageSteps
    <3>1. \A typed \in 0 .. sent : typed \in Codes \cup {0}
      BY <1>1, SignUpAssumption DEF TypeOK, Codes
    <3>2. CASE RequestOtp(t, w)
      BY <3>2 DEF RequestOtp
    <3>3. CASE Cadastrar(t, w)
      BY <3>3 DEF Cadastrar
    <3>4. CASE Submit(t, w)
      BY <3>4 DEF Submit
    <3>5. CASE SalvarAtuacao(t, w)
      BY <3>5 DEF SalvarAtuacao
    <3>6. CASE AssinarComCartao(t, w)
      BY <3>6 DEF AssinarComCartao
    <3>7. CASE \E typed \in 0 .. sent : VerifyOtp(t, w, typed)
      BY <3>1, <3>7 DEF VerifyOtp
    <3> QED
      BY <1>2, <3>2, <3>3, <3>4, <3>5, <3>6, <3>7 DEF Press
  <2> DEFINE k == Doing(op, step, t, typed, 0, "espera", to)
  <2>2. k \in Task
    BY DEF Doing, Task
  <2>3. /\ OthersWait(w) /\ task'[w] = k /\ task[w] = Idle
        /\ UNCHANGED <<code, attempts, sent, compared>>
    BY <1>1, <2>1, <2>2, Moves DEF Send, Free
  <2>4. task[w].step = "idle" /\ task'[w].step \notin {"delAttempts", "incr"}
    BY <2>3 DEF Idle, Doing
  <2>5. Resetting' = Resetting /\ \A c \in Codes : Reading(c)' = Reading(c)
    BY <2>3, <2>4 DEF Resetting, Reading, OthersWait
  <2> QED
    BY <2>3, <2>5, SameGuesses
<1>3. CASE \A v \in Workers : task'[v].step = task[v].step /\ task'[v].stored = task[v].stored
  <2>1. UNCHANGED <<code, attempts, sent, compared>> \/ \E w \in Workers, t \in Tabs : Press(t, w)
    BY DEF GiveUp, EscolherPlano, OpenPanel, Reload, ChangeMethod
  <2>2. Resetting' = Resetting /\ \A c \in Codes : Reading(c)' = Reading(c)
    BY <1>3 DEF Resetting, Reading
  <2> QED
    BY <1>2, <2>1, <2>2, SameGuesses
<1>4. \/ \E w \in Workers, t \in Tabs : Press(t, w)
      \/ \A v \in Workers : task'[v].step = task[v].step /\ task'[v].stored = task[v].stored
  <2>1. ASSUME NEW w \in Workers, GiveUp(w)
        PROVE  \A v \in Workers :
                 task'[v].step = task[v].step /\ task'[v].stored = task[v].stored
    BY <1>1, <2>1 DEF GiveUp, TypeOK, Task
  <2>2. ASSUME NEW t \in Tabs, Reload(t) \/ \E form \in Methods : ChangeMethod(t, form)
        PROVE  \A v \in Workers :
                 task'[v].step = task[v].step /\ task'[v].stored = task[v].stored
    BY <1>1, <2>2, LeftTasks DEF Reload, ChangeMethod
  <2>3. ASSUME NEW t \in Tabs, EscolherPlano(t) \/ OpenPanel(t)
        PROVE  task' = task
    BY <2>3 DEF EscolherPlano, OpenPanel
  <2> QED
    BY <2>1, <2>2, <2>3
<1> QED
  BY <1>2, <1>3, <1>4

\* The counting argument is inductive, beside the invariant of the requests.
LEMMA GuessesKept ==
  ASSUME WizardInv, WizardInv', GuessInv, [Next]_vars
  PROVE  GuessInv'
<1> USE DEF redis, history
<1>1. TypeOK /\ TypeOK'
  BY DEF WizardInv
<1>2. CASE UNCHANGED vars
  <2>1. UNCHANGED <<task, code, attempts, sent, compared>>
    BY <1>2 DEF vars
  <2>2. Resetting' = Resetting /\ \A c \in Codes : Reading(c)' = Reading(c)
    BY <2>1 DEF Resetting, Reading
  <2> QED
    BY <2>1, <2>2, SameGuesses
<1>3. ASSUME NEW w \in Workers, Failure(w) PROVE GuessInv'
  <2>1. /\ OthersWait(w) /\ task'[w] = Idle
        /\ UNCHANGED <<code, attempts, sent, compared>>
    BY <1>1, <1>3, Moves, IdleTask DEF Failure, Refused
  <2> QED
    BY <1>1, <2>1, EndGuesses
<1>4. CASE Expire
  <2>1. /\ task' = task /\ attempts' = attempts /\ sent' = sent /\ compared' = compared
        /\ code' = 0 \/ code' = code
    BY <1>4 DEF Expire
  <2>2. Resetting' = Resetting /\ \A c \in Codes : Reading(c)' = Reading(c)
    BY <2>1 DEF Resetting, Reading
  <2>3. PICK w \in Workers : TRUE
    BY SignUpAssumption
  <2> QED
    BY <1>1, <2>1, <2>2, SameGuesses, GoneGuesses
<1>5. CASE EndSession
  <2>1. UNCHANGED <<task, code, attempts, sent, compared>>
    BY <1>5 DEF EndSession
  <2>2. Resetting' = Resetting /\ \A c \in Codes : Reading(c)' = Reading(c)
    BY <2>1 DEF Resetting, Reading
  <2> QED
    BY <2>1, <2>2, SameGuesses
<1> QED
  BY <1>1, <1>2, <1>3, <1>4, <1>5, StepGuesses, WindowGuesses DEF Next

\* A code is compared with at most OTP_MAX_ATTEMPTS guesses, as many again for each
\* request of a code that is handled meanwhile, and those that had read it
\* (otp.service.ts).
THEOREM GuessesAreBoundedAlways == Spec => []GuessesAreBounded
<1>1. Init => GuessInv
  <2> SUFFICES ASSUME Init PROVE GuessInv
    OBVIOUS
  <2>1. code = 0 /\ sent = 0
    BY DEF Init
  <2>2. ASSUME NEW c \in Codes PROVE Unused(c) /\ FormerBounded(c)
    <3>1. compared[c] = 0 /\ Reading(c) = {}
      BY DEF Init, Reading, Idle, Doing
    <3>2. /\ Cardinality({}) = 0 /\ OTP_MAX_ATTEMPTS \in Nat /\ Handlers \in Nat \ {0}
      BY FS_EmptySet, SignUpAssumption, Counting
    <3>3. OTP_MAX_ATTEMPTS * Handlers \in Nat
      BY <3>2
    <3> QED
      BY <3>1, <3>2, <3>3 DEF Unused, FormerBounded
  <2> QED
    BY <2>1, <2>2 DEF GuessInv, CurrentBounded
<1>2. WizardInv /\ WizardInv' /\ GuessInv /\ [Next]_vars => GuessInv'
  BY GuessesKept
<1>3. WizardInv /\ GuessInv => GuessesAreBounded
  <2> SUFFICES ASSUME WizardInv, GuessInv, NEW c \in Codes
               PROVE  compared[c] <= Cardinality(Workers) * (OTP_MAX_ATTEMPTS + 1) - 1
    BY DEF GuessesAreBounded
  <2> DEFINE m == OTP_MAX_ATTEMPTS * Handlers
             r == Cardinality(Reading(c))
             x == compared[c]
  <2>1. /\ m \in Nat /\ Handlers \in Nat \ {0} /\ OTP_MAX_ATTEMPTS \in Nat
        /\ x \in Nat /\ r \in Nat /\ Allowed \in Nat
    BY Numbers DEF WizardInv
  <2>2. x + r <= m + Handlers - 1 \/ x + Allowed <= m
    BY AllFormer DEF WizardInv, FormerBounded
  <2>3. PICK b \in Nat :
          b = Cardinality(Workers) * (OTP_MAX_ATTEMPTS + 1) /\ b = m + Handlers
    BY <2>1, Times DEF Handlers
  <2> HIDE DEF m, r
  <2>4. x <= m + Handlers - 1
    <3> HIDE DEF x
    <3> QED
      BY <2>1, <2>2
  <2>5. x <= b - 1
    <3> HIDE DEF x
    <3> QED
      BY <2>1, <2>3, <2>4
  <2> QED
    BY <2>3, <2>5
<1> QED
  BY <1>1, <1>2, <1>3, SignUpInvariance, PTL DEF Spec

================================================================================
