--------------------------------- MODULE SignUp ---------------------------------
(***************************************************************************)
(* Signing up to ObraCerta: the page /cadastro in the windows of one       *)
(* person's browser, the code sent to the WhatsApp number, the account and *)
(* the subscription at the end.                                            *)
(*                                                                         *)
(* The page is an assistant in steps.  It asks the web server, which asks  *)
(* the API and gives up after a while; the API goes on, and the person may *)
(* send the step again, or start over in the other method or in another    *)
(* window.  Each awaited call of the API is one step of a worker.          *)
(*                                                                         *)
(* The account is one person's: what its row, its profile and its          *)
(* subscription are made of is in Registration and Billing.  Codes that    *)
(* are drawn differ; code 0 is a wrong guess.                              *)
(***************************************************************************)
EXTENDS Integers, FiniteSets

CONSTANTS
  Tabs,              \* windows of the browser
  Workers,           \* handlers of the API that may run at the same time
  OTP_MAX_ATTEMPTS,
  MaxCodes, MaxFailures  \* bounds

ASSUME SignUpAssumption ==
  /\ OTP_MAX_ATTEMPTS \in Nat \ {0} /\ MaxCodes \in Nat /\ MaxFailures \in Nat
  /\ IsFiniteSet(Workers) /\ Workers # {}

VARIABLES
  page,        \* of each window: the form, its step and whether it waits for an answer
  signedIn,    \* the browser has the session cookies
  code, attempts, verified, \* the keys in Redis: the code sent last, 0 for none
  account,     \* the user's row and profile
  subscribed,  \* the user has a subscription
  task,        \* the handler each worker runs
  sent,        \* codes drawn so far
  failures,    \* calls that threw, processes that died, answers given up
  compared,    \* history: how many guesses each code was compared with
  expired,     \* history: a key of Redis expired
  signedOut    \* history: a session ended

redis == <<code, attempts, verified>>
history == <<compared, expired, signedOut>>
vars == <<page, signedIn, redis, account, subscribed, task, sent, failures, history>>

--------------------------------------------------------------------------------
(* Types *)

Codes == 1 .. MaxCodes
Methods == {"email", "whatsapp"}
PageSteps == {"dados", "whatsapp", "codigo", "perfil", "especialidades", "plano", "cartao",
              "pronto", "inicio"}
Ops == {"idle", "request", "verify", "cadastro", "register", "atuacao", "subscribe"}
Steps == {"idle", "setCode", "delAttempts", "getCode", "incr", "delCode", "delBoth",
          "setVerified", "findUser", "consume", "insert", "profile", "findActive", "create",
          "reply"}

\* waits: the window still shows the step it sent, has left it, or does not hear
\* the answer any more.
Task ==
  [op : Ops, step : Steps, tab : Tabs \cup {"none"}, typed : Codes \cup {0},
   stored : Codes \cup {0}, waits : {"espera", "saiu", "desistiu"}, to : PageSteps]

TypeOK ==
  /\ page \in [Tabs -> [form : Methods, step : PageSteps, loading : BOOLEAN]]
  /\ signedIn \in BOOLEAN
  /\ code \in Codes \cup {0} /\ attempts \in Nat /\ verified \in BOOLEAN
  /\ account \in {"none", "row", "profile"} /\ subscribed \in BOOLEAN
  /\ task \in [Workers -> Task]
  /\ sent \in 0 .. MaxCodes /\ failures \in Nat
  /\ compared \in [Codes -> Nat] /\ expired \in BOOLEAN /\ signedOut \in BOOLEAN

\* What a handler knows between two calls; to is the step its answer leads to.
Doing(op, step, t, typed, stored, waits, to) ==
  [op |-> op, step |-> step, tab |-> t, typed |-> typed, stored |-> stored, waits |-> waits,
   to |-> to]
Idle == Doing("idle", "idle", "none", 0, 0, "espera", "inicio")

FirstStep(form) == IF form = "email" THEN "dados" ELSE "whatsapp"
Showing(form, step, loading) == [form |-> form, step |-> step, loading |-> loading]
Opened(form) == Showing(form, FirstStep(form), FALSE)

Init ==
  /\ page = [t \in Tabs |-> Opened("email")]
  /\ signedIn = FALSE
  /\ code = 0 /\ attempts = 0 /\ verified = FALSE
  /\ account = "none" /\ subscribed = FALSE
  /\ task = [w \in Workers |-> Idle]
  /\ sent = 0 /\ failures = 0
  /\ compared = [c \in Codes |-> 0] /\ expired = FALSE /\ signedOut = FALSE

Free(w) == task[w] = Idle
At(w, step) == task[w].step = step
Start(w, t) == task' = [task EXCEPT ![w] = t]
Goto(w, step) == task' = [task EXCEPT ![w].step = step]
Shows(t, step) == page[t].step = step /\ ~page[t].loading
Show(t, step, loading) == page' = [page EXCEPT ![t] = Showing(@.form, step, loading)]
Left(t, waits) ==
  task' = [w \in Workers |->
    IF task[w].tab = t /\ task[w].waits # "desistiu" THEN [task[w] EXCEPT !.waits = waits]
    ELSE task[w]]
Quiet == \A w \in Workers : Free(w)

--------------------------------------------------------------------------------
(* The page *)

\* useAsyncAction.run: the button is off until the answer comes.  The step an answer
\* leads to depends on who registers: only professionals choose a plan here.
Send(t, w, op, step, typed, to) ==
  /\ Free(w)
  /\ Show(t, page[t].step, TRUE)
  /\ Start(w, Doing(op, step, t, typed, 0, "espera", to))
  /\ UNCHANGED <<signedIn, redis, account, subscribed, sent, failures, history>>

\* requestOtp
RequestOtp(t, w) ==
  Shows(t, "whatsapp") /\ sent < MaxCodes /\ Send(t, w, "request", "setCode", 0, "codigo")

\* verifyOtp, with any code the person was sent, or a wrong one.
VerifyOtp(t, w, typed) ==
  Shows(t, "codigo") /\ Send(t, w, "verify", "getCode", typed, "perfil")

\* cadastrar
Cadastrar(t, w) ==
  /\ Shows(t, "perfil")
  /\ \E to \in {"especialidades", "inicio"} : Send(t, w, "cadastro", "consume", 0, to)

\* submit, of the form with a password.
Submit(t, w) ==
  /\ Shows(t, "dados")
  /\ \E to \in {"plano", "inicio"} : Send(t, w, "register", "insert", 0, to)

\* salvarAtuacao; without the cookies the web server refuses it, and the window stays.
SalvarAtuacao(t, w) ==
  Shows(t, "especialidades") /\ signedIn /\ Send(t, w, "atuacao", "reply", 0, "plano")

\* assinarComCartao, refused in the same way.
AssinarComCartao(t, w) ==
  Shows(t, "cartao") /\ signedIn /\ Send(t, w, "subscribe", "findActive", 0, "pronto")

\* escolherPlano, and the way back from the card.
EscolherPlano(t) ==
  /\ \/ Shows(t, "plano") /\ Show(t, "cartao", FALSE)
     \/ Shows(t, "cartao") /\ Show(t, "plano", FALSE)
  /\ UNCHANGED <<signedIn, redis, account, subscribed, task, sent, failures, history>>

\* MethodTabs: the other form, from its first step.
ChangeMethod(t, form) ==
  /\ page[t].step # "inicio" /\ page[t].form # form
  /\ page' = [page EXCEPT ![t] = Opened(form)]
  /\ Left(t, "saiu")
  /\ UNCHANGED <<signedIn, redis, account, subscribed, sent, failures, history>>

\* The page is loaded again: nothing hears the answers it waited for.
Reload(t) ==
  /\ page[t] # Opened("email")
  /\ page' = [page EXCEPT ![t] = Opened("email")]
  /\ Left(t, "desistiu")
  /\ UNCHANGED <<signedIn, redis, account, subscribed, sent, failures, history>>

\* "Ir para o painel"
OpenPanel(t) ==
  /\ Shows(t, "pronto")
  /\ Show(t, "inicio", FALSE)
  /\ UNCHANGED <<signedIn, redis, account, subscribed, task, sent, failures, history>>

\* The handler ends with an error, which the page shows in the step it is in.
Refused(w) ==
  /\ page' = IF task[w].waits = "espera"
       THEN [page EXCEPT ![task[w].tab].loading = FALSE] ELSE page
  /\ Start(w, Idle)

\* Answers that sign the user in: the route handler writes the cookies.
SignsIn(w) ==
  \/ task[w].op \in {"cadastro", "register"}
  \/ task[w].op = "verify" /\ task[w].to = "inicio"

\* Mutated: the answer of a handler that was given up moves the page too.
ReplyLate(w) ==
  /\ At(w, "reply")
  /\ Show(task[w].tab, task[w].to, FALSE)
  /\ signedIn' = (signedIn \/ (task[w].waits # "desistiu" /\ SignsIn(w)))
  /\ Start(w, Idle)
  /\ UNCHANGED <<redis, account, subscribed, sent, failures, history>>

\* The answer: the page goes on if it still waits.  A page that was left still goes
\* to the panel (router.replace), an answer that was given up changes nothing.
Reply(w) ==
  /\ At(w, "reply")
  /\ IF task[w].waits = "espera" \/ (task[w].waits = "saiu" /\ task[w].to = "inicio")
       THEN Show(task[w].tab, task[w].to, FALSE) ELSE UNCHANGED page
  /\ signedIn' = (signedIn \/ (task[w].waits # "desistiu" /\ SignsIn(w)))
  /\ Start(w, Idle)
  /\ UNCHANGED <<redis, account, subscribed, sent, failures, history>>

--------------------------------------------------------------------------------
(* The code *)

\* OtpService.request: the new code takes the place of the last one ...
SetCode(w) ==
  /\ At(w, "setCode") /\ sent < MaxCodes
  /\ sent' = sent + 1
  /\ code' = sent + 1
  /\ Goto(w, "delAttempts")
  /\ UNCHANGED <<page, signedIn, attempts, verified, account, subscribed, failures, history>>

\* ... and the attempts start again.
DelAttempts(w) ==
  /\ At(w, "delAttempts")
  /\ attempts' = 0
  /\ Goto(w, "reply")
  /\ UNCHANGED <<page, signedIn, code, verified, account, subscribed, sent, failures, history>>

\* OtpService.verify: the code there is ...
GetCode(w) ==
  /\ At(w, "getCode")
  /\ IF code = 0
       THEN Refused(w)
       ELSE Start(w, Doing("verify", "incr", task[w].tab, task[w].typed, code, task[w].waits,
                           task[w].to))
            /\ UNCHANGED page
  /\ UNCHANGED <<signedIn, redis, account, subscribed, sent, failures, history>>

\* Mutated: the attempts are counted, and not limited.
IncrUnlimited(w) ==
  /\ At(w, "incr")
  /\ attempts' = attempts + 1
  /\ compared' = [compared EXCEPT ![task[w].stored] = @ + 1]
  /\ IF task[w].typed = task[w].stored
       THEN Goto(w, "delBoth") /\ UNCHANGED page
       ELSE Refused(w)
  /\ UNCHANGED <<signedIn, code, verified, account, subscribed, sent, failures, expired,
                 signedOut>>

\* ... one more attempt, compared with the code that was read unless it is one too
\* many ...
Incr(w) ==
  /\ At(w, "incr")
  /\ attempts' = attempts + 1
  /\ IF attempts + 1 > OTP_MAX_ATTEMPTS
       THEN Goto(w, "delCode") /\ UNCHANGED <<page, compared>>
       ELSE /\ compared' = [compared EXCEPT ![task[w].stored] = @ + 1]
            /\ IF task[w].typed = task[w].stored
                 THEN Goto(w, "delBoth") /\ UNCHANGED page
                 ELSE Refused(w)
  /\ UNCHANGED <<signedIn, code, verified, account, subscribed, sent, failures, expired,
                 signedOut>>

\* ... in which case the code goes, whichever it is by now.
DelCode(w) ==
  /\ At(w, "delCode")
  /\ code' = 0
  /\ Refused(w)
  /\ UNCHANGED <<signedIn, attempts, verified, account, subscribed, sent, failures, history>>

\* A right code is spent ...
DelBoth(w) ==
  /\ At(w, "delBoth")
  /\ code' = 0 /\ attempts' = 0
  /\ Goto(w, "setVerified")
  /\ UNCHANGED <<page, signedIn, verified, account, subscribed, sent, failures, history>>

\* Mutated: the right code is spent, and no mark is left.
SetVerifiedNot(w) ==
  /\ At(w, "setVerified")
  /\ Goto(w, "findUser")
  /\ UNCHANGED <<page, signedIn, redis, account, subscribed, sent, failures, history>>

\* ... and leaves the mark that a registration needs.
SetVerified(w) ==
  /\ At(w, "setVerified")
  /\ verified' = TRUE
  /\ Goto(w, "findUser")
  /\ UNCHANGED <<page, signedIn, code, attempts, account, subscribed, sent, failures, history>>

\* verifyOtp: who has an account is signed in.
FindUser(w) ==
  /\ At(w, "findUser")
  /\ Start(w, Doing("verify", "reply", task[w].tab, task[w].typed, task[w].stored,
                    task[w].waits, IF account = "none" THEN "perfil" ELSE "inicio"))
  /\ UNCHANGED <<page, signedIn, redis, account, subscribed, sent, failures, history>>

--------------------------------------------------------------------------------
(* The account and the subscription *)

\* register: the verification is spent, whatever comes of the rest.
ConsumeVerified(w) ==
  /\ At(w, "consume")
  /\ verified' = FALSE
  /\ IF verified THEN Goto(w, "insert") /\ UNCHANGED page ELSE Refused(w)
  /\ UNCHANGED <<signedIn, code, attempts, account, subscribed, sent, failures, history>>

\* UsersService.create: the number is unique.
InsertUser(w) ==
  /\ At(w, "insert")
  /\ IF account = "none"
       THEN account' = "row" /\ Goto(w, "profile") /\ UNCHANGED page
       ELSE Refused(w) /\ UNCHANGED account
  /\ UNCHANGED <<signedIn, redis, subscribed, sent, failures, history>>

CreateProfile(w) ==
  /\ At(w, "profile")
  /\ account' = "profile"
  /\ Goto(w, "reply")
  /\ UNCHANGED <<page, signedIn, redis, subscribed, sent, failures, history>>

\* subscribe: no other subscription when it looks ...
FindActive(w) ==
  /\ At(w, "findActive")
  /\ IF subscribed THEN Refused(w) ELSE Goto(w, "create") /\ UNCHANGED page
  /\ UNCHANGED <<signedIn, redis, account, subscribed, sent, failures, history>>

\* ... nor when it inserts.
CreateSubscription(w) ==
  /\ At(w, "create")
  /\ subscribed' = TRUE
  /\ IF subscribed THEN Refused(w) ELSE Goto(w, "reply") /\ UNCHANGED page
  /\ UNCHANGED <<signedIn, redis, account, sent, failures, history>>

--------------------------------------------------------------------------------
(* Time and failures *)

\* The time to live of a key ends.
Expire ==
  /\ \/ code # 0 /\ code' = 0 /\ UNCHANGED verified
     \/ verified /\ verified' = FALSE /\ UNCHANGED code
  /\ expired' = TRUE
  /\ UNCHANGED <<page, signedIn, attempts, account, subscribed, task, sent, failures, compared,
                 signedOut>>

\* The person signs out in the panel, of this or of another window, or the session is
\* over: the browser's cookies go.
EndSession ==
  /\ signedIn
  /\ signedIn' = FALSE /\ signedOut' = TRUE
  /\ UNCHANGED <<page, redis, account, subscribed, task, sent, failures, compared, expired>>

\* The web server gives up: the page shows an error, the API goes on.
GiveUp(w) ==
  /\ ~Free(w) /\ task[w].waits # "desistiu"
  /\ failures < MaxFailures
  /\ failures' = failures + 1
  /\ page' = IF task[w].waits = "espera"
       THEN [page EXCEPT ![task[w].tab].loading = FALSE] ELSE page
  /\ task' = [task EXCEPT ![w].waits = "desistiu"]
  /\ UNCHANGED <<signedIn, redis, account, subscribed, sent, history>>

\* A call throws, or the process dies.
Failure(w) ==
  /\ ~Free(w)
  /\ failures < MaxFailures
  /\ failures' = failures + 1
  /\ Refused(w)
  /\ UNCHANGED <<signedIn, redis, account, subscribed, sent, history>>

--------------------------------------------------------------------------------
(* Specification *)

Press(t, w) ==
  \/ RequestOtp(t, w) \/ Cadastrar(t, w) \/ Submit(t, w) \/ SalvarAtuacao(t, w)
  \/ AssinarComCartao(t, w)
  \/ \E typed \in 0 .. sent : VerifyOtp(t, w, typed)

Step(w) ==
  \/ Reply(w) \/ SetCode(w) \/ DelAttempts(w) \/ GetCode(w) \/ Incr(w) \/ DelCode(w)
  \/ DelBoth(w) \/ SetVerified(w) \/ FindUser(w) \/ ConsumeVerified(w) \/ InsertUser(w)
  \/ CreateProfile(w) \/ FindActive(w) \/ CreateSubscription(w)

Next ==
  \/ \E w \in Workers : Step(w) \/ GiveUp(w) \/ Failure(w) \/ \E t \in Tabs : Press(t, w)
  \/ \E t \in Tabs :
       \/ EscolherPlano(t) \/ OpenPanel(t) \/ Reload(t)
       \/ \E form \in Methods : ChangeMethod(t, form)
  \/ Expire \/ EndSession

Spec == Init /\ [][Next]_vars

--------------------------------------------------------------------------------
(* Properties *)

\* A window that asks for the profession, the plan or the card belongs to a person with
\* a profile who is signed in, or was until a session ended in this or another window,
\* and one that thanks for the subscription to a subscriber, whichever answers are
\* late, lost or given up, in whichever window (page.tsx).
WizardFollowsAccount ==
  \A t \in Tabs :
    /\ page[t].step \in {"especialidades", "plano", "cartao", "pronto"} =>
         (signedIn \/ signedOut) /\ account = "profile"
    /\ page[t].step = "pronto" => subscribed

\* "limite de tentativas" (otp.service.ts): a code is compared with at most
\* OTP_MAX_ATTEMPTS guesses, and as many again for each request of a code that is
\* handled meanwhile, besides those that had read it.
GuessesAreBounded ==
  \A c \in Codes :
    compared[c] <= Cardinality(Workers) * (OTP_MAX_ATTEMPTS + 1) - 1

\* "o WhatsApp fica marcado como verificado para o cadastro prosseguir sem novo OTP"
\* (auth.service.ts): a window that asks for the profile can send it, or the account
\* was made elsewhere, unless something failed or expired.
PerfilCanProceed ==
  Quiet /\ failures = 0 /\ ~expired =>
    \A t \in Tabs : page[t].step = "perfil" => verified \/ account # "none"

================================================================================
