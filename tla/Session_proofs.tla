--------------------------- MODULE Session_proofs ---------------------------
(***************************************************************************)
(* Theorems about Session, for any number of tabs, users, clicks and       *)
(* faults.  Three invariants, each on top of the first: what the pages,    *)
(* the calls and the storage hold (SessionInv), which tokens there are and *)
(* which of them can still be good (TokensSound), and which document has   *)
(* which challenge (FormsSound).                                           *)
(***************************************************************************)
EXTENDS Session, TLAPS

\* A function of the fields f.
HasShape(r, f) == r = [x \in f |-> r[x]]

CallFields == {"kind", "tab", "token", "arg", "reply"}

\* What a login or a registration carries was read from one challenge, and an
\* answer to a login that is a session has its token.
CallSound(c) ==
  /\ HasShape(c, CallFields)
  /\ c.kind \in {"login", "register"} => c.arg.captcha = c.arg.answer
  /\ c.kind = "login" => c.arg.user \in Users
  /\ c.kind = "login" /\ c.reply # None /\ c.reply.status = 200 /\ c.reply.data # None
     => c.reply.data \in [token : Token, mfa : BOOLEAN]

CallsSound ==
  /\ sent \in Nat
  /\ calls = [n \in DOMAIN calls |-> calls[n]]
  /\ \A n \in DOMAIN calls : n \in Nat /\ n <= sent /\ CallSound(calls[n])

\* What a form asks and what was typed are of its one challenge.
PageSound(p) ==
  /\ HasShape(p, DOMAIN p) /\ "page" \in DOMAIN p
  /\ p.page \in {"login", "register"} =>
       /\ {"captcha", "question", "answer", "busy", "done"} \subseteq DOMAIN p
       /\ p.question # None => p.captcha = p.question
       /\ p.captcha # None /\ p.answer # None => p.answer = p.captcha

DocsSound == doc = [t \in Tabs |-> doc[t]] /\ \A t \in Tabs : PageSound(doc[t])

StoreSound ==
  /\ store \in [token : Token \cup {None}, user : StoredUser \cup {None}]
  /\ TokenMatchesUser

SessionInv == CallsSound /\ DocsSound /\ StoreSound

-----------------------------------------------------------------------------
(* Calls *)

LEMMA RequestNone ==
  ASSUME CallsSound, NEW done, Request(done, <<>>)
  PROVE  /\ sent' = sent /\ sent' \in Nat
         /\ calls' = [n \in DOMAIN calls \ done |-> calls[n]]
<1>1. Len(<<>>) = 0
  OBVIOUS
<1>2. sent' = sent
  BY <1>1 DEF Request, CallsSound
<1>3. (DOMAIN calls \ done) \cup (sent + 1 .. sent + 0) = DOMAIN calls \ done
  BY DEF CallsSound
<1>4. \A n \in DOMAIN calls : ~(n > sent)
  BY DEF CallsSound
<1> QED
  BY <1>1, <1>2, <1>3, <1>4 DEF Request, CallsSound

LEMMA RequestOne ==
  ASSUME CallsSound, NEW done, NEW c, Request(done, <<c>>)
  PROVE  /\ sent' = sent + 1 /\ sent' \in Nat /\ sent' \notin DOMAIN calls
         /\ calls' = [n \in (DOMAIN calls \ done) \cup {sent'} |-> IF n = sent' THEN c ELSE calls[n]]
<1>1. sent' = sent + 1 /\ sent' \in Nat
  BY DEF Request, CallsSound
<1>2. sent + 1 .. sent + Len(<<c>>) = {sent + 1}
  BY DEF CallsSound
<1>3. calls' = [n \in (DOMAIN calls \ done) \cup {sent + 1} |->
                  IF n > sent THEN <<c>>[n - sent] ELSE calls[n]]
  BY <1>2 DEF Request
<1>4. \A n \in DOMAIN calls : n <= sent /\ n \in Nat
  BY DEF CallsSound
<1>5. \A n \in (DOMAIN calls \ done) \cup {sent + 1} :
        (IF n > sent THEN <<c>>[n - sent] ELSE calls[n]) = (IF n = sent + 1 THEN c ELSE calls[n])
  <2>1. <<c>>[(sent + 1) - sent] = c
    <3>1. (sent + 1) - sent = 1
      BY DEF CallsSound
    <3> QED
      BY <3>1
  <2> QED
    BY <1>4, <2>1 DEF CallsSound
<1>6. calls' = [n \in (DOMAIN calls \ done) \cup {sent + 1} |-> IF n = sent + 1 THEN c ELSE calls[n]]
  BY <1>3, <1>5
<1>7. sent + 1 \notin DOMAIN calls
  BY <1>4 DEF CallsSound
<1> QED
  BY <1>1, <1>6, <1>7

LEMMA NothingNew ==
  ASSUME CallsSound, NEW done, Request(done, <<>>)
  PROVE  CallsSound'
<1>1. sent' = sent /\ calls' = [n \in DOMAIN calls \ done |-> calls[n]]
  BY RequestNone
<1> QED
  BY <1>1 DEF CallsSound

LEMMA OneNew ==
  ASSUME CallsSound, NEW done, NEW c, CallSound(c), Request(done, <<c>>)
  PROVE  CallsSound'
<1>1. /\ sent' = sent + 1 /\ sent' \in Nat
      /\ calls' = [n \in (DOMAIN calls \ done) \cup {sent'} |-> IF n = sent' THEN c ELSE calls[n]]
  BY RequestOne
<1>2. \A n \in DOMAIN calls : n \in Nat /\ n <= sent' /\ CallSound(calls[n])
  BY <1>1 DEF CallsSound
<1>3. \A n \in DOMAIN calls' : n \in Nat /\ n <= sent' /\ CallSound(calls'[n])
  BY <1>1, <1>2
<1>4. calls' = [n \in DOMAIN calls' |-> calls'[n]]
  BY <1>1
<1> QED
  BY <1>1, <1>3, <1>4 DEF CallsSound

LEMMA Answering ==
  ASSUME CallsSound, NEW n \in DOMAIN calls, NEW reply, Answer(n, reply),
         calls[n].kind = "login" /\ reply # None /\ reply.status = 200 /\ reply.data # None
           => reply.data \in [token : Token, mfa : BOOLEAN]
  PROVE  CallsSound'
<1>1. sent' = sent /\ DOMAIN calls' = DOMAIN calls
  BY DEF Answer
<1>2. calls' = [m \in DOMAIN calls' |-> calls'[m]]
  BY DEF Answer
<1>3. PICK c : c = [calls[n] EXCEPT !.reply = reply]
  OBVIOUS
<1>4. CallSound(c)
  <2>1. HasShape(calls[n], CallFields) /\ CallSound(calls[n])
    BY DEF CallsSound, CallSound
  <2>2. DOMAIN calls[n] = CallFields
    BY <2>1 DEF HasShape
  <2>3. c = [x \in CallFields |-> IF x = "reply" THEN reply ELSE calls[n][x]]
    BY <1>3, <2>1, <2>2 DEF HasShape, CallFields
  <2>4. c.kind = calls[n].kind /\ c.arg = calls[n].arg /\ c.reply = reply
    BY <2>3 DEF CallFields
  <2>5. HasShape(c, CallFields)
    BY <2>3 DEF HasShape
  <2> QED
    BY <2>1, <2>4, <2>5 DEF CallSound
<1>5. \A m \in DOMAIN calls : calls'[m] = IF m = n THEN c ELSE calls[m]
  BY <1>3 DEF Answer, CallsSound
<1> QED
  BY <1>1, <1>2, <1>4, <1>5 DEF CallsSound

\* A call whose document is gone.
LEMMA Orphaned ==
  ASSUME NEW c, CallSound(c)
  PROVE  CallSound([c EXCEPT !.tab = None])
<1>1. PICK d : d = [c EXCEPT !.tab = None]
  OBVIOUS
<1>2. HasShape(c, CallFields) /\ DOMAIN c = CallFields
  BY DEF CallSound, HasShape
<1>3. d = [x \in CallFields |-> IF x = "tab" THEN None ELSE c[x]]
  BY <1>1, <1>2 DEF HasShape, CallFields
<1>4. d.kind = c.kind /\ d.arg = c.arg /\ d.reply = c.reply
  BY <1>3 DEF CallFields
<1>5. HasShape(d, CallFields)
  BY <1>3 DEF HasShape
<1>6. CallSound(d)
  BY <1>4, <1>5 DEF CallSound
<1> QED
  BY <1>1, <1>6

\* What t leaves behind of call n.
Left(t, n) == IF Mine(t, n) THEN [calls[n] EXCEPT !.tab = None] ELSE calls[n]

LEMMA LeaveNone ==
  ASSUME CallsSound, NEW t, Leave(t, <<>>)
  PROVE  /\ sent' = sent /\ sent' \in Nat
         /\ calls' = [n \in DOMAIN calls \ Abandoned(t) |-> Left(t, n)]
<1>1. Len(<<>>) = 0
  OBVIOUS
<1>2. sent' = sent /\ sent + 1 .. sent + Len(<<>>) = {}
  BY <1>1 DEF Leave, CallsSound
<1>3. \A n \in DOMAIN calls : ~(n > sent)
  BY DEF CallsSound
<1> QED
  BY <1>2, <1>3 DEF Leave, CallsSound, Left

LEMMA LeaveOne ==
  ASSUME CallsSound, NEW t, NEW c, Leave(t, <<c>>)
  PROVE  /\ sent' = sent + 1 /\ sent' \in Nat /\ sent' \notin DOMAIN calls
         /\ calls' = [n \in (DOMAIN calls \ Abandoned(t)) \cup {sent'} |->
                        IF n = sent' THEN c ELSE Left(t, n)]
<1>1. sent' = sent + 1 /\ sent' \in Nat
  BY DEF Leave, CallsSound
<1>2. sent + 1 .. sent + Len(<<c>>) = {sent + 1}
  BY DEF CallsSound
<1>3. calls' = [n \in (DOMAIN calls \ Abandoned(t)) \cup {sent + 1} |->
                  IF n > sent THEN <<c>>[n - sent] ELSE Left(t, n)]
  BY <1>2 DEF Leave, Left
<1>4. \A n \in DOMAIN calls : n <= sent /\ n \in Nat
  BY DEF CallsSound
<1>5. \A n \in (DOMAIN calls \ Abandoned(t)) \cup {sent + 1} :
        (IF n > sent THEN <<c>>[n - sent] ELSE Left(t, n)) = (IF n = sent + 1 THEN c ELSE Left(t, n))
  <2>1. <<c>>[(sent + 1) - sent] = c
    <3>1. (sent + 1) - sent = 1
      BY DEF CallsSound
    <3> QED
      BY <3>1
  <2> QED
    BY <1>4, <2>1 DEF CallsSound
<1>6. calls' = [n \in (DOMAIN calls \ Abandoned(t)) \cup {sent + 1} |-> IF n = sent + 1 THEN c ELSE Left(t, n)]
  BY <1>3, <1>5
<1>7. sent + 1 \notin DOMAIN calls
  BY <1>4 DEF CallsSound
<1> QED
  BY <1>1, <1>6, <1>7

LEMMA LeavingSound ==
  ASSUME CallsSound, NEW t, NEW new,
         new = <<>> \/ \E c : CallSound(c) /\ new = <<c>>, Leave(t, new)
  PROVE  CallsSound'
<1>1. \A n \in DOMAIN calls : n \in Nat /\ n <= sent /\ CallSound(Left(t, n))
  BY Orphaned DEF CallsSound, Left
<1>2. CASE new = <<>>
  <2>1. sent' = sent /\ sent' \in Nat /\ calls' = [n \in DOMAIN calls \ Abandoned(t) |-> Left(t, n)]
    BY <1>2, LeaveNone
  <2> QED
    BY <1>1, <2>1 DEF CallsSound
<1>3. CASE \E c : CallSound(c) /\ new = <<c>>
  <2>1. PICK c : CallSound(c) /\ new = <<c>>
    BY <1>3
  <2>2. /\ sent' = sent + 1 /\ sent' \in Nat
        /\ calls' = [n \in (DOMAIN calls \ Abandoned(t)) \cup {sent'} |->
                        IF n = sent' THEN c ELSE Left(t, n)]
    BY <2>1, LeaveOne
  <2>3. \A n \in DOMAIN calls : n <= sent'
    BY <2>2 DEF CallsSound
  <2>4. \A n \in DOMAIN calls' : n \in Nat /\ n <= sent' /\ CallSound(calls'[n])
    BY <1>1, <2>1, <2>2, <2>3
  <2>5. calls' = [n \in DOMAIN calls' |-> calls'[n]]
    BY <2>2
  <2> QED
    BY <2>2, <2>4, <2>5 DEF CallsSound
<1> QED
  BY <1>2, <1>3

LEMMA CallFromPage ==
  ASSUME NEW t, NEW kind, NEW arg,
         kind \in {"login", "register"} => arg.captcha = arg.answer,
         kind = "login" => arg.user \in Users
  PROVE  CallSound(Call(t, kind, arg))
BY DEF Call, CallSound, HasShape, CallFields

LEMMA CallForCaptcha == ASSUME NEW t PROVE CallSound(CaptchaCall(t))
BY DEF CaptchaCall, CallSound, HasShape, CallFields

-----------------------------------------------------------------------------
(* Documents *)

LEMMA PageSet ==
  ASSUME DocsSound, NEW t \in Tabs, NEW p, PageSound(p), doc' = [doc EXCEPT ![t] = p]
  PROVE  DocsSound'
BY DEF DocsSound

\* What is drawn beside the captcha.
LEMMA FieldSet ==
  ASSUME NEW p, PageSound(p), NEW v
  PROVE  /\ PageSound([p EXCEPT !.busy = v])
         /\ PageSound([p EXCEPT !.code = v])
         /\ PageSound([p EXCEPT !.done = v])
         /\ PageSound([p EXCEPT !.mfa = v])
         /\ PageSound([p EXCEPT !.secret = v])
<1> DEFINE with(f) == [x \in DOMAIN p |-> IF x = f THEN v ELSE p[x]]
<1>1. ASSUME NEW f, f \notin {"page", "captcha", "question", "answer"}
      PROVE  PageSound(with(f))
  <2>1. /\ with(f).page = p.page
        /\ p.page \in {"login", "register"} =>
             /\ with(f).captcha = p.captcha
             /\ with(f).question = p.question
             /\ with(f).answer = p.answer
    BY <1>1 DEF PageSound
  <2> QED
    BY <2>1 DEF PageSound, HasShape
<1>2. /\ [p EXCEPT !.busy = v] = with("busy")
      /\ [p EXCEPT !.code = v] = with("code")
      /\ [p EXCEPT !.done = v] = with("done")
      /\ [p EXCEPT !.mfa = v] = with("mfa")
      /\ [p EXCEPT !.secret = v] = with("secret")
  BY DEF PageSound, HasShape
<1> HIDE DEF with
<1> QED
  BY <1>1, <1>2

\* A load of the captcha begins: no answer can go with the new one.
LEMMA CaptchaCleared ==
  ASSUME NEW p, PageSound(p)
  PROVE  PageSound([p EXCEPT !.captcha = None, !.question = None])
<1>1. PICK q : q = [p EXCEPT !.captcha = None, !.question = None]
  OBVIOUS
<1>2. /\ q = [x \in DOMAIN p |-> IF x \in {"captcha", "question"} THEN None ELSE p[x]]
      /\ DOMAIN q = DOMAIN p
  BY <1>1 DEF PageSound, HasShape
<1>3. q.page = p.page /\ (p.page \in {"login", "register"} => q.captcha = None /\ q.question = None)
  BY <1>2 DEF PageSound
<1>4. PageSound(q)
  BY <1>2, <1>3 DEF PageSound, HasShape
<1> QED
  BY <1>1, <1>4

LEMMA NewPages ==
  /\ \A q \in {"login", "register"} : PageSound(FormPage(q))
  /\ \A u : PageSound(PortalPage(u))
  /\ \A r : PageSound(Leaving(r))
BY DEF PageSound, HasShape, FormPage, PortalPage, Leaving

-----------------------------------------------------------------------------
(* Steps that several actions take *)

LEMMA LoadingCaptcha ==
  ASSUME CallsSound, DocsSound, NEW t \in Tabs, NEW p, PageSound(p), NEW done,
         LoadCaptcha(t, p, done)
  PROVE  CallsSound' /\ DocsSound'
<1>1. CallsSound'
  BY OneNew, CallForCaptcha DEF LoadCaptcha
<1>2. DocsSound'
  BY PageSet, CaptchaCleared DEF LoadCaptcha
<1> QED
  BY <1>1, <1>2

LEMMA GoingToForm ==
  ASSUME CallsSound, DocsSound, NEW t \in Tabs, NEW p \in {"login", "register"}, GoToForm(t, p)
  PROVE  CallsSound' /\ DocsSound'
<1>1. CallsSound'
  BY LeavingSound, CallForCaptcha DEF GoToForm
<1>2. DocsSound'
  BY PageSet, NewPages DEF GoToForm
<1> QED
  BY <1>1, <1>2

LEMMA GoingToPortal ==
  ASSUME CallsSound, DocsSound, NEW t \in Tabs, NEW r, GoToPortal(t, r)
  PROVE  CallsSound' /\ DocsSound'
<1>1. CallsSound'
  BY LeavingSound DEF GoToPortal
<1>2. DocsSound'
  BY PageSet, NewPages DEF GoToPortal
<1> QED
  BY <1>1, <1>2

LEMMA Clearing ==
  ASSUME StoreSound, store' = ClearAuth
  PROVE  StoreSound'
BY DEF StoreSound, ClearAuth, TokenMatchesUser

-----------------------------------------------------------------------------
(* The invariant *)

LEMMA SessionInit == Init => SessionInv
<1> SUFFICES ASSUME Init PROVE SessionInv
  OBVIOUS
<1>1. CallsSound
  BY DEF Init, BrowserInit, CallsSound
<1>2. DocsSound
  BY NewPages DEF Init, DocsSound
<1>3. StoreSound
  <2>1. CASE store = [token |-> None, user |-> None]
    BY <2>1 DEF StoreSound, TokenMatchesUser
  <2>2. ASSUME NEW u \in Users,
               store = [token |-> [user |-> u, number |-> 0], user |-> [name |-> u, mfa |-> u \in factor]]
        PROVE  StoreSound
    <3>1. store.token \in Token /\ store.user \in StoredUser
      BY <2>2 DEF Token, StoredUser
    <3>2. store.token.user = store.user.name
      BY <2>2
    <3>3. store.token # None /\ store.user # None
      BY <3>1, SessionAssumption
    <3> QED
      BY <2>2, <3>1, <3>2, <3>3 DEF StoreSound, TokenMatchesUser
  <2> QED
    BY <2>1, <2>2 DEF Init
<1> QED
  BY <1>1, <1>2, <1>3 DEF SessionInv

LEMMA UserSteps ==
  ASSUME SessionInv, NEW t \in Tabs, UserStep(t)
  PROVE  SessionInv'
<1> USE DEF SessionInv
<1>0. PageSound(doc[t])
  BY DEF DocsSound
<1>1. UNCHANGED store
  BY DEF UserStep, Open, Refresh, TypeAnswer, SubmitLogin, SubmitRegister, Submit, Logout,
         OpenMfa, Enroll, Verify
<1>2. StoreSound'
  BY <1>1 DEF StoreSound, TokenMatchesUser
<1>3. ASSUME NEW to \in {"login", "register", "portal"}, Open(t, to)
      PROVE  CallsSound' /\ DocsSound'
  BY <1>3, GoingToForm, GoingToPortal DEF Open
<1>4. CASE Refresh(t)
  BY <1>0, <1>2, <1>4, LoadingCaptcha DEF Refresh
<1>5. CASE TypeAnswer(t)
  <2>1. CallsSound'
    BY <1>5 DEF TypeAnswer, browser, CallsSound
  <2>2. PICK p : p = [doc[t] EXCEPT !.answer = doc[t].question]
    OBVIOUS
  <2>3. /\ p = [x \in DOMAIN doc[t] |-> IF x = "answer" THEN doc[t].question ELSE doc[t][x]]
        /\ DOMAIN p = DOMAIN doc[t]
    BY <1>0, <2>2 DEF PageSound, HasShape
  <2>4. /\ p.page = doc[t].page /\ doc[t].page \in {"login", "register"}
        /\ p.answer = doc[t].question /\ p.captcha = doc[t].captcha /\ p.question = doc[t].question
        /\ doc[t].question # None
    BY <1>0, <1>5, <2>3 DEF TypeAnswer, OnForm, PageSound
  <2>5. PageSound(p)
    BY <1>0, <2>3, <2>4 DEF PageSound, HasShape
  <2>6. doc' = [doc EXCEPT ![t] = p]
    BY <1>5, <2>2 DEF TypeAnswer
  <2> QED
    BY <1>2, <2>1, <2>5, <2>6, PageSet
<1>6. ASSUME NEW kind \in {"login", "register"}, NEW arg, Submit(t, kind, arg),
             arg.captcha = doc[t].captcha, arg.answer = doc[t].answer,
             kind = "login" => arg.user \in Users
      PROVE  CallsSound' /\ DocsSound'
  <2>1. arg.captcha = arg.answer
    BY <1>0, <1>6 DEF Submit, PageSound
  <2>2. CallSound(Call(t, kind, arg))
    BY <1>6, <2>1, CallFromPage
  <2>3. CallsSound'
    BY <1>6, <2>2, OneNew DEF Submit
  <2>4. PageSound([doc[t] EXCEPT !.busy = TRUE])
    BY <1>0, FieldSet
  <2> QED
    BY <1>6, <2>3, <2>4, PageSet DEF Submit
<1>7. ASSUME NEW u \in Users, SubmitLogin(t, u)
      PROVE  CallsSound' /\ DocsSound'
  BY <1>6, <1>7 DEF SubmitLogin
<1>8. CASE SubmitRegister(t)
  BY <1>2, <1>6, <1>8 DEF SubmitRegister
<1>9. CASE Logout(t) \/ OpenMfa(t)
  <2>1. CallsSound'
    BY <1>9, CallFromPage, OneNew DEF Logout, OpenMfa
  <2> QED
    BY <1>2, <1>9, <2>1 DEF Logout, OpenMfa, DocsSound
<1>10. CASE Enroll(t) \/ Verify(t)
  <2>1. CallsSound'
    BY <1>10, CallFromPage, OneNew DEF Enroll, Verify
  <2>2. PICK v : doc' = [doc EXCEPT ![t] = [doc[t] EXCEPT !.busy = v]]
    BY <1>10 DEF Enroll, Verify
  <2> QED
    BY <1>0, <1>2, <2>1, <2>2, FieldSet, PageSet
<1> QED
  BY <1>2, <1>3, <1>4, <1>5, <1>7, <1>8, <1>9, <1>10 DEF UserStep

LEMMA PageLoads ==
  ASSUME SessionInv, NEW t \in Tabs, ArriveOnPortal(t) \/ Redirect(t)
  PROVE  SessionInv'
<1> USE DEF SessionInv
<1>1. StoreSound'
  BY DEF ArriveOnPortal, Redirect, StoreSound, TokenMatchesUser
<1>2. CASE \/ GoToForm(t, "login")
           \/ \E r : GoToPortal(t, r)
  BY <1>1, <1>2, GoingToForm, GoingToPortal
<1>3. CASE /\ Request({}, <<Call(t, "me", None)>>)
           /\ doc' = [doc EXCEPT ![t] = PortalPage(store.user)]
  <2>1. CallsSound'
    BY <1>3, CallFromPage, OneNew
  <2>2. DocsSound'
    BY <1>3, NewPages, PageSet
  <2> QED
    BY <1>1, <2>1, <2>2
<1> QED
  BY <1>2, <1>3 DEF ArriveOnPortal, Redirect

LEMMA Callbacks ==
  ASSUME SessionInv, NEW n \in DOMAIN calls, Callback(n)
  PROVE  SessionInv'
<1> DEFINE t == calls[n].tab
<1> USE DEF SessionInv
<1>0. t \in Tabs
  BY DEF Callback, ShowCaptcha, LoggedIn, Registered, ShowUser, LoggedOut, ShowMfa, Enrolled, Verified
<1>1. PageSound(doc[t])
  BY <1>0 DEF DocsSound
<1>2. CASE ShowCaptcha(n)
  <2>1. CallsSound'
    BY <1>2, NothingNew DEF ShowCaptcha
  <2>2. StoreSound'
    BY <1>2 DEF ShowCaptcha, StoreSound, TokenMatchesUser
  <2>3. CASE Ok(n)
    <3>1. PICK p : p = [doc[t] EXCEPT !.captcha = Data(n), !.question = Data(n), !.answer = None]
      OBVIOUS
    <3>2. /\ p = [x \in DOMAIN doc[t] |->
                    IF x = "answer" THEN None
                    ELSE IF x \in {"captcha", "question"} THEN Data(n) ELSE doc[t][x]]
          /\ DOMAIN p = DOMAIN doc[t]
      BY <1>1, <3>1 DEF PageSound, HasShape
    <3>3. /\ p.page = doc[t].page
          /\ p.page \in {"login", "register"} => p.answer = None /\ p.captcha = p.question
      BY <1>1, <3>2 DEF PageSound
    <3>4. PageSound(p)
      BY <1>1, <3>2, <3>3 DEF PageSound, HasShape
    <3>5. doc' = [doc EXCEPT ![t] = p]
      BY <1>2, <2>3, <3>1 DEF ShowCaptcha
    <3> HIDE DEF t
    <3> QED
      BY <1>0, <2>1, <2>2, <3>4, <3>5, PageSet
  <2>4. CASE ~Ok(n)
    <3>1. PICK p : p = [doc[t] EXCEPT !.question = None]
      OBVIOUS
    <3>2. /\ p = [x \in DOMAIN doc[t] |-> IF x = "question" THEN None ELSE doc[t][x]]
          /\ DOMAIN p = DOMAIN doc[t]
      BY <1>1, <3>1 DEF PageSound, HasShape
    <3>3. /\ p.page = doc[t].page
          /\ p.page \in {"login", "register"} =>
               p.question = None /\ p.answer = doc[t].answer /\ p.captcha = doc[t].captcha
      BY <1>1, <3>2 DEF PageSound
    <3>4. PageSound(p)
      BY <1>1, <3>2, <3>3 DEF PageSound, HasShape
    <3>5. doc' = [doc EXCEPT ![t] = p]
      BY <1>2, <2>4, <3>1 DEF ShowCaptcha
    <3> HIDE DEF t
    <3> QED
      BY <1>0, <2>1, <2>2, <3>4, <3>5, PageSet
  <2> QED
    BY <2>3, <2>4
<1>3. CASE LoggedIn(n)
  <2>1. CASE Ok(n) /\ Data(n) # None
    <3>1. Data(n) \in [token : Token, mfa : BOOLEAN]
      BY <1>3, <2>1 DEF LoggedIn, Ok, Data, CallsSound, CallSound
    <3>2. store' = [token |-> Data(n).token,
                    user |-> [name |-> Data(n).token.user, mfa |-> Data(n).mfa]]
      BY <1>3, <2>1 DEF LoggedIn, Ok
    <3>3. store'.token \in Token /\ store'.user \in StoredUser
          /\ store'.token.user = store'.user.name
      BY <3>1, <3>2 DEF Token, StoredUser
    <3>4. StoreSound'
      BY <3>2, <3>3, SessionAssumption DEF StoreSound, TokenMatchesUser
    <3>5. GoToPortal(t, RoleOf[Data(n).token.user])
      BY <1>3, <2>1 DEF LoggedIn
    <3> QED
      BY <1>0, <3>4, <3>5, GoingToPortal
  <2>2. CASE ~(Ok(n) /\ Data(n) # None)
    <3>1. StoreSound'
      BY <1>3, <2>2 DEF LoggedIn, StoreSound, TokenMatchesUser
    <3>2. PageSound([doc[t] EXCEPT !.busy = FALSE])
      BY <1>1, FieldSet
    <3>3. PageSound([[doc[t] EXCEPT !.busy = FALSE] EXCEPT !.code = TRUE])
      BY <3>2, FieldSet
    <3>4. [[doc[t] EXCEPT !.busy = FALSE] EXCEPT !.code = TRUE]
            = [doc[t] EXCEPT !.busy = FALSE, !.code = TRUE]
      OBVIOUS
    <3>5. \/ LoadCaptcha(t, [doc[t] EXCEPT !.busy = FALSE, !.code = TRUE], {n})
          \/ LoadCaptcha(t, [doc[t] EXCEPT !.busy = FALSE], {n})
      BY <1>3, <2>2 DEF LoggedIn
    <3>6. \E p : PageSound(p) /\ LoadCaptcha(t, p, {n})
      BY <3>2, <3>3, <3>4, <3>5
    <3> HIDE DEF t
    <3> QED
      BY <1>0, <3>1, <3>6, LoadingCaptcha
  <2> QED
    BY <2>1, <2>2
<1>4. CASE Registered(n)
  <2>1. StoreSound'
    BY <1>4 DEF Registered, StoreSound, TokenMatchesUser
  <2>2. PageSound([doc[t] EXCEPT !.busy = FALSE])
    BY <1>1, FieldSet
  <2>3. CASE Ok(n)
    <3>1. CallsSound'
      BY <1>4, <2>3, NothingNew DEF Registered
    <3>2. PageSound([[doc[t] EXCEPT !.busy = FALSE] EXCEPT !.done = TRUE])
      BY <2>2, FieldSet
    <3>3. PICK p : PageSound(p) /\ p = [[doc[t] EXCEPT !.busy = FALSE] EXCEPT !.done = TRUE]
      BY <3>2
    <3>4. doc' = [doc EXCEPT ![t] = p]
      BY <1>0, <1>4, <2>3, <3>3 DEF Registered, DocsSound
    <3> HIDE DEF t
    <3> QED
      BY <1>0, <2>1, <3>1, <3>3, <3>4, PageSet
  <2>4. CASE ~Ok(n)
    <3>1. LoadCaptcha(t, [doc[t] EXCEPT !.busy = FALSE], {n})
      BY <1>4, <2>4 DEF Registered
    <3> HIDE DEF t
    <3> QED
      BY <1>0, <2>1, <2>2, <3>1, LoadingCaptcha
  <2> QED
    BY <2>3, <2>4
<1>5. CASE ShowUser(n)
  <2>1. CASE calls[n].reply.status = 401
    BY <1>0, <1>5, <2>1, Clearing, GoingToForm DEF ShowUser
  <2>2. CASE calls[n].reply.status # 401
    <3>1. CallsSound'
      BY <1>5, <2>2, NothingNew DEF ShowUser
    <3> QED
      BY <1>5, <2>2, <3>1 DEF ShowUser, DocsSound, StoreSound, TokenMatchesUser
  <2> QED
    BY <2>1, <2>2
<1>6. CASE LoggedOut(n)
  BY <1>0, <1>6, Clearing, GoingToForm DEF LoggedOut
<1>7. CASE ShowMfa(n)
  <2>1. CallsSound'
    BY <1>7, NothingNew DEF ShowMfa
  <2>2. StoreSound'
    BY <1>7 DEF ShowMfa, StoreSound, TokenMatchesUser
  <2>3. CASE UNCHANGED doc
    BY <2>1, <2>2, <2>3 DEF DocsSound
  <2>4. CASE \E v : doc' = [doc EXCEPT ![t] = [doc[t] EXCEPT !.mfa = v]]
    BY <1>0, <1>1, <2>1, <2>2, <2>4, FieldSet, PageSet
  <2> QED
    BY <1>7, <2>3, <2>4 DEF ShowMfa
<1>8. CASE Enrolled(n)
  <2>1. CallsSound'
    BY <1>8, NothingNew DEF Enrolled
  <2>2. StoreSound'
    BY <1>8 DEF Enrolled, StoreSound, TokenMatchesUser
  <2>3. PICK v, m, k : doc' = [doc EXCEPT ![t].busy = v, ![t].mfa = m, ![t].secret = k]
    BY <1>8 DEF Enrolled
  <2>4. PICK p, q, r : /\ p = [doc[t] EXCEPT !.busy = v]
                       /\ q = [p EXCEPT !.mfa = m]
                       /\ r = [q EXCEPT !.secret = k]
    OBVIOUS
  <2>5. PageSound(p)
    BY <1>1, <2>4, FieldSet
  <2>6. PageSound(q)
    BY <2>4, <2>5, FieldSet
  <2>7. PageSound(r)
    BY <2>4, <2>6, FieldSet
  <2>8. doc' = [doc EXCEPT ![t] = r]
    BY <1>0, <2>3, <2>4 DEF DocsSound
  <2> HIDE DEF t
  <2> QED
    BY <1>0, <2>1, <2>2, <2>7, <2>8, PageSet
<1>9. CASE Verified(n)
  <2>1. CallsSound'
    BY <1>9, NothingNew, CallFromPage, OneNew DEF Verified
  <2>2. StoreSound'
    <3>1. CASE store.user = None \/ ~Ok(n)
      BY <1>9, <3>1 DEF Verified, StoreSound, TokenMatchesUser
    <3>2. CASE store.user # None /\ Ok(n)
      <4>1. store' = [store EXCEPT !.user = [store.user EXCEPT !.mfa = TRUE]]
        BY <1>9, <3>2 DEF Verified
      <4>2. store.user \in StoredUser
        BY <3>2 DEF StoreSound
      <4>3. PICK u : u = [store.user EXCEPT !.mfa = TRUE]
        OBVIOUS
      <4>4. u \in StoredUser /\ u.name = store.user.name
        BY <4>2, <4>3 DEF StoredUser
      <4>5. store'.user = u /\ store'.token = store.token
            /\ store' \in [token : Token \cup {None}, user : StoredUser \cup {None}]
        BY <4>1, <4>3, <4>4 DEF StoreSound
      <4> QED
        BY <3>2, <4>4, <4>5, SessionAssumption DEF StoreSound, TokenMatchesUser
    <3> QED
      BY <3>1, <3>2
  <2>3. doc' = [doc EXCEPT ![t] = [doc[t] EXCEPT !.busy = doc[t].busy \ {"verify"}]]
    BY <1>9 DEF Verified
  <2>4. PageSound([doc[t] EXCEPT !.busy = doc[t].busy \ {"verify"}])
    BY <1>1, FieldSet
  <2> HIDE DEF t
  <2> QED
    BY <1>0, <2>1, <2>2, <2>3, <2>4, PageSet
<1> QED
  BY <1>2, <1>3, <1>4, <1>5, <1>6, <1>7, <1>8, <1>9 DEF Callback

LEMMA Serving ==
  ASSUME SessionInv, NEW n \in DOMAIN calls, Serves(n)
  PROVE  SessionInv'
<1> USE DEF SessionInv
<1>1. ASSUME NEW reply, Serve(n, reply),
             calls[n].kind = "login" /\ reply # None /\ reply.status = 200 /\ reply.data # None
               => reply.data \in [token : Token, mfa : BOOLEAN]
      PROVE  SessionInv'
  <2>1. CallsSound'
    BY <1>1, NothingNew, Answering DEF Serve
  <2> QED
    BY <1>1, <2>1 DEF Serve, DocsSound, StoreSound, TokenMatchesUser
<1>2. CASE ServeLogin(n)
  <2> DEFINE u == calls[n].arg.user
             given == [token |-> [user |-> u, number |-> n], mfa |-> u \in factor]
  <2>1. u \in Users /\ n \in Nat
    BY <1>2 DEF ServeLogin, CallsSound, CallSound
  <2>2. given \in [token : Token, mfa : BOOLEAN]
    BY <2>1 DEF Token
  <2>3. Serve(n, Bad) \/ Serve(n, Good(None)) \/ Serve(n, Good(given))
    BY <1>2 DEF ServeLogin
  <2> HIDE DEF given
  <2>4. /\ Bad.status # 200 /\ Good(None).data = None /\ Good(given).data = given
    BY DEF Bad, Good, Reply
  <2> QED
    BY <1>1, <2>2, <2>3, <2>4
<1>3. CASE calls[n].kind # "login"
  <2>1. \E reply : Serve(n, reply)
    BY <1>3 DEF Serves, ServeRegister, ServeLogin, ServeLogout, ServeMe, ServeEnroll, ServeVerify
  <2> QED
    BY <1>1, <1>3, <2>1
<1>4. calls[n].kind = "login" => ServeLogin(n)
  BY DEF Serves, ServeRegister, ServeLogout, ServeMe, ServeEnroll, ServeVerify
<1> QED
  BY <1>2, <1>3, <1>4

LEMMA SessionStep == SessionInv /\ [Next]_vars => SessionInv'
<1> SUFFICES ASSUME SessionInv, [Next]_vars PROVE SessionInv'
  OBVIOUS
<1>1. ASSUME NEW n \in DOMAIN calls, NetworkError(n), UNCHANGED <<store, doc>>
      PROVE  SessionInv'
  <2>1. Reply(0, None).status = 0
    BY DEF Reply
  <2>2. CallsSound'
    BY <1>1, <2>1, Answering DEF SessionInv, NetworkError
  <2> QED
    BY <1>1, <2>2 DEF SessionInv, DocsSound, StoreSound, TokenMatchesUser
<1>2. ASSUME NEW k \in live, Expire(k)
      PROVE  SessionInv'
  BY <1>2 DEF Expire, SessionInv, CallsSound, DocsSound, StoreSound, TokenMatchesUser
<1>3. CASE UNCHANGED vars
  BY <1>3 DEF vars, browser, SessionInv, CallsSound, DocsSound, StoreSound, TokenMatchesUser
<1>4. CASE Next
  BY <1>1, <1>2, <1>4, UserSteps, PageLoads, Callbacks, Serving DEF Next
<1> QED
  BY <1>3, <1>4

LEMMA SessionHolds == Spec => []SessionInv
  BY SessionInit, SessionStep, PTL DEF Spec

-----------------------------------------------------------------------------
(* The sessions of the server *)

\* A login that the server may still answer with the token of its number.
Pending(n) == n \in DOMAIN calls /\ calls[n].kind = "login" /\ ~Answered(n)

\* A token that there is: it will not be made again.
Issued(k) == k \in Token /\ k.number <= sent /\ ~Pending(k.number)

TokensOf(c) ==
  /\ c.token # None => Issued(c.token)
  /\ c.kind = "login" /\ c.reply # None /\ c.reply.status = 200 /\ c.reply.data # None
     => Issued(c.reply.data.token)
  /\ c.kind = "logout" =>
       c.arg = c.token /\ (c.reply # None /\ c.reply.status # 0 => c.arg \notin live)
  /\ c.kind = "me" /\ c.reply # None /\ c.reply.status = 401 => c.token \notin live

TokensSound ==
  /\ \A k \in live \cup signedOut : Issued(k)
  /\ store.token # None => Issued(store.token)
  /\ \A n \in DOMAIN calls : TokensOf(calls[n])
  /\ SignedOutEverywhere

Alike(c, d) == c.kind = d.kind /\ c.token = d.token /\ c.arg = d.arg /\ c.reply = d.reply

\* A call as the pages make them.
NewCall(n, c) ==
  /\ c.token = store.token
  /\ c.kind = "logout" => c.arg = c.token
  /\ c.reply = IF c.kind = "captcha" THEN Reply(200, n) ELSE None

\* What a step of the pages does to the calls.
CallsMove ==
  /\ sent' \in Nat /\ sent <= sent'
  /\ \A n \in DOMAIN calls' :
       \/ n \in DOMAIN calls /\ Alike(calls'[n], calls[n])
       \/ n > sent /\ n \in Nat /\ NewCall(n, calls'[n])

LEMMA NoneMoves ==
  ASSUME CallsSound, NEW done, Request(done, <<>>)
  PROVE  CallsMove
<1>1. sent' = sent /\ sent' \in Nat /\ calls' = [n \in DOMAIN calls \ done |-> calls[n]]
  BY RequestNone
<1> QED
  BY <1>1 DEF CallsMove, Alike

LEMMA OneMoves ==
  ASSUME CallsSound, NEW done, NEW c, NewCall(sent + 1, c), Request(done, <<c>>)
  PROVE  CallsMove
<1>0. sent \in Nat
  BY DEF CallsSound
<1>1. /\ sent' = sent + 1 /\ sent' \in Nat
      /\ calls' = [n \in (DOMAIN calls \ done) \cup {sent'} |-> IF n = sent' THEN c ELSE calls[n]]
  BY RequestOne
<1>2. ASSUME NEW n \in DOMAIN calls'
      PROVE  \/ n \in DOMAIN calls /\ Alike(calls'[n], calls[n])
             \/ n > sent /\ n \in Nat /\ NewCall(n, calls'[n])
  <2>1. CASE n = sent'
    BY <1>0, <1>1, <2>1
  <2>2. CASE n # sent'
    BY <1>1, <2>2 DEF Alike
  <2> QED
    BY <2>1, <2>2
<1> QED
  BY <1>0, <1>1, <1>2 DEF CallsMove

LEMMA LeftAlike ==
  ASSUME CallsSound, NEW t, NEW n \in DOMAIN calls
  PROVE  Alike(Left(t, n), calls[n]) /\ Left(t, n).tab = IF Mine(t, n) THEN None ELSE calls[n].tab
<1>1. PICK c, d : c = calls[n] /\ d = [c EXCEPT !.tab = None]
  OBVIOUS
<1>2. c = [x \in CallFields |-> c[x]] /\ DOMAIN c = CallFields
  BY <1>1 DEF CallsSound, CallSound, HasShape
<1>3. d = [x \in CallFields |-> IF x = "tab" THEN None ELSE c[x]]
  BY <1>1, <1>2 DEF CallFields
<1>4. d.kind = c.kind /\ d.token = c.token /\ d.arg = c.arg /\ d.reply = c.reply /\ d.tab = None
  BY <1>3 DEF CallFields
<1> QED
  BY <1>1, <1>4 DEF Left, Alike

LEMMA CaptchaIsNew == ASSUME NEW t PROVE NewCall(sent + 1, CaptchaCall(t))
  BY DEF NewCall, CaptchaCall

LEMMA CallIsNew ==
  ASSUME NEW t, NEW kind, NEW arg, kind # "captcha", kind = "logout" => arg = store.token
  PROVE  NewCall(sent + 1, Call(t, kind, arg))
  BY DEF NewCall, Call

LEMMA LeaveMoves ==
  ASSUME CallsSound, NEW t, Leave(t, <<>>) \/ Leave(t, <<CaptchaCall(t)>>)
  PROVE  CallsMove
<1>1. CASE Leave(t, <<>>)
  <2>1. sent' = sent /\ sent' \in Nat /\ calls' = [n \in DOMAIN calls \ Abandoned(t) |-> Left(t, n)]
    BY <1>1, LeaveNone
  <2> QED
    BY <2>1, LeftAlike DEF CallsMove
<1>2. CASE Leave(t, <<CaptchaCall(t)>>)
  <2>1. PICK c : c = CaptchaCall(t) /\ NewCall(sent + 1, c)
    BY CaptchaIsNew
  <2>0. sent \in Nat
    BY DEF CallsSound
  <2>2. /\ sent' = sent + 1 /\ sent' \in Nat
        /\ calls' = [n \in (DOMAIN calls \ Abandoned(t)) \cup {sent'} |->
                       IF n = sent' THEN c ELSE Left(t, n)]
    BY <1>2, <2>1, LeaveOne
  <2>3. ASSUME NEW n \in DOMAIN calls'
        PROVE  \/ n \in DOMAIN calls /\ Alike(calls'[n], calls[n])
               \/ n > sent /\ n \in Nat /\ NewCall(n, calls'[n])
    <3>1. CASE n = sent'
      BY <2>0, <2>1, <2>2, <3>1
    <3>2. CASE n # sent'
      BY <2>2, <3>2, LeftAlike
    <3> QED
      BY <3>1, <3>2
  <2>4. sent' \in Nat /\ sent <= sent'
    BY <2>0, <2>2
  <2> QED
    BY <2>3, <2>4 DEF CallsMove
<1> QED
  BY <1>1, <1>2

LEMMA LoadMoves ==
  ASSUME CallsSound, NEW t, NEW p, NEW done,
         LoadCaptcha(t, p, done) \/ GoToForm(t, p) \/ GoToPortal(t, p)
  PROVE  CallsMove
<1>1. CASE LoadCaptcha(t, p, done)
  <2>1. PICK c : c = CaptchaCall(t) /\ NewCall(sent + 1, c)
    BY CaptchaIsNew
  <2> QED
    BY <1>1, <2>1, OneMoves DEF LoadCaptcha
<1>2. CASE GoToForm(t, p) \/ GoToPortal(t, p)
  BY <1>2, LeaveMoves DEF GoToForm, GoToPortal
<1> QED
  BY <1>1, <1>2

LEMMA PageMoves ==
  ASSUME SessionInv, NEW t \in Tabs, UserStep(t) \/ ArriveOnPortal(t) \/ Redirect(t)
  PROVE  CallsMove /\ UNCHANGED <<live, store, signedOut>>
<1>0. CallsSound
  BY DEF SessionInv
<1>1. UNCHANGED <<live, store, signedOut>>
  BY DEF UserStep, Open, Refresh, TypeAnswer, SubmitLogin, SubmitRegister, Submit, Logout,
         OpenMfa, Enroll, Verify, ArriveOnPortal, Redirect, server
<1>2. ASSUME NEW kind, NEW arg, kind # "captcha", kind = "logout" => arg = store.token,
             Request({}, <<Call(t, kind, arg)>>)
      PROVE  CallsMove
  <2>1. PICK c : c = Call(t, kind, arg) /\ NewCall(sent + 1, c)
    BY <1>2, CallIsNew
  <2> QED
    BY <1>0, <1>2, <2>1, OneMoves
<1>3. ASSUME NEW to, Open(t, to) PROVE CallsMove
  BY <1>0, <1>3, LoadMoves DEF Open
<1>4. CASE Refresh(t)
  BY <1>1, <1>0, <1>4, LoadMoves DEF Refresh
<1>5. CASE TypeAnswer(t)
  BY <1>1, <1>0, <1>5 DEF TypeAnswer, browser, CallsMove, CallsSound, Alike
<1>6. ASSUME NEW u, SubmitLogin(t, u) PROVE CallsMove
  BY <1>2, <1>6 DEF SubmitLogin, Submit
<1>7. CASE SubmitRegister(t)
  BY <1>1, <1>2, <1>7 DEF SubmitRegister, Submit
<1>8. CASE Logout(t)
  BY <1>1, <1>2, <1>8 DEF Logout
<1>9. CASE OpenMfa(t) \/ Enroll(t) \/ Verify(t)
  BY <1>1, <1>2, <1>9 DEF OpenMfa, Enroll, Verify
<1>10. CASE ArriveOnPortal(t)
  BY <1>1, <1>0, <1>2, <1>10, LoadMoves DEF ArriveOnPortal
<1>11. CASE Redirect(t)
  BY <1>1, <1>0, <1>11, LoadMoves DEF Redirect
<1> QED
  BY <1>1, <1>3, <1>4, <1>5, <1>6, <1>7, <1>8, <1>9, <1>10, <1>11 DEF UserStep

LEMMA CallbackMoves ==
  ASSUME SessionInv, NEW n \in DOMAIN calls, Callback(n)
  PROVE  /\ CallsMove /\ UNCHANGED live
         /\ signedOut' = signedOut \/ LoggedOut(n)
         /\ \/ store'.token = store.token
            \/ (ShowUser(n) /\ calls[n].reply.status = 401) \/ LoggedOut(n)
            \/ LoggedIn(n) /\ Ok(n) /\ Data(n) # None /\ store'.token = Data(n).token
<1> DEFINE t == calls[n].tab
<1>0. CallsSound /\ store = [token |-> store.token, user |-> store.user]
  BY DEF SessionInv, StoreSound
<1>1. UNCHANGED live
  BY DEF Callback, ShowCaptcha, LoggedIn, Registered, ShowUser, LoggedOut, ShowMfa, Enrolled, Verified, server
<1>2. CASE ShowCaptcha(n) \/ ShowMfa(n) \/ Enrolled(n)
  BY <1>0, <1>1, <1>2, NoneMoves DEF ShowCaptcha, ShowMfa, Enrolled
<1>3. CASE LoggedIn(n)
  BY <1>0, <1>1, <1>3, LoadMoves DEF LoggedIn
<1>4. CASE Registered(n)
  BY <1>0, <1>1, <1>4, NoneMoves, LoadMoves DEF Registered
<1>5. CASE ShowUser(n)
  BY <1>0, <1>1, <1>5, NoneMoves, LoadMoves DEF ShowUser
<1>6. CASE LoggedOut(n)
  BY <1>0, <1>1, <1>6, LoadMoves DEF LoggedOut
<1>7. CASE Verified(n)
  <2>1. PICK c : c = Call(t, "status", None) /\ NewCall(sent + 1, c)
    BY CallIsNew
  <2>2. CallsMove
    BY <1>0, <1>7, <2>1, NoneMoves, OneMoves DEF Verified
  <2>3. store'.token = store.token /\ signedOut' = signedOut
    BY <1>0, <1>7 DEF Verified
  <2> QED
    BY <1>1, <2>2, <2>3
<1> QED
  BY <1>2, <1>3, <1>4, <1>5, <1>6, <1>7 DEF Callback

LEMMA IssuedStays ==
  ASSUME CallsSound, CallsMove, NEW k, Issued(k)
  PROVE  Issued(k)'
<1>1. k \in Token /\ k.number \in Nat /\ k.number <= sent /\ ~Pending(k.number) /\ sent \in Nat
  BY DEF Issued, Token, CallsSound
<1>2. PICK n : n = k.number
  OBVIOUS
<1>3. ~Pending(n)'
  <2> SUFFICES ASSUME Pending(n)' PROVE FALSE
    OBVIOUS
  <2>1. n \in DOMAIN calls' /\ calls'[n].kind = "login" /\ calls'[n].reply = None
    BY DEF Pending, Answered
  <2>2. n \in DOMAIN calls /\ Alike(calls'[n], calls[n])
    BY <1>1, <1>2, <2>1 DEF CallsMove
  <2> QED
    BY <1>1, <1>2, <2>1, <2>2 DEF Alike, Pending, Answered
<1>4. k.number <= sent'
  BY <1>1 DEF CallsMove
<1> QED
  BY <1>1, <1>2, <1>3, <1>4 DEF Issued, Pending, Answered

\* A step of the pages: what they hold and what they send are tokens that there are.
LEMMA TokensMove ==
  ASSUME CallsSound, TokensSound, CallsMove, UNCHANGED live,
         store'.token # None => store'.token = store.token \/ Issued(store'.token),
         \A k \in signedOut' : k \in signedOut \/ (Issued(k) /\ k \notin live)
  PROVE  TokensSound'
<1>1. \A k \in live' \cup signedOut' : Issued(k)'
  BY IssuedStays DEF TokensSound
<1>2. store'.token # None => Issued(store'.token)
  BY DEF TokensSound
<1>3. store'.token # None => Issued(store.token)'
  <2>1. PICK k : k = store'.token
    OBVIOUS
  <2>2. k # None => Issued(k)'
    BY <1>2, <2>1, IssuedStays
  <2> QED
    BY <2>1, <2>2 DEF Issued, Pending, Answered
<1>4. ASSUME NEW n \in DOMAIN calls' PROVE TokensOf(calls[n])'
  <2>1. PICK c, d : c = calls'[n] /\ d = calls[n]
    OBVIOUS
  <2>2. TokensOf(c)'
    <3>1. CASE n \in DOMAIN calls /\ Alike(c, d)
      <4>1. TokensOf(d)
        BY <2>1, <3>1 DEF TokensSound
      <4> QED
        BY <3>1, <4>1, IssuedStays DEF TokensOf, Alike
    <3>2. CASE NewCall(n, c)
      <4>1. c.token # None => Issued(c.token)'
        BY <3>2, IssuedStays DEF NewCall, TokensSound
      <4> QED
        BY <3>2, <4>1 DEF NewCall, TokensOf
    <3> QED
      BY <2>1, <3>1, <3>2 DEF CallsMove
  <2> QED
    BY <2>1, <2>2 DEF TokensOf, Issued, Pending, Answered
<1>5. SignedOutEverywhere'
  BY DEF TokensSound, SignedOutEverywhere
<1> QED
  BY <1>1, <1>3, <1>4, <1>5 DEF TokensSound

\* What the server or the network does to the calls: n is answered, or gone.
Served(n, reply) ==
  /\ UNCHANGED sent
  /\ DOMAIN calls' \subseteq DOMAIN calls /\ DOMAIN calls \ {n} \subseteq DOMAIN calls'
  /\ calls[n].tab # None => n \in DOMAIN calls'
  /\ \A m \in DOMAIN calls' \ {n} : calls'[m] = calls[m]
  /\ n \in DOMAIN calls' =>
       /\ calls'[n].kind = calls[n].kind /\ calls'[n].token = calls[n].token
       /\ calls'[n].arg = calls[n].arg /\ calls'[n].tab = calls[n].tab
       /\ calls'[n].reply = reply

LEMMA IsServed ==
  ASSUME CallsSound, NEW n \in DOMAIN calls, NEW reply, Serve(n, reply) \/ Answer(n, reply)
  PROVE  Served(n, reply)
<1>1. CASE calls[n].tab = None /\ Request({n}, <<>>)
  <2>1. sent' = sent /\ calls' = [m \in DOMAIN calls \ {n} |-> calls[m]]
    BY <1>1, RequestNone
  <2> QED
    BY <1>1, <2>1 DEF Served
<1>2. CASE Answer(n, reply)
  <2>1. PICK c, d : c = calls[n] /\ d = [c EXCEPT !.reply = reply]
    OBVIOUS
  <2>2. c = [x \in CallFields |-> c[x]]
    BY <2>1 DEF CallsSound, CallSound, HasShape
  <2>3. d = [x \in CallFields |-> IF x = "reply" THEN reply ELSE c[x]]
    BY <2>1, <2>2 DEF CallFields
  <2>4. d.kind = c.kind /\ d.token = c.token /\ d.arg = c.arg /\ d.tab = c.tab /\ d.reply = reply
    BY <2>3 DEF CallFields
  <2>5. /\ sent' = sent /\ DOMAIN calls' = DOMAIN calls /\ calls'[n] = d
        /\ \A m \in DOMAIN calls \ {n} : calls'[m] = calls[m]
    BY <1>2, <2>1 DEF Answer, CallsSound
  <2> QED
    BY <2>1, <2>4, <2>5 DEF Served
<1> QED
  BY <1>1, <1>2 DEF Serve

LEMMA IssuedServed ==
  ASSUME CallsSound, NEW n, NEW reply, Served(n, reply), reply # None, NEW k, Issued(k)
  PROVE  Issued(k)'
<1>1. PICK m : m = k.number
  OBVIOUS
<1>2. ~Pending(m)'
  BY <1>1 DEF Issued, Pending, Answered, Served
<1> QED
  BY <1>1, <1>2 DEF Issued, Pending, Answered, Served

\* A step of the server: a token that it makes is a new one.
LEMMA TokensServed ==
  ASSUME CallsSound, TokensSound, NEW n \in DOMAIN calls, NEW reply, Served(n, reply), reply # None,
         UNCHANGED <<store, signedOut>>,
         \A k \in live' \ live : Issued(k)' /\ ~Issued(k),
         calls[n].kind = "login" /\ reply.status = 200 /\ reply.data # None => Issued(reply.data.token)',
         calls[n].kind = "logout" /\ reply.status # 0 => calls[n].arg \notin live',
         calls[n].kind = "me" /\ reply.status = 401 => calls[n].token \notin live'
  PROVE  TokensSound'
<1>1. \A k : Issued(k) => Issued(k)'
  BY IssuedServed
<1>2. \A k \in live' \cup signedOut' : Issued(k)'
  BY <1>1 DEF TokensSound
<1>3. store'.token # None => Issued(store.token)'
  <2>1. PICK k : k = store.token
    OBVIOUS
  <2>2. k # None => Issued(k)'
    BY <1>1, <2>1 DEF TokensSound
  <2> QED
    BY <2>1, <2>2 DEF Issued, Pending, Answered
<1>4. \A k : k = None \/ Issued(k) => (k \in live' => k \in live)
  BY SessionAssumption DEF Issued
<1>5. ASSUME NEW m \in DOMAIN calls' PROVE TokensOf(calls[m])'
  <2>1. PICK c, d : c = calls'[m] /\ d = calls[m]
    OBVIOUS
  <2>2. TokensOf(d) /\ c.kind = d.kind /\ c.token = d.token /\ c.arg = d.arg
    BY <2>1 DEF Served, TokensSound
  <2>3. CASE m = n
    BY <1>1, <2>1, <2>2, <2>3 DEF TokensOf, Served, Issued, Pending, Answered
  <2>4. CASE m # n
    <3>1. c = d
      BY <2>1, <2>4 DEF Served
    <3>2. TokensOf(c)'
      BY <1>1, <1>4, <2>2, <3>1 DEF TokensOf
    <3> QED
      BY <2>1, <3>2 DEF TokensOf, Issued, Pending, Answered
  <2> QED
    BY <2>3, <2>4
<1>6. SignedOutEverywhere'
  BY DEF TokensSound, SignedOutEverywhere
<1> QED
  BY <1>2, <1>3, <1>5, <1>6 DEF TokensSound

LEMMA RepliesAreThere ==
  /\ Bad # None /\ Unauthorized # None /\ Reply(0, None) # None
  /\ Bad.status = 400 /\ Unauthorized.status = 401 /\ Reply(0, None).status = 0
  /\ \A data \in {None} \cup Nat \cup [mfa : BOOLEAN] \cup [token : Token, mfa : BOOLEAN] :
       Good(data) # None /\ Good(data).status = 200 /\ Good(data).data = data
<1>1. None \notin Replies
  BY SessionAssumption
<1>2. /\ Bad \in Replies /\ Unauthorized \in Replies /\ Reply(0, None) \in Replies
      /\ \A data \in {None} \cup Nat \cup [mfa : BOOLEAN] \cup [token : Token, mfa : BOOLEAN] :
           Good(data) \in Replies
  BY DEF Replies, Bad, Unauthorized, Good, Reply
<1> QED
  BY <1>1, <1>2 DEF Bad, Unauthorized, Good, Reply

LEMMA TokensBegin == Init => TokensSound
<1> SUFFICES ASSUME Init PROVE TokensSound
  OBVIOUS
<1>1. sent = 0 /\ calls = [n \in {} |-> None] /\ signedOut = {}
  BY DEF Init, BrowserInit
<1>2. store.token = None \/ (store.token \in Token /\ store.token.number = 0)
  BY DEF Init, Token
<1>3. store.token \in Token => live = {store.token}
  BY SessionAssumption DEF Init
<1>4. store.token \notin Token => live = {}
  BY DEF Init, Token
<1>5. \A k : k \in Token /\ k.number = 0 => Issued(k)
  BY <1>1 DEF Issued, Pending
<1>6. \A k \in live : Issued(k)
  BY <1>2, <1>3, <1>4, <1>5, SessionAssumption
<1>7. store.token # None => Issued(store.token)
  BY <1>2, <1>5
<1>8. DOMAIN calls = {}
  BY <1>1
<1> QED
  BY <1>1, <1>6, <1>7, <1>8 DEF TokensSound, SignedOutEverywhere

LEMMA TokensServing ==
  ASSUME SessionInv, TokensSound, NEW n \in DOMAIN calls, Serves(n)
  PROVE  TokensSound'
<1>1. CallsSound /\ ~Answered(n) /\ n \in Nat /\ n <= sent
  BY DEF SessionInv, CallsSound, Serves
<1>2. ASSUME NEW reply, Serve(n, reply)
      PROVE  Served(n, reply) /\ UNCHANGED <<store, signedOut>>
  BY <1>1, <1>2, IsServed DEF Serve
<1>3. CASE ServeRegister(n)
  <2>1. calls[n].kind = "register" /\ UNCHANGED live
    BY <1>3 DEF ServeRegister
  <2>2. Serve(n, Bad) \/ Serve(n, Good(None))
    BY <1>3 DEF ServeRegister
  <2> QED
    BY <1>1, <1>2, <2>1, <2>2, RepliesAreThere, TokensServed
<1>4. CASE ServeLogin(n)
  <2>1. PICK u, k, given : /\ u = calls[n].arg.user /\ k = [user |-> u, number |-> n]
                           /\ given = [token |-> k, mfa |-> u \in factor]
    OBVIOUS
  <2>2. calls[n].kind = "login" /\ u \in Users
    BY <1>4, <2>1 DEF ServeLogin, SessionInv, CallsSound, CallSound
  <2>3. k \in Token /\ k.number = n /\ given \in [token : Token, mfa : BOOLEAN] /\ given.token = k
    BY <1>1, <2>1, <2>2 DEF Token
  <2>4. \/ Serve(n, Bad) /\ UNCHANGED live
        \/ Serve(n, Good(None)) /\ UNCHANGED live
        \/ Serve(n, Good(given)) /\ live' = {j \in live : j.user # u} \cup {k}
    BY <1>4, <2>1 DEF ServeLogin
  <2>5. CASE Serve(n, Good(given)) /\ live' = {j \in live : j.user # u} \cup {k}
    <3>1. PICK reply : reply = Good(given) /\ reply # None /\ reply.data = given /\ Serve(n, reply)
      BY <2>3, <2>5, RepliesAreThere
    <3>2. Served(n, reply) /\ UNCHANGED <<store, signedOut>>
      BY <1>2, <3>1
    <3>3. ~Pending(n)' /\ sent' = sent
      BY <3>1, <3>2 DEF Pending, Answered, Served
    <3>4. Issued(k)' /\ ~Issued(k)
      BY <1>1, <2>2, <2>3, <3>3 DEF Issued, Pending, Answered
    <3>5. Issued(reply.data.token)'
      BY <2>3, <3>1, <3>4 DEF Issued, Pending, Answered
    <3>6. \A j \in live' \ live : Issued(j)' /\ ~Issued(j)
      BY <2>5, <3>4
    <3> QED
      BY <1>1, <2>2, <3>1, <3>2, <3>5, <3>6, TokensServed
  <2>6. CASE (Serve(n, Bad) \/ Serve(n, Good(None))) /\ UNCHANGED live
    BY <1>1, <1>2, <2>2, <2>6, RepliesAreThere, TokensServed
  <2> QED
    BY <2>4, <2>5, <2>6
<1>5. CASE ServeLogout(n)
  <2>1. PICK k : k = calls[n].token
    OBVIOUS
  <2>2. calls[n].kind = "logout" /\ live' = live \ {k} /\ calls[n].arg = k
    BY <1>5, <2>1 DEF ServeLogout, TokensSound, TokensOf
  <2>3. Serve(n, Good(None)) \/ Serve(n, Unauthorized)
    BY <1>5 DEF ServeLogout
  <2> QED
    BY <1>1, <1>2, <2>1, <2>2, <2>3, RepliesAreThere, TokensServed
<1>6. CASE ServeMe(n)
  <2>1. calls[n].kind \in {"me", "status"} /\ UNCHANGED live
    BY <1>6 DEF ServeMe, server
  <2>2. PICK d : d = [mfa |-> User(n) \in factor]
    OBVIOUS
  <2>3. \/ Serve(n, Unauthorized) /\ calls[n].token \notin live
        \/ Serve(n, Good(d))
    BY <1>6, <2>2 DEF ServeMe, Authenticated
  <2>4. d \in [mfa : BOOLEAN]
    BY <2>2
  <2>5. Good(d) # None /\ Good(d).status = 200
    BY <2>4, RepliesAreThere
  <2> QED
    BY <1>1, <1>2, <2>1, <2>3, <2>5, RepliesAreThere, TokensServed
<1>7. CASE ServeEnroll(n) \/ ServeVerify(n)
  <2>1. calls[n].kind \in {"enroll", "verify"} /\ UNCHANGED live
    BY <1>7 DEF ServeEnroll, ServeVerify
  <2>2. Serve(n, Bad) \/ Serve(n, Unauthorized) \/ Serve(n, Good(None)) \/ Serve(n, Good(n))
    BY <1>7 DEF ServeEnroll, ServeVerify
  <2> QED
    BY <1>1, <1>2, <2>1, <2>2, RepliesAreThere, TokensServed
<1> QED
  BY <1>3, <1>4, <1>5, <1>6, <1>7 DEF Serves

LEMMA TokensStep ==
  ASSUME SessionInv, TokensSound, [Next]_vars
  PROVE  TokensSound'
<1>0. CallsSound /\ store = [token |-> store.token, user |-> store.user]
  BY DEF SessionInv, StoreSound
<1>1. ASSUME NEW t \in Tabs, UserStep(t) \/ ArriveOnPortal(t) \/ Redirect(t)
      PROVE  TokensSound'
  BY <1>0, <1>1, PageMoves, TokensMove
<1>2. ASSUME NEW n \in DOMAIN calls, Callback(n) PROVE TokensSound'
  <2>1. PICK c : c = calls[n] /\ TokensOf(c)
    BY DEF TokensSound
  <2>2. /\ CallsMove /\ UNCHANGED live
        /\ signedOut' = signedOut \/ LoggedOut(n)
        /\ \/ store'.token = store.token
           \/ (ShowUser(n) /\ calls[n].reply.status = 401) \/ LoggedOut(n)
           \/ LoggedIn(n) /\ Ok(n) /\ Data(n) # None /\ store'.token = Data(n).token
    BY <1>2, CallbackMoves
  <2>3. \A k \in signedOut' : k \in signedOut \/ (Issued(k) /\ k \notin live)
    <3>1. CASE LoggedOut(n)
      BY <2>1, <3>1 DEF LoggedOut, Answered, TokensOf
    <3> QED
      BY <2>2, <3>1
  <2>4. store'.token # None => store'.token = store.token \/ Issued(store'.token)
    <3>1. CASE ShowUser(n) /\ calls[n].reply.status = 401
      <4>1. store' = ClearAuth
        BY <3>1 DEF ShowUser
      <4> QED
        BY <1>0, <4>1 DEF ClearAuth
    <3>2. CASE LoggedOut(n)
      BY <1>0, <3>2 DEF LoggedOut, ClearAuth
    <3>3. CASE LoggedIn(n) /\ Ok(n) /\ Data(n) # None /\ store'.token = Data(n).token
      BY <2>1, <3>3 DEF LoggedIn, Ok, Data, TokensOf
    <3> QED
      BY <2>2, <3>1, <3>2, <3>3
  <2> QED
    BY <1>0, <2>2, <2>3, <2>4, TokensMove
<1>3. ASSUME NEW n \in DOMAIN calls, NetworkError(n), UNCHANGED <<store, server, signedOut>>
      PROVE  TokensSound'
  <2>1. PICK reply : reply = Reply(0, None) /\ reply # None /\ reply.status = 0
    BY RepliesAreThere
  <2>2. Served(n, reply)
    BY <1>0, <1>3, <2>1, IsServed DEF NetworkError
  <2>3. UNCHANGED live
    BY <1>3 DEF server
  <2> QED
    BY <1>0, <1>3, <2>1, <2>2, <2>3, TokensServed
<1>4. ASSUME NEW k \in live, Expire(k) PROVE TokensSound'
  BY <1>4 DEF Expire, TokensSound, TokensOf, Issued, Pending, Answered, SignedOutEverywhere
<1>5. CASE UNCHANGED vars
  BY <1>5 DEF vars, browser, server, TokensSound, TokensOf, Issued, Pending, Answered, SignedOutEverywhere
<1>6. CASE Next
  BY <1>1, <1>2, <1>3, <1>4, <1>6, TokensServing DEF Next
<1> QED
  BY <1>5, <1>6

\* The only steps that forget a session.
LEMMA SessionForgotten ==
  ASSUME SessionInv, TokensSound, Next, store.token \in live, store'.token = None
  PROVE  \E n \in DOMAIN calls :
           /\ n \notin DOMAIN calls'
           /\ \/ calls[n].kind = "logout" /\ calls[n].token = store.token
              \/ calls[n].kind \in {"me", "logout"} /\ calls[n].token \notin live
              \/ calls[n].kind = "logout" /\ calls[n].reply.status = 0
<1>1. CallsSound /\ store.token # None
  BY SessionAssumption DEF SessionInv, TokensSound, Issued
<1>2. PICK n \in DOMAIN calls : (ShowUser(n) /\ calls[n].reply.status = 401) \/ LoggedOut(n)
  <2>1. ~UNCHANGED store
    BY <1>1
  <2>2. PICK n \in DOMAIN calls : Callback(n)
    BY <2>1, PageMoves DEF Next, Serves, ServeRegister, ServeLogin, ServeLogout, ServeMe, ServeEnroll,
       ServeVerify, Serve, Expire
  <2>3. CASE LoggedIn(n) /\ Ok(n) /\ Data(n) # None /\ store'.token = Data(n).token
    <3>1. Issued(Data(n).token)
      BY <2>3 DEF TokensSound, TokensOf, LoggedIn, Ok, Data
    <3> QED
      BY <2>3, <3>1, SessionAssumption DEF Issued
  <2> QED
    BY <1>1, <2>2, <2>3, CallbackMoves
<1>3. PICK t \in Tabs : t = calls[n].tab /\ Answered(n) /\ GoToForm(t, "login")
  BY <1>2 DEF ShowUser, LoggedOut
<1>4. PICK c : c = CaptchaCall(t) /\ Leave(t, <<c>>)
  BY <1>3 DEF GoToForm
<1>5. n \in Abandoned(t)
  BY <1>3 DEF Abandoned, Mine
<1>6. n \notin DOMAIN calls'
  <2>1. /\ sent' \notin DOMAIN calls
        /\ calls' = [m \in (DOMAIN calls \ Abandoned(t)) \cup {sent'} |->
                       IF m = sent' THEN c ELSE Left(t, m)]
    BY <1>1, <1>4, LeaveOne
  <2>2. DOMAIN calls' = (DOMAIN calls \ Abandoned(t)) \cup {sent'}
    BY <2>1
  <2> QED
    BY <1>5, <2>1, <2>2
<1>7. \/ calls[n].kind \in {"me", "logout"} /\ calls[n].token \notin live
      \/ calls[n].kind = "logout" /\ calls[n].reply.status = 0
  BY <1>2 DEF ShowUser, LoggedOut, TokensSound, TokensOf, Answered
<1> QED
  BY <1>6, <1>7

LEMMA TokensHold == Spec => [](SessionInv /\ TokensSound)
<1>1. SessionInv /\ TokensSound /\ [Next]_vars => TokensSound'
  BY TokensStep
<1> QED
  BY <1>1, SessionInit, SessionStep, TokensBegin, PTL DEF Spec

-----------------------------------------------------------------------------
(* The challenges of the forms *)

\* A login or a registration on its way, and the challenge that it carries.
Sub(n) == n \in DOMAIN calls /\ calls[n].kind \in {"login", "register"}
Cap(n) == calls[n].arg.captcha

Holds(t, c) == c # None /\ OnForm(t) /\ doc[t].captcha = c

\* A challenge that some form has shown.
Loaded(c) == c \in Nat /\ c <= sent /\ c \notin DOMAIN calls

FormCall(n) ==
  /\ calls[n].tab \in Tabs \cup {None}
  /\ calls[n].kind = "captcha" /\ Ok(n) => Data(n) = n
  /\ Sub(n) => Loaded(Cap(n))
  /\ Sub(n) /\ calls[n].tab # None => OnForm(calls[n].tab) /\ doc[calls[n].tab].busy = TRUE
  /\ calls[n].kind \in {"enroll", "verify"} /\ calls[n].tab # None => doc[calls[n].tab].page = "portal"
  /\ calls[n].kind = "register" /\ Ok(n) => Cap(n) \in signups

\* A challenge is one document's, and a document has one call that carries one.
OneOwner ==
  /\ \A t \in Tabs : \A n : Sub(n) /\ Holds(t, Cap(n)) => calls[n].tab = t
  /\ \A m, n : Sub(m) /\ Sub(n) /\ Cap(m) = Cap(n) => calls[m].tab = calls[n].tab
  /\ \A m, n : Sub(m) /\ Sub(n) /\ calls[m].tab = calls[n].tab /\ calls[n].tab # None => m = n
  /\ \A s, t \in Tabs : \A c : Holds(s, c) /\ Holds(t, c) => s = t

\* The call of t that has used c up and whose callback will take it away.
Taken(t, c) == \E m : Sub(m) /\ Answered(m) /\ calls[m].tab = t /\ Cap(m) = c

FormsSound ==
  /\ \A n \in DOMAIN calls : FormCall(n)
  /\ OneOwner
  /\ \A t \in Tabs : \A c : Holds(t, c) => Loaded(c)
  /\ \A c \in used : Loaded(c)
  /\ \A t \in Tabs : \A c \in used : Holds(t, c) => c \in signups \/ Taken(t, c)
  /\ ResentAfterSignup

\* What a step of t does to the calls.
TabMoves(t) ==
  /\ sent' \in Nat /\ sent <= sent'
  /\ \A n \in DOMAIN calls' :
       \/ /\ n \in DOMAIN calls /\ Alike(calls'[n], calls[n])
          /\ calls'[n].tab = calls[n].tab \/ (calls[n].tab = t /\ calls'[n].tab = None)
       \/ n > sent /\ n \in Nat /\ NewCall(n, calls'[n]) /\ calls'[n].tab = t
  /\ \A n \in DOMAIN calls : calls[n].tab # t => n \in DOMAIN calls'

\* A step of t by which no form gets a challenge and none is submitted.
LEMMA FormsKept ==
  ASSUME CallsSound, FormsSound, NEW t \in Tabs, UNCHANGED <<used, signups>>,
         \A s \in Tabs \ {t} : doc'[s] = doc[s], TabMoves(t),
         \A n \in DOMAIN calls' : n > sent => calls'[n].kind \notin {"login", "register"},
         \A n \in DOMAIN calls' : calls'[n].tab = t =>
           /\ calls'[n].kind \in {"login", "register"} => OnForm(t)' /\ doc'[t].busy = TRUE
           /\ calls'[n].kind \in {"enroll", "verify"} => doc'[t].page = "portal",
         \A c : Holds(t, c)' =>
           /\ Holds(t, c)
           /\ \A n : Sub(n) /\ calls[n].tab = t =>
                \/ n \in DOMAIN calls' /\ calls'[n].tab = t
                \/ n \notin DOMAIN calls' /\ (Cap(n) \in used => Cap(n) \in signups)
  PROVE  FormsSound'
<1>1. None \notin Tabs /\ sent \in Nat
  BY SessionAssumption DEF CallsSound
<1>2. \A s \in Tabs : \A c : Holds(s, c)' => Holds(s, c)
  BY DEF Holds, OnForm
<1>3. ASSUME NEW n, Sub(n)'
      PROVE  /\ Sub(n) /\ Alike(calls'[n], calls[n]) /\ Cap(n)' = Cap(n)
             /\ calls'[n].tab = calls[n].tab \/ (calls[n].tab = t /\ calls'[n].tab = None)
  <2>1. n \in DOMAIN calls' /\ calls'[n].kind \in {"login", "register"}
    BY <1>3 DEF Sub
  <2>2. ~(n > sent)
    BY <2>1
  <2> QED
    BY <2>1, <2>2 DEF TabMoves, Alike, Sub, Cap
<1>4. ASSUME NEW c, Loaded(c) PROVE Loaded(c)'
  <2>1. c \in Nat /\ c <= sent /\ c \notin DOMAIN calls
    BY <1>4 DEF Loaded
  <2>2. c \notin DOMAIN calls'
    BY <1>1, <2>1 DEF TabMoves
  <2> QED
    BY <1>1, <2>1, <2>2 DEF TabMoves, Loaded
<1>5. ASSUME NEW n \in DOMAIN calls' PROVE FormCall(n)'
  <2>1. CASE n > sent /\ NewCall(n, calls'[n]) /\ calls'[n].tab = t
    <3>1. ~Sub(n)' /\ calls'[n].kind # "register"
      BY <2>1 DEF Sub
    <3>2. calls'[n].kind = "captcha" => calls'[n].reply.data = n
      BY <2>1 DEF NewCall, Reply
    <3> QED
      BY <2>1, <3>1, <3>2 DEF FormCall, Ok, Data
  <2>2. CASE n \in DOMAIN calls /\ Alike(calls'[n], calls[n])
             /\ (calls'[n].tab = calls[n].tab \/ (calls[n].tab = t /\ calls'[n].tab = None))
    <3>1. FormCall(n)
      BY <2>2 DEF FormsSound
    <3>2. Sub(n)' => Sub(n) /\ Loaded(Cap(n)) /\ Cap(n)' = Cap(n)
      BY <1>3, <3>1 DEF FormCall
    <3>3. PICK k : k = Cap(n)
      OBVIOUS
    <3>4. Sub(n)' => Loaded(Cap(n))'
      <4>1. Sub(n)' => Loaded(k)' /\ Cap(n)' = k
        BY <1>4, <3>2, <3>3
      <4> QED
        BY <4>1 DEF Loaded
    <3>5. calls'[n].tab # None /\ calls'[n].tab # t =>
            /\ calls'[n].tab = calls[n].tab /\ calls[n].tab \in Tabs
            /\ doc'[calls[n].tab] = doc[calls[n].tab]
      BY <2>2, <3>1 DEF FormCall
    <3>6. Sub(n)' /\ calls'[n].tab # None =>
            calls'[n].tab \in Tabs /\ doc'[calls'[n].tab].page \in {"login", "register"}
              /\ doc'[calls'[n].tab].busy = TRUE
      BY <2>2, <3>1, <3>2, <3>5 DEF FormCall, OnForm, Sub
    <3>7. calls'[n].kind \in {"enroll", "verify"} /\ calls'[n].tab # None =>
            doc'[calls'[n].tab].page = "portal"
      BY <2>2, <3>1, <3>5 DEF FormCall, Alike
    <3>8. calls'[n].kind = "register" /\ calls'[n].reply # None /\ calls'[n].reply.status = 200
            => calls'[n].arg.captcha \in signups'
      BY <2>2, <3>1 DEF FormCall, Alike, Ok, Cap
    <3> QED
      BY <2>2, <3>1, <3>4, <3>6, <3>7, <3>8 DEF FormCall, Alike, Ok, Data, Cap, OnForm
  <2> QED
    BY <2>1, <2>2 DEF TabMoves
<1>6. OneOwner'
  <2>1. ASSUME NEW s \in Tabs, NEW n, Sub(n)', Holds(s, Cap(n))' PROVE calls'[n].tab = s
    <3>1. PICK c : c = Cap(n)
      OBVIOUS
    <3>2. Sub(n) /\ Cap(n)' = c /\ Holds(s, c)'
      BY <1>3, <2>1, <3>1 DEF Holds
    <3>3. Holds(s, c) /\ calls[n].tab = s
      BY <1>2, <3>1, <3>2 DEF FormsSound, OneOwner
    <3>4. CASE s = t
      BY <2>1, <3>2, <3>3, <3>4 DEF Sub
    <3>5. CASE s # t
      BY <1>3, <2>1, <3>3, <3>5
    <3> QED
      BY <3>4, <3>5
  <2>2. ASSUME NEW m, NEW n, Sub(m)', Sub(n)', Cap(m)' = Cap(n)' PROVE calls'[m].tab = calls'[n].tab
    <3>1. calls[m].tab = calls[n].tab /\ (calls[n].tab # None => (Cap(m) = Cap(n)))
      BY <1>3, <2>2 DEF FormsSound, OneOwner
    <3>2. calls[n].tab = t => m = n
      BY <1>1, <1>3, <2>2, <3>1 DEF FormsSound, OneOwner
    <3> QED
      BY <1>3, <2>2, <3>1, <3>2
  <2>3. ASSUME NEW m, NEW n, Sub(m)', Sub(n)', calls'[m].tab = calls'[n].tab, calls'[n].tab # None
        PROVE  m = n
    BY <1>3, <2>3 DEF FormsSound, OneOwner
  <2>4. ASSUME NEW r \in Tabs, NEW s \in Tabs, NEW c, Holds(r, c)', Holds(s, c)' PROVE r = s
    BY <1>2, <2>4 DEF FormsSound, OneOwner
  <2> QED
    BY <2>1, <2>2, <2>3, <2>4 DEF OneOwner
<1>7. ASSUME NEW s \in Tabs, NEW c \in used', Holds(s, c)' PROVE c \in signups' \/ Taken(s, c)'
  <2>1. Holds(s, c) /\ (c \in signups \/ Taken(s, c))
    BY <1>2, <1>7 DEF FormsSound
  <2>2. ASSUME NEW m, Sub(m), Answered(m), calls[m].tab = s, Cap(m) = c
        PROVE  c \in signups \/ Taken(s, c)'
    <3>1. CASE m \in DOMAIN calls' /\ calls'[m].tab = s
      <4>1. ~(m > sent)
        BY <2>2 DEF Sub, CallsSound
      <4>2. Alike(calls'[m], calls[m])
        BY <3>1, <4>1 DEF TabMoves
      <4>3. Sub(m)' /\ Answered(m)' /\ Cap(m)' = c
        BY <2>2, <3>1, <4>2 DEF Alike, Sub, Answered, Cap
      <4> QED
        BY <3>1, <4>3 DEF Taken
    <3>2. CASE s = t
      BY <1>7, <2>2, <3>1, <3>2
    <3>3. CASE s # t
      <4>1. m \in DOMAIN calls' /\ ~(m > sent)
        BY <2>2, <3>3 DEF TabMoves, Sub, CallsSound
      <4>2. calls'[m].tab = s
        BY <2>2, <3>3, <4>1 DEF TabMoves
      <4> QED
        BY <3>1, <4>1, <4>2
    <3> QED
      BY <3>2, <3>3
  <2> QED
    BY <2>1, <2>2 DEF Taken
<1>8. ResentAfterSignup'
  <2> SUFFICES ASSUME NEW n \in DOMAIN calls', calls'[n].kind \in {"login", "register"}, calls'[n].tab # None,
                      calls'[n].reply = None, calls'[n].arg.captcha \in used
               PROVE  calls'[n].arg.captcha \in signups
    BY DEF ResentAfterSignup, Answered
  <2>1. Sub(n)'
    BY DEF Sub
  <2>2. Sub(n) /\ Alike(calls'[n], calls[n]) /\ calls[n].tab # None
    BY <1>1, <1>3, <2>1
  <2> QED
    BY <2>2 DEF FormsSound, ResentAfterSignup, Sub, Alike, Answered
<1>9. \A s \in Tabs : \A c : Holds(s, c)' => Loaded(c)'
  BY <1>2, <1>4 DEF FormsSound
<1>10. \A c \in used' : Loaded(c)'
  BY <1>4 DEF FormsSound
<1> QED
  BY <1>5, <1>6, <1>7, <1>8, <1>9, <1>10 DEF FormsSound

LEMMA FormsBegin == Init => FormsSound
<1> SUFFICES ASSUME Init PROVE FormsSound
  OBVIOUS
<1>1. DOMAIN calls = {} /\ used = {}
  BY DEF Init
<1>2. \A t \in Tabs : ~OnForm(t)
  BY DEF Init, OnForm, Leaving
<1> QED
  BY <1>1, <1>2 DEF FormsSound, OneOwner, Sub, Holds, ResentAfterSignup

\* The steps that only move calls of t.
LEMMA MovesNone ==
  ASSUME CallsSound, NEW t, NEW done, Request(done, <<>>),
         \A n \in done : calls[n].tab = t
  PROVE  /\ TabMoves(t) /\ sent' = sent /\ sent \in Nat
         /\ calls' = [n \in DOMAIN calls \ done |-> calls[n]]
<1>1. sent' = sent /\ sent' \in Nat /\ calls' = [n \in DOMAIN calls \ done |-> calls[n]]
  BY RequestNone
<1> QED
  BY <1>1 DEF TabMoves, Alike

LEMMA MovesOne ==
  ASSUME CallsSound, NEW t, NEW done, NEW c, NewCall(sent + 1, c), c.tab = t, Request(done, <<c>>),
         \A n \in done : calls[n].tab = t
  PROVE  /\ TabMoves(t) /\ sent' = sent + 1 /\ sent \in Nat /\ sent' \notin DOMAIN calls
         /\ calls' = [n \in (DOMAIN calls \ done) \cup {sent'} |-> IF n = sent' THEN c ELSE calls[n]]
<1>0. sent \in Nat
  BY DEF CallsSound
<1>1. /\ sent' = sent + 1 /\ sent' \in Nat /\ sent' \notin DOMAIN calls
      /\ calls' = [n \in (DOMAIN calls \ done) \cup {sent'} |-> IF n = sent' THEN c ELSE calls[n]]
  BY ONLY CallsSound, Request(done, <<c>>), RequestOne
<1>2. ASSUME NEW n \in DOMAIN calls'
      PROVE  \/ n \in DOMAIN calls /\ Alike(calls'[n], calls[n]) /\ calls'[n].tab = calls[n].tab
             \/ n > sent /\ n \in Nat /\ NewCall(n, calls'[n]) /\ calls'[n].tab = t
  <2>1. CASE n = sent'
    BY <1>0, <1>1, <2>1
  <2>2. CASE n # sent'
    BY <1>1, <2>2 DEF Alike
  <2> QED
    BY <2>1, <2>2
<1>3. \A n \in DOMAIN calls : calls[n].tab # t => n \in DOMAIN calls'
  BY <1>1
<1> QED
  BY <1>0, <1>1, <1>2, <1>3 DEF TabMoves

LEMMA CaptchaOfTab == ASSUME NEW t PROVE CaptchaCall(t).tab = t /\ CaptchaCall(t).kind = "captcha"
  BY DEF CaptchaCall

LEMMA MovesLeave ==
  ASSUME CallsSound, NEW t \in Tabs, Leave(t, <<>>) \/ Leave(t, <<CaptchaCall(t)>>)
  PROVE  /\ TabMoves(t)
         /\ \A n \in DOMAIN calls' : calls'[n].tab = t \/ n > sent => calls'[n].kind = "captcha"
<1>0. sent \in Nat /\ t # None /\ \A n \in DOMAIN calls : ~(n > sent)
  BY SessionAssumption DEF CallsSound
<1>1. ASSUME NEW n \in DOMAIN calls
      PROVE  /\ Alike(Left(t, n), calls[n]) /\ Left(t, n).tab # t
             /\ Left(t, n).tab = calls[n].tab \/ (calls[n].tab = t /\ Left(t, n).tab = None)
  BY <1>0, LeftAlike DEF Mine
<1>2. \A n \in Abandoned(t) : calls[n].tab = t
  BY DEF Abandoned, Mine
<1>3. CASE Leave(t, <<>>)
  <2>1. sent' = sent /\ calls' = [n \in DOMAIN calls \ Abandoned(t) |-> Left(t, n)]
    BY <1>3, LeaveNone
  <2>2. \A n \in DOMAIN calls' : n \in DOMAIN calls /\ calls'[n] = Left(t, n)
    BY <2>1
  <2>3. \A n \in DOMAIN calls : calls[n].tab # t => n \in DOMAIN calls'
    BY <1>2, <2>1
  <2> QED
    BY <1>0, <1>1, <2>1, <2>2, <2>3 DEF TabMoves
<1>4. CASE Leave(t, <<CaptchaCall(t)>>)
  <2>0. PICK c : c = CaptchaCall(t)
    OBVIOUS
  <2>1. NewCall(sent + 1, c) /\ c.tab = t /\ c.kind = "captcha"
    BY <2>0, CaptchaIsNew, CaptchaOfTab
  <2>2. /\ sent' = sent + 1
        /\ calls' = [n \in (DOMAIN calls \ Abandoned(t)) \cup {sent'} |->
                       IF n = sent' THEN c ELSE Left(t, n)]
    BY <1>4, <2>0, LeaveOne
  <2>3. \A n \in DOMAIN calls' : n = sent + 1 \/ (n \in DOMAIN calls /\ calls'[n] = Left(t, n))
    BY <2>2
  <2>4. calls'[sent + 1] = c
    BY <2>2
  <2>5. \A n \in DOMAIN calls : calls[n].tab # t => n \in DOMAIN calls'
    BY <1>2, <2>2
  <2> QED
    BY <1>0, <1>1, <2>1, <2>2, <2>3, <2>4, <2>5 DEF TabMoves
<1> QED
  BY <1>3, <1>4

\* A document is left: its calls are nobody's.
LEMMA FormsLeft ==
  ASSUME CallsSound, DocsSound, FormsSound, NEW t \in Tabs, UNCHANGED <<used, signups>>,
         NEW p, GoToForm(t, p) \/ GoToPortal(t, p)
  PROVE  FormsSound'
<1>1. /\ TabMoves(t)
      /\ \A n \in DOMAIN calls' : calls'[n].tab = t \/ n > sent => calls'[n].kind = "captcha"
  BY MovesLeave DEF GoToForm, GoToPortal
<1>2. doc' = [doc EXCEPT ![t] = FormPage(p)] \/ doc' = [doc EXCEPT ![t] = Leaving(p)]
  BY DEF GoToForm, GoToPortal
<1>3. \A s \in Tabs \ {t} : doc'[s] = doc[s]
  BY <1>2 DEF DocsSound
<1>4. \A c : ~Holds(t, c)'
  BY <1>2 DEF DocsSound, Holds, OnForm, FormPage, Leaving
<1> QED
  BY <1>1, <1>3, <1>4, FormsKept

\* A step that leaves the challenge of a form, and the calls that carry one, alone.
LEMMA FormsSame ==
  ASSUME CallsSound, FormsSound, NEW t \in Tabs, UNCHANGED <<used, signups>>, TabMoves(t),
         \A s \in Tabs \ {t} : doc'[s] = doc[s],
         doc'[t].page = doc[t].page,
         OnForm(t) => doc'[t].captcha = doc[t].captcha /\ doc'[t].busy = doc[t].busy,
         \A n \in DOMAIN calls' : n > sent =>
           /\ calls'[n].kind \notin {"login", "register"}
           /\ calls'[n].kind \in {"enroll", "verify"} => OnPortal(t),
         \A n : Sub(n) => n \in DOMAIN calls' /\ calls'[n].tab = calls[n].tab
  PROVE  FormsSound'
<1>1. t # None
  BY SessionAssumption
<1>2. ASSUME NEW n \in DOMAIN calls', calls'[n].tab = t
      PROVE  /\ calls'[n].kind \in {"login", "register"} => OnForm(t)' /\ doc'[t].busy = TRUE
             /\ calls'[n].kind \in {"enroll", "verify"} => doc'[t].page = "portal"
  <2>1. CASE n > sent
    BY <1>2, <2>1 DEF OnPortal
  <2>2. CASE n \in DOMAIN calls /\ Alike(calls'[n], calls[n]) /\ calls[n].tab = t
    <3>1. FormCall(n)
      BY <2>2 DEF FormsSound
    <3> QED
      BY <1>1, <2>2, <3>1 DEF FormCall, Alike, Sub, OnForm
  <2> QED
    BY <1>1, <1>2, <2>1, <2>2 DEF TabMoves
<1>3. ASSUME NEW c, Holds(t, c)' PROVE Holds(t, c)
  BY <1>3 DEF Holds, OnForm
<1> QED
  BY <1>2, <1>3, FormsKept

\* A new challenge is asked for: the old one is gone, and with it the call that carried it.
LEMMA FormsLoading ==
  ASSUME CallsSound, DocsSound, FormsSound, NEW t \in Tabs, UNCHANGED <<used, signups>>,
         NEW p, NEW done, PageSound(p), LoadCaptcha(t, p, done), OnForm(t),
         p.page = doc[t].page,
         \/ done = {} /\ p.busy = doc[t].busy
         \/ \E n : done = {n} /\ Sub(n) /\ calls[n].tab = t
  PROVE  FormsSound'
<1>0. PICK c : c = CaptchaCall(t)
  OBVIOUS
<1>1. NewCall(sent + 1, c) /\ c.tab = t /\ c.kind = "captcha"
  BY <1>0, CaptchaIsNew, CaptchaOfTab
<1>2. Request(done, <<c>>) /\ \A n \in done : calls[n].tab = t
  BY <1>0 DEF LoadCaptcha
<1>3. /\ TabMoves(t) /\ sent' = sent + 1 /\ sent \in Nat
      /\ calls' = [n \in (DOMAIN calls \ done) \cup {sent'} |-> IF n = sent' THEN c ELSE calls[n]]
  <2>1. TabMoves(t)
    BY ONLY CallsSound, <1>1, <1>2, MovesOne
  <2>2. /\ sent' = sent + 1 /\ sent' \in Nat /\ sent' \notin DOMAIN calls
        /\ calls' = [n \in (DOMAIN calls \ done) \cup {sent'} |-> IF n = sent' THEN c ELSE calls[n]]
    <3>1. Request(done, <<c>>)
      BY <1>2
    <3> QED
      BY ONLY CallsSound, <3>1, RequestOne
  <2>3. sent \in Nat
    BY DEF CallsSound
  <2> QED
    BY <2>1, <2>2, <2>3
<1>4. PICK q : q = [p EXCEPT !.captcha = None, !.question = None]
  OBVIOUS
<1>5. q = [x \in DOMAIN p |-> IF x \in {"captcha", "question"} THEN None ELSE p[x]]
  BY <1>4 DEF PageSound, HasShape
<1>6. q.page = p.page /\ q.captcha = None /\ q.busy = p.busy
  BY <1>5 DEF PageSound, OnForm
<1>7. doc' = [doc EXCEPT ![t] = q]
  BY <1>4 DEF LoadCaptcha
<1>8. doc'[t] = q /\ \A s \in Tabs \ {t} : doc'[s] = doc[s]
  BY <1>7 DEF DocsSound
<1>9. \A k : ~Holds(t, k)'
  BY <1>6, <1>8 DEF Holds
<1>10. ASSUME NEW n \in DOMAIN calls', calls'[n].tab = t, calls'[n].kind # "captcha"
       PROVE  /\ calls'[n].kind \in {"login", "register"} => OnForm(t)' /\ doc'[t].busy = TRUE
              /\ calls'[n].kind \notin {"enroll", "verify"}
  <2>1. n \in DOMAIN calls \ done /\ calls'[n] = calls[n]
    BY <1>1, <1>3, <1>10
  <2>2. FormCall(n) /\ t # None
    BY <2>1, SessionAssumption DEF FormsSound
  <2>3. calls[n].kind \notin {"enroll", "verify"}
    BY <1>10, <2>1, <2>2 DEF FormCall, OnForm
  <2>4. CASE done = {} /\ p.busy = doc[t].busy
    BY <1>6, <1>8, <1>10, <2>1, <2>2, <2>3, <2>4 DEF FormCall, Sub, OnForm
  <2>5. CASE \E m : done = {m} /\ Sub(m) /\ calls[m].tab = t
    <3>1. ~Sub(n)
      BY <1>10, <2>1, <2>2, <2>5 DEF FormsSound, OneOwner
    <3> QED
      BY <2>1, <2>3, <3>1 DEF Sub
  <2> QED
    BY <2>4, <2>5
<1>11. \A n \in DOMAIN calls' : n > sent => calls'[n].kind = "captcha"
  <2>1. \A n \in DOMAIN calls : ~(n > sent)
    BY DEF CallsSound
  <2> QED
    BY <1>1, <1>3, <2>1
<1> QED
  BY <1>3, <1>8, <1>9, <1>10, <1>11, FormsKept

\* An account was made: the form keeps the challenge that made it until it leaves.
LEMMA FormsRegistered ==
  ASSUME SessionInv, FormsSound, NEW n \in DOMAIN calls, Registered(n), Ok(n)
  PROVE  FormsSound'
<1>1. PICK t \in Tabs : t = calls[n].tab
  BY DEF Registered
<1>2. CallsSound /\ DocsSound /\ FormCall(n) /\ t # None
  BY SessionAssumption DEF SessionInv, FormsSound
<1>3. Sub(n) /\ Cap(n) \in signups
  BY <1>2 DEF Registered, Sub, FormCall
<1>4. /\ TabMoves(t) /\ sent' = sent /\ sent \in Nat
      /\ calls' = [m \in DOMAIN calls \ {n} |-> calls[m]]
  <2>1. Request({n}, <<>>)
    BY DEF Registered
  <2>2. \A m \in {n} : calls[m].tab = t
    BY <1>1
  <2> QED
    BY ONLY <1>2, <2>1, <2>2, MovesNone
<1>5. OnForm(t) /\ PageSound(doc[t])
  BY <1>1, <1>2, <1>3 DEF FormCall, DocsSound
<1>6. doc' = [doc EXCEPT ![t].busy = FALSE, ![t].done = TRUE]
  BY <1>1 DEF Registered
<1>7. PICK p, q : p = [doc[t] EXCEPT !.busy = FALSE] /\ q = [p EXCEPT !.done = TRUE]
  OBVIOUS
<1>8. doc' = [doc EXCEPT ![t] = q]
  BY <1>2, <1>6, <1>7 DEF DocsSound
<1>9. /\ DOMAIN p = DOMAIN doc[t]
      /\ p = [x \in DOMAIN doc[t] |-> IF x = "busy" THEN FALSE ELSE doc[t][x]]
  BY <1>5, <1>7 DEF PageSound, HasShape
<1>10. q = [x \in DOMAIN doc[t] |-> IF x = "done" THEN TRUE ELSE p[x]]
  BY <1>7, <1>9
<1>11. q.page = doc[t].page /\ q.captcha = doc[t].captcha
  BY <1>5, <1>9, <1>10 DEF PageSound, OnForm
<1>12. doc'[t] = q /\ \A s \in Tabs \ {t} : doc'[s] = doc[s]
  BY <1>2, <1>8 DEF DocsSound
<1>13. \A c : Holds(t, c)' => Holds(t, c)
  BY <1>11, <1>12 DEF Holds, OnForm
<1>14. ASSUME NEW m \in DOMAIN calls', calls'[m].tab = t
       PROVE  calls'[m].kind \notin {"login", "register", "enroll", "verify"}
  <2>1. m \in DOMAIN calls /\ m # n /\ calls'[m] = calls[m] /\ FormCall(m)
    BY <1>4 DEF FormsSound
  <2>2. ~Sub(m)
    BY <1>1, <1>2, <1>3, <1>14, <2>1 DEF FormsSound, OneOwner
  <2> QED
    BY <1>2, <1>5, <1>14, <2>1, <2>2 DEF FormCall, Sub, OnForm
<1>15. \A m : Sub(m) /\ calls[m].tab = t => m = n /\ m \notin DOMAIN calls'
  BY <1>1, <1>2, <1>3, <1>4 DEF FormsSound, OneOwner
<1>16. UNCHANGED <<used, signups>>
  BY DEF Registered, server
<1>17. \A m \in DOMAIN calls' : ~(m > sent)
  BY <1>2, <1>4 DEF CallsSound
<1>18. ASSUME NEW c, Holds(t, c)'
       PROVE  /\ Holds(t, c)
              /\ \A m : Sub(m) /\ calls[m].tab = t =>
                   \/ m \in DOMAIN calls' /\ calls'[m].tab = t
                   \/ m \notin DOMAIN calls' /\ (Cap(m) \in used => Cap(m) \in signups)
  BY <1>3, <1>13, <1>15, <1>18
<1> QED
  BY ONLY FormsSound, <1>2, <1>4, <1>12, <1>14, <1>16, <1>17, <1>18, FormsKept

\* A challenge arrives that no form has shown before.
LEMMA FormsShow ==
  ASSUME SessionInv, FormsSound, NEW n \in DOMAIN calls, ShowCaptcha(n), Ok(n)
  PROVE  FormsSound'
<1>1. PICK t \in Tabs : t = calls[n].tab
  BY DEF ShowCaptcha
<1>2. CallsSound /\ DocsSound /\ FormCall(n) /\ t # None
  BY SessionAssumption DEF SessionInv, FormsSound
<1>3. calls[n].kind = "captcha" /\ Data(n) = n /\ n \in Nat /\ n <= sent
  BY <1>2 DEF ShowCaptcha, FormCall, CallsSound
<1>4. sent' = sent /\ calls' = [m \in DOMAIN calls \ {n} |-> calls[m]]
  BY <1>2, RequestNone DEF ShowCaptcha
<1>5. PICK p : p = [doc[t] EXCEPT !.captcha = n, !.question = n, !.answer = None]
  OBVIOUS
<1>6. doc'[t] = p /\ \A s \in Tabs \ {t} : doc'[s] = doc[s]
  BY <1>1, <1>2, <1>3, <1>5 DEF ShowCaptcha, DocsSound
<1>7. p = [x \in DOMAIN doc[t] |-> IF x = "answer" THEN None
                                     ELSE IF x \in {"captcha", "question"} THEN n ELSE doc[t][x]]
  BY <1>2, <1>5 DEF DocsSound, PageSound, HasShape
<1>8. p.page = doc[t].page /\ (OnForm(t) => p.captcha = n /\ p.busy = doc[t].busy)
  BY <1>2, <1>7 DEF DocsSound, PageSound, OnForm
<1>9. UNCHANGED <<used, signups>>
  BY DEF ShowCaptcha, server
<1>10. \A c : Loaded(c) => Loaded(c)' /\ c # n
  BY <1>4 DEF Loaded
<1>11. ~(n \in DOMAIN calls') /\ Loaded(n)'
  BY <1>3, <1>4 DEF Loaded
<1>12. \A m : Sub(m)' <=> Sub(m)
  BY <1>3, <1>4 DEF Sub
<1>13. ASSUME NEW m, Sub(m)
       PROVE  /\ calls'[m] = calls[m] /\ Cap(m)' = Cap(m) /\ Loaded(Cap(m)) /\ Cap(m) # n
              /\ Answered(m)' <=> Answered(m)
  <2>1. m \in DOMAIN calls' /\ calls'[m] = calls[m]
    BY <1>3, <1>4, <1>13 DEF Sub
  <2>2. Loaded(Cap(m))
    BY <1>13 DEF Sub, FormsSound, FormCall
  <2> QED
    BY <1>10, <2>1, <2>2 DEF Cap, Answered
<1>14. ASSUME NEW s \in Tabs, NEW c, Holds(s, c)' PROVE Holds(s, c) \/ (s = t /\ c = n)
  BY <1>6, <1>8, <1>14 DEF Holds, OnForm
<1>15. ASSUME NEW s \in Tabs, NEW c, Holds(s, c) PROVE Loaded(c) /\ c # n
  BY <1>10, <1>15 DEF FormsSound
<1>16. ASSUME NEW m \in DOMAIN calls' PROVE FormCall(m)'
  <2>1. m \in DOMAIN calls /\ calls'[m] = calls[m] /\ FormCall(m)
    BY <1>4 DEF FormsSound
  <2>2. \A s \in Tabs : doc'[s].page = doc[s].page /\ (OnForm(s) => doc'[s].busy = doc[s].busy)
    BY <1>6, <1>8
  <2>3. Sub(m)' => Loaded(Cap(m))'
    BY <1>10, <1>12, <1>13 DEF Loaded
  <2>4. Sub(m) /\ calls[m].tab # None => OnForm(calls[m].tab)' /\ doc'[calls[m].tab].busy = TRUE
    BY <2>1, <2>2 DEF FormCall, OnForm
  <2> QED
    BY <1>9, <1>12, <2>1, <2>2, <2>3, <2>4 DEF FormCall, Ok, Data, Cap, OnForm
<1>17. OneOwner'
  <2>1. \A s \in Tabs : \A m : Sub(m)' /\ Holds(s, Cap(m))' => calls'[m].tab = s
    <3> SUFFICES ASSUME NEW s \in Tabs, NEW m, Sub(m), Holds(s, Cap(m))' PROVE calls'[m].tab = s
      BY <1>12
    <3>1. PICK c : c = Cap(m)
      OBVIOUS
    <3>2. Holds(s, c)' /\ c # n
      BY <1>13, <3>1 DEF Holds
    <3>3. Holds(s, c)
      BY <1>14, <3>2
    <3> QED
      BY <1>13, <3>1, <3>3 DEF FormsSound, OneOwner
  <2>2. \A m, k : Sub(m)' /\ Sub(k)' /\ Cap(m)' = Cap(k)' => calls'[m].tab = calls'[k].tab
    BY <1>12, <1>13 DEF FormsSound, OneOwner
  <2>3. \A m, k : Sub(m)' /\ Sub(k)' /\ calls'[m].tab = calls'[k].tab /\ calls'[k].tab # None => m = k
    BY <1>12, <1>13 DEF FormsSound, OneOwner
  <2>4. \A r, s \in Tabs : \A c : Holds(r, c)' /\ Holds(s, c)' => r = s
    BY <1>14, <1>15 DEF FormsSound, OneOwner
  <2> QED
    BY <2>1, <2>2, <2>3, <2>4 DEF OneOwner
<1>18. \A s \in Tabs : \A c : Holds(s, c)' => Loaded(c)'
  BY <1>10, <1>11, <1>14, <1>15
<1>19. ASSUME NEW s \in Tabs, NEW c \in used, Holds(s, c)' PROVE c \in signups \/ Taken(s, c)'
  <2>1. Loaded(c) /\ c # n
    BY <1>10 DEF FormsSound
  <2>2. c \in signups \/ Taken(s, c)
    BY <1>14, <1>19, <2>1 DEF FormsSound
  <2>3. Taken(s, c) => Taken(s, c)'
    BY <1>12, <1>13 DEF Taken
  <2> QED
    BY <2>2, <2>3
<1>20. ResentAfterSignup'
  BY <1>4, <1>9 DEF FormsSound, ResentAfterSignup, Answered
<1> QED
  BY <1>9, <1>10, <1>16, <1>17, <1>18, <1>19, <1>20 DEF FormsSound

\* The challenge of a form is submitted: no other call has it.
LEMMA FormsSubmit ==
  ASSUME CallsSound, DocsSound, FormsSound, NEW t \in Tabs, UNCHANGED <<used, signups>>,
         NEW kind \in {"login", "register"}, NEW arg, Submit(t, kind, arg), OnForm(t),
         arg.captcha = doc[t].captcha
  PROVE  FormsSound'
<1>0. PICK c, k : c = Call(t, kind, arg) /\ k = doc[t].captcha
  OBVIOUS
<1>1. /\ c.tab = t /\ c.kind = kind /\ c.reply = None /\ c.arg.captcha = k
      /\ t # None /\ k # None /\ Holds(t, k)
  BY <1>0, SessionAssumption DEF Call, Submit, Holds
<1>2. Request({}, <<c>>)
  BY <1>0 DEF Submit
<1>3. /\ sent' = sent + 1 /\ sent' \in Nat /\ sent' \notin DOMAIN calls
      /\ calls' = [n \in (DOMAIN calls \ {}) \cup {sent'} |-> IF n = sent' THEN c ELSE calls[n]]
  BY ONLY CallsSound, <1>2, RequestOne
<1>3a. PICK new : new = sent'
  OBVIOUS
<1>4. PICK p : p = [doc[t] EXCEPT !.busy = TRUE]
  OBVIOUS
<1>5. p = [x \in DOMAIN doc[t] |-> IF x = "busy" THEN TRUE ELSE doc[t][x]]
  BY <1>4 DEF DocsSound, PageSound, HasShape
<1>6. p.page = doc[t].page /\ p.captcha = k /\ p.busy = TRUE
  BY <1>0, <1>5 DEF DocsSound, PageSound, OnForm
<1>7. doc'[t] = p /\ \A s \in Tabs \ {t} : doc'[s] = doc[s]
  BY <1>4 DEF Submit, DocsSound
<1>8. \A n : Sub(n) => calls[n].tab # t
  <2>1. doc[t].busy # TRUE
    BY DEF Submit
  <2> QED
    BY <1>1, <2>1 DEF FormsSound, FormCall, Sub
<1>9. ASSUME NEW n \in DOMAIN calls
      PROVE  n \in DOMAIN calls' /\ calls'[n] = calls[n] /\ n # new
  BY <1>3, <1>3a
<1>10. ASSUME NEW n \in DOMAIN calls', n # new PROVE n \in DOMAIN calls
  BY <1>3, <1>10, <1>3a
<1>11. new \in DOMAIN calls' /\ calls'[new] = c
  BY <1>3, <1>3a
<1>12. \A m : Sub(m)' <=> Sub(m) \/ m = new
  BY <1>1, <1>9, <1>10, <1>11 DEF Sub
<1>13. ASSUME NEW m, Sub(m)
       PROVE  /\ calls'[m] = calls[m] /\ Cap(m)' = Cap(m) /\ m # new /\ Cap(m) # k
              /\ (Answered(m)' <=> Answered(m)) /\ Loaded(Cap(m))
  <2>1. m \in DOMAIN calls
    BY <1>13 DEF Sub
  <2>2. Cap(m) # k
    BY <1>1, <1>8, <1>13 DEF FormsSound, OneOwner
  <2> QED
    BY <1>9, <1>13, <2>1, <2>2 DEF Cap, Answered, FormsSound, FormCall
<1>14. Cap(new)' = k /\ ~Answered(new)'
  BY <1>1, <1>11 DEF Cap, Answered
<1>15. \A s \in Tabs : \A x : Holds(s, x)' <=> Holds(s, x)
  BY <1>0, <1>6, <1>7 DEF Holds, OnForm
<1>16. ASSUME NEW x, Loaded(x) PROVE Loaded(x)'
  <2>1. x \in Nat /\ x <= sent /\ x \notin DOMAIN calls /\ sent \in Nat
    BY <1>16 DEF Loaded, CallsSound
  <2>2. x \notin DOMAIN calls' /\ x <= sent'
    BY <1>3, <1>10, <1>3a, <2>1
  <2> QED
    BY <2>1, <2>2 DEF Loaded
<1>17. Loaded(k)
  BY <1>1 DEF FormsSound
<1>18. ASSUME NEW m \in DOMAIN calls' PROVE FormCall(m)'
  <2>1. \A s \in Tabs : doc'[s].page = doc[s].page /\ (OnForm(s) /\ doc[s].busy = TRUE => doc'[s].busy = TRUE)
    BY <1>6, <1>7
  <2>2. CASE m = new
    <3>1. calls'[m] = c /\ Loaded(k)'
      BY <1>11, <1>16, <1>17, <2>2
    <3>2. Sub(m)' => Loaded(Cap(m))'
      BY <1>1, <3>1 DEF Loaded, Cap
    <3> QED
      BY <1>1, <1>6, <1>7, <3>1, <3>2 DEF FormCall, Ok, OnForm
  <2>3. CASE m # new
    <3>1. m \in DOMAIN calls /\ calls'[m] = calls[m] /\ FormCall(m)
      BY <1>9, <1>10, <2>3 DEF FormsSound
    <3>2. Sub(m)' => Sub(m) /\ Loaded(Cap(m))'
      <4>1. Sub(m)' => Sub(m) /\ Cap(m)' = Cap(m) /\ Loaded(Cap(m))
        BY <1>12, <1>13, <2>3
      <4>2. PICK x : x = Cap(m)
        OBVIOUS
      <4>3. Sub(m)' => Loaded(x)' /\ Cap(m)' = x
        BY <1>16, <4>1, <4>2
      <4> QED
        BY <4>1, <4>3 DEF Loaded
    <3>3. Sub(m) /\ calls[m].tab # None => OnForm(calls[m].tab)' /\ doc'[calls[m].tab].busy = TRUE
      BY <2>1, <3>1 DEF FormCall, OnForm
    <3> QED
      BY <2>1, <3>1, <3>2, <3>3 DEF FormCall, Ok, Data, Cap, OnForm
  <2> QED
    BY <2>2, <2>3
<1>19. OneOwner'
  <2>1. ASSUME NEW s \in Tabs, NEW m, Sub(m)', Holds(s, Cap(m))' PROVE calls'[m].tab = s
    <3>1. PICK x : x = Cap(m)'
      OBVIOUS
    <3>2. Holds(s, x)
      BY <1>15, <2>1, <3>1 DEF Holds, OnForm
    <3>3. CASE m = new
      BY <1>1, <1>11, <1>14, <3>1, <3>2, <3>3 DEF FormsSound, OneOwner, Cap
    <3>4. CASE Sub(m)
      BY <1>13, <3>1, <3>2, <3>4 DEF FormsSound, OneOwner
    <3> QED
      BY <1>12, <2>1, <3>3, <3>4
  <2>2. \A m, n : Sub(m)' /\ Sub(n)' /\ Cap(m)' = Cap(n)' => calls'[m].tab = calls'[n].tab
    <3>1. \A m : Sub(m)' => Sub(m) \/ (m = new /\ Cap(m)' = k)
      BY <1>1, <1>11, <1>12 DEF Cap
    <3> QED
      BY <1>13, <3>1 DEF FormsSound, OneOwner
  <2>3. \A m, n : Sub(m)' /\ Sub(n)' /\ calls'[m].tab = calls'[n].tab /\ calls'[n].tab # None => m = n
    <3>1. \A m : Sub(m)' => Sub(m) \/ (m = new /\ calls'[m].tab = t)
      BY <1>1, <1>11, <1>12
    <3> QED
      BY <1>8, <1>13, <3>1 DEF FormsSound, OneOwner
  <2>4. \A r, s \in Tabs : \A x : Holds(r, x)' /\ Holds(s, x)' => r = s
    BY <1>15 DEF FormsSound, OneOwner
  <2> QED
    BY <2>1, <2>2, <2>3, <2>4 DEF OneOwner
<1>20. \A s \in Tabs : \A x : Holds(s, x)' => Loaded(x)'
  BY <1>15, <1>16 DEF FormsSound
<1>21. \A x \in used' : Loaded(x)'
  BY <1>16 DEF FormsSound
<1>22. ASSUME NEW s \in Tabs, NEW x \in used, Holds(s, x)' PROVE x \in signups \/ Taken(s, x)'
  <2>1. x \in signups \/ Taken(s, x)
    BY <1>15, <1>22 DEF FormsSound
  <2>2. Taken(s, x) => Taken(s, x)'
    BY <1>12, <1>13 DEF Taken
  <2> QED
    BY <2>1, <2>2
<1>23. k \in used => k \in signups
  BY <1>1, <1>8 DEF FormsSound, Taken
<1>24. ResentAfterSignup'
  <2> SUFFICES ASSUME NEW m \in DOMAIN calls', calls'[m].kind \in {"login", "register"}, calls'[m].tab # None,
                      calls'[m].reply = None, calls'[m].arg.captcha \in used
               PROVE  calls'[m].arg.captcha \in signups
    BY DEF ResentAfterSignup, Answered
  <2>1. CASE m = new
    BY <1>1, <1>11, <1>23, <2>1
  <2>2. CASE m # new
    BY <1>9, <1>10, <2>2 DEF FormsSound, ResentAfterSignup, Answered
  <2> QED
    BY <2>1, <2>2
<1> QED
  BY <1>18, <1>19, <1>20, <1>21, <1>22, <1>24 DEF FormsSound

\* A call is answered: the challenge it has used up was its own.
LEMMA FormsServed ==
  ASSUME CallsSound, FormsSound, NEW n \in DOMAIN calls, NEW reply, Served(n, reply), reply # None,
         UNCHANGED doc,
         \/ UNCHANGED <<used, signups>>
         \/ /\ Sub(n) /\ used' = used \cup {Cap(n)}
            /\ signups' = signups \/ signups' = signups \cup {Cap(n)},
         calls[n].kind = "register" /\ reply.status = 200 => Cap(n) \in signups',
         calls[n].kind = "captcha" /\ reply.status = 200 => reply.data = n
  PROVE  FormsSound'
<1>1. used \subseteq used' /\ signups \subseteq signups'
  OBVIOUS
<1>2. sent' = sent /\ DOMAIN calls' \subseteq DOMAIN calls
  BY DEF Served
<1>3. ASSUME NEW m \in DOMAIN calls'
      PROVE  /\ m \in DOMAIN calls /\ calls'[m].kind = calls[m].kind /\ calls'[m].arg = calls[m].arg
             /\ calls'[m].tab = calls[m].tab /\ (m # n => calls'[m].reply = calls[m].reply)
             /\ (m = n => calls'[m].reply = reply)
  BY DEF Served
<1>4. \A m \in DOMAIN calls : calls[m].tab # None => m \in DOMAIN calls'
  BY DEF Served
<1>5. \A s, c : Holds(s, c)' <=> Holds(s, c)
  BY DEF Holds, OnForm
<1>6. \A c : Loaded(c) => Loaded(c)'
  BY <1>2 DEF Loaded
<1>7. \A m : Sub(m)' => Sub(m) /\ m \in DOMAIN calls' /\ Cap(m)' = Cap(m)
  BY <1>3 DEF Sub, Cap
<1>8. ASSUME NEW m \in DOMAIN calls' PROVE FormCall(m)'
  <2>1. FormCall(m)
    BY <1>3 DEF FormsSound
  <2>2. Sub(m)' => Loaded(Cap(m))'
    <3>1. PICK c : c = Cap(m)
      OBVIOUS
    <3>2. Sub(m)' => Cap(m)' = c /\ Loaded(c)'
      BY <1>6, <1>7, <2>1, <3>1 DEF FormCall
    <3> QED
      BY <3>2 DEF Loaded
  <2>3. calls'[m].kind = "captcha" /\ calls'[m].reply # None /\ calls'[m].reply.status = 200
          => calls'[m].reply.data = m
    BY <1>3, <2>1 DEF FormCall, Ok, Data
  <2>4. calls'[m].kind = "register" /\ calls'[m].reply # None /\ calls'[m].reply.status = 200
          => calls'[m].arg.captcha \in signups'
    BY <1>1, <1>3, <2>1 DEF FormCall, Ok, Cap
  <2> QED
    BY <1>3, <1>7, <2>1, <2>2, <2>3, <2>4 DEF FormCall, Ok, Data, Cap, OnForm
<1>9. OneOwner'
  <2>1. ASSUME NEW s \in Tabs, NEW m, Sub(m)', Holds(s, Cap(m))' PROVE calls'[m].tab = s
    <3>1. PICK c : c = Cap(m)'
      OBVIOUS
    <3>2. Holds(s, c) /\ Sub(m) /\ Cap(m) = c
      BY <1>7, <2>1, <3>1 DEF Holds, OnForm
    <3> QED
      BY <1>3, <1>7, <2>1, <3>2 DEF FormsSound, OneOwner
  <2>2. \A m, k : Sub(m)' /\ Sub(k)' /\ Cap(m)' = Cap(k)' => calls'[m].tab = calls'[k].tab
    BY <1>3, <1>7 DEF FormsSound, OneOwner
  <2>3. \A m, k : Sub(m)' /\ Sub(k)' /\ calls'[m].tab = calls'[k].tab /\ calls'[k].tab # None => m = k
    BY <1>3, <1>7 DEF FormsSound, OneOwner
  <2>4. \A r, s \in Tabs : \A x : Holds(r, x)' /\ Holds(s, x)' => r = s
    BY <1>5 DEF FormsSound, OneOwner
  <2> QED
    BY <2>1, <2>2, <2>3, <2>4 DEF OneOwner
<1>10. \A s \in Tabs : \A x : Holds(s, x)' => Loaded(x)'
  BY <1>5, <1>6 DEF FormsSound
<1>11. \A x \in used' : Loaded(x)'
  BY <1>6 DEF FormsSound, FormCall
<1>12. ASSUME NEW s \in Tabs, NEW x \in used', Holds(s, x)' PROVE x \in signups' \/ Taken(s, x)'
  <2>0. s # None /\ Holds(s, x)
    BY <1>5, <1>12, SessionAssumption
  <2>1. ASSUME NEW m, Sub(m), calls[m].tab = s, Cap(m) = x, Answered(m) \/ m = n PROVE Taken(s, x)'
    <3>1. m \in DOMAIN calls' /\ calls'[m].tab = s /\ Sub(m)'
      BY <1>3, <1>4, <2>0, <2>1 DEF Sub
    <3>2. Cap(m)' = x /\ Answered(m)'
      BY <1>3, <1>7, <2>1, <3>1 DEF Answered
    <3> QED
      BY <3>1, <3>2 DEF Taken
  <2>2. CASE x \in used
    BY <1>1, <2>0, <2>1, <2>2 DEF FormsSound, Taken
  <2>3. CASE x \notin used
    <3>1. Sub(n) /\ x = Cap(n)
      BY <2>3
    <3> QED
      BY <2>0, <2>1, <3>1 DEF FormsSound, OneOwner
  <2> QED
    BY <2>2, <2>3
<1>13. ResentAfterSignup'
  <2> SUFFICES ASSUME NEW m \in DOMAIN calls', calls'[m].kind \in {"login", "register"}, calls'[m].tab # None,
                      calls'[m].reply = None, calls'[m].arg.captcha \in used'
               PROVE  calls'[m].arg.captcha \in signups'
    BY DEF ResentAfterSignup, Answered
  <2>1. m # n /\ Sub(m) /\ calls[m].tab # None /\ ~Answered(m) /\ calls'[m].arg.captcha = Cap(m)
    BY <1>3 DEF Sub, Cap, Answered
  <2>2. CASE Cap(m) \in used
    BY <1>1, <2>1, <2>2 DEF FormsSound, ResentAfterSignup, Sub, Cap
  <2>3. CASE Cap(m) \notin used
    <3>1. Sub(n) /\ Cap(m) = Cap(n)
      BY <2>1, <2>3
    <3> QED
      BY <2>1, <3>1 DEF FormsSound, OneOwner
  <2> QED
    BY <2>2, <2>3
<1> QED
  BY <1>8, <1>9, <1>10, <1>11, <1>12, <1>13 DEF FormsSound

LEMMA FieldKept ==
  ASSUME NEW p, PageSound(p), NEW v
  PROVE  /\ [p EXCEPT !.busy = v].page = p.page
         /\ [p EXCEPT !.mfa = v].page = p.page
         /\ [p EXCEPT !.secret = v].page = p.page
         /\ [p EXCEPT !.question = v].page = p.page
         /\ [p EXCEPT !.answer = v].page = p.page
         /\ p.page \in {"login", "register"} =>
              /\ [p EXCEPT !.mfa = v].captcha = p.captcha /\ [p EXCEPT !.mfa = v].busy = p.busy
              /\ [p EXCEPT !.question = v].captcha = p.captcha /\ [p EXCEPT !.question = v].busy = p.busy
              /\ [p EXCEPT !.answer = v].captcha = p.captcha /\ [p EXCEPT !.answer = v].busy = p.busy
<1> DEFINE with(f) == [x \in DOMAIN p |-> IF x = f THEN v ELSE p[x]]
<1>1. /\ [p EXCEPT !.busy = v] = with("busy") /\ [p EXCEPT !.mfa = v] = with("mfa")
      /\ [p EXCEPT !.secret = v] = with("secret") /\ [p EXCEPT !.question = v] = with("question")
      /\ [p EXCEPT !.answer = v] = with("answer")
  BY DEF PageSound, HasShape
<1>2. \A f : f # "page" => with(f).page = p.page
  BY DEF PageSound
<1>3. \A f : f \notin {"captcha", "busy"} /\ p.page \in {"login", "register"} =>
        with(f).captcha = p.captcha /\ with(f).busy = p.busy
  BY DEF PageSound
<1> HIDE DEF with
<1> QED
  BY <1>1, <1>2, <1>3

\* What the pages ask for and are told beside the challenges.
Talks(t, done) ==
  /\ \A m \in done : calls[m].tab = t /\ ~Sub(m)
  /\ \/ Request(done, <<>>)
     \/ \E kind, arg :
          /\ kind \in {"me", "status", "logout", "enroll", "verify"}
          /\ kind = "logout" => arg = store.token
          /\ kind \in {"enroll", "verify"} => OnPortal(t)
          /\ Request(done, <<Call(t, kind, arg)>>)

LEMMA FormsTalk ==
  ASSUME CallsSound, FormsSound, NEW t \in Tabs, UNCHANGED <<used, signups>>,
         NEW done, Talks(t, done),
         \A s \in Tabs \ {t} : doc'[s] = doc[s],
         doc'[t].page = doc[t].page,
         OnForm(t) => doc'[t].captcha = doc[t].captcha /\ doc'[t].busy = doc[t].busy
  PROVE  FormsSound'
<1>0. \A m \in done : calls[m].tab = t /\ ~Sub(m)
  BY DEF Talks
<1>1. sent \in Nat /\ \A m \in DOMAIN calls : ~(m > sent)
  BY DEF CallsSound
<1>2. CASE Request(done, <<>>)
  <2>1. TabMoves(t) /\ calls' = [n \in DOMAIN calls \ done |-> calls[n]]
    BY <1>2, <1>0, MovesNone
  <2>2. \A n \in DOMAIN calls' : ~(n > sent)
    BY <1>1, <2>1
  <2>3. \A n : Sub(n) => n \in DOMAIN calls' /\ calls'[n].tab = calls[n].tab
    BY <1>0, <2>1 DEF Sub
  <2> QED
    BY <2>1, <2>2, <2>3, FormsSame
<1>3. ASSUME NEW kind \in {"me", "status", "logout", "enroll", "verify"}, NEW arg,
             kind = "logout" => arg = store.token, kind \in {"enroll", "verify"} => OnPortal(t),
             Request(done, <<Call(t, kind, arg)>>)
      PROVE  FormsSound'
  <2>1. PICK c : c = Call(t, kind, arg)
    OBVIOUS
  <2>2. NewCall(sent + 1, c) /\ c.tab = t /\ c.kind = kind
    BY <1>3, <2>1, CallIsNew DEF Call
  <2>3. Request(done, <<c>>) /\ \A m \in done : calls[m].tab = t
    BY <1>3, <1>0, <2>1
  <2>4. TabMoves(t)
    BY ONLY CallsSound, <2>2, <2>3, MovesOne
  <2>5. Request(done, <<c>>)
    BY <2>3
  <2>6. /\ sent' = sent + 1 /\ sent' \in Nat /\ sent' \notin DOMAIN calls
        /\ calls' = [n \in (DOMAIN calls \ done) \cup {sent'} |-> IF n = sent' THEN c ELSE calls[n]]
    BY ONLY CallsSound, <2>5, RequestOne
  <2>7. \A n \in DOMAIN calls' : n > sent => calls'[n] = c
    BY <1>1, <2>6
  <2>8. \A n : Sub(n) => n \in DOMAIN calls' /\ calls'[n].tab = calls[n].tab
    BY <1>0, <2>6 DEF Sub
  <2>9. \A n \in DOMAIN calls' : n > sent =>
           /\ calls'[n].kind \notin {"login", "register"}
           /\ calls'[n].kind \in {"enroll", "verify"} => OnPortal(t)
    BY <1>3, <2>2, <2>7
  <2> QED
    BY <2>4, <2>8, <2>9, FormsSame
<1> QED
  BY <1>2, <1>3 DEF Talks

LEMMA FormsUser ==
  ASSUME SessionInv, FormsSound, NEW t \in Tabs, UserStep(t)
  PROVE  FormsSound'
<1>0. CallsSound /\ DocsSound /\ PageSound(doc[t]) /\ UNCHANGED <<used, signups>>
  BY DEF SessionInv, DocsSound, UserStep, Open, Refresh, TypeAnswer, SubmitLogin, SubmitRegister,
         Submit, Logout, OpenMfa, Enroll, Verify, server
<1>1. ASSUME NEW to, Open(t, to) PROVE FormsSound'
  BY <1>0, <1>1, FormsLeft DEF Open
<1>2. CASE Refresh(t)
  <2>1. OnForm(t) /\ LoadCaptcha(t, doc[t], {})
    BY <1>2 DEF Refresh
  <2> QED
    BY <1>0, <2>1, FormsLoading
<1>3. CASE TypeAnswer(t)
  <2>1. PICK p : p = [doc[t] EXCEPT !.answer = doc[t].question]
    OBVIOUS
  <2>2. p.page = doc[t].page /\ (OnForm(t) => p.captcha = doc[t].captcha /\ p.busy = doc[t].busy)
    BY <1>0, <2>1, FieldKept DEF OnForm
  <2>3. doc'[t] = p /\ \A s \in Tabs \ {t} : doc'[s] = doc[s]
    BY <1>0, <1>3, <2>1 DEF TypeAnswer, DocsSound
  <2>4. sent' = sent /\ calls' = calls
    BY <1>3 DEF TypeAnswer, browser
  <2>5. TabMoves(t)
    BY <1>0, <2>4 DEF TabMoves, CallsSound, Alike
  <2>6. \A n \in DOMAIN calls' : ~(n > sent)
    BY <1>0, <2>4 DEF CallsSound
  <2>7. \A n : Sub(n) => n \in DOMAIN calls' /\ calls'[n].tab = calls[n].tab
    BY <2>4 DEF Sub
  <2> QED
    BY <1>0, <2>2, <2>3, <2>5, <2>6, <2>7, FormsSame
<1>4. ASSUME NEW u, SubmitLogin(t, u) PROVE FormsSound'
  <2>1. PICK arg : /\ arg = [captcha |-> doc[t].captcha, answer |-> doc[t].answer,
                             user |-> u, code |-> doc[t].code]
                   /\ Submit(t, "login", arg) /\ OnForm(t)
    BY <1>4 DEF SubmitLogin
  <2>2. arg.captcha = doc[t].captcha
    BY <2>1
  <2> QED
    BY <1>0, <2>1, <2>2, FormsSubmit
<1>5. CASE SubmitRegister(t)
  <2>1. PICK arg : /\ arg = [captcha |-> doc[t].captcha, answer |-> doc[t].answer]
                   /\ Submit(t, "register", arg) /\ OnForm(t)
    BY <1>5 DEF SubmitRegister
  <2>2. arg.captcha = doc[t].captcha
    BY <2>1
  <2> QED
    BY <1>0, <2>1, <2>2, FormsSubmit
<1>6. CASE Logout(t) \/ OpenMfa(t)
  <2>1. doc' = doc
    BY <1>6 DEF Logout, OpenMfa
  <2>2. Talks(t, {})
    BY <1>6 DEF Talks, Logout, OpenMfa
  <2> QED
    BY <1>0, <2>1, <2>2, FormsTalk
<1>7. CASE Enroll(t) \/ Verify(t)
  <2>1. PICK v : doc' = [doc EXCEPT ![t] = [doc[t] EXCEPT !.busy = v]]
    BY <1>7 DEF Enroll, Verify
  <2>2. PICK p : p = [doc[t] EXCEPT !.busy = v]
    OBVIOUS
  <2>3. p.page = doc[t].page /\ ~OnForm(t)
    BY <1>0, <1>7, <2>2, FieldKept DEF OnForm, OnPortal, Enroll, Verify
  <2>4. doc'[t] = p /\ \A s \in Tabs \ {t} : doc'[s] = doc[s]
    BY <1>0, <2>1, <2>2 DEF DocsSound
  <2>5. Talks(t, {})
    BY <1>7 DEF Talks, Enroll, Verify
  <2> QED
    BY <1>0, <2>3, <2>4, <2>5, FormsTalk
<1> QED
  BY <1>1, <1>2, <1>3, <1>4, <1>5, <1>6, <1>7 DEF UserStep

LEMMA FormsLoad ==
  ASSUME SessionInv, FormsSound, NEW t \in Tabs, ArriveOnPortal(t) \/ Redirect(t)
  PROVE  FormsSound'
<1>0. CallsSound /\ DocsSound /\ UNCHANGED <<used, signups>> /\ t # None
  BY SessionAssumption DEF SessionInv, ArriveOnPortal, Redirect, server
<1>1. CASE GoToForm(t, "login") \/ \E r : GoToPortal(t, r)
  BY <1>0, <1>1, FormsLeft
<1>2. CASE /\ doc[t].page = "leaving"
           /\ Request({}, <<Call(t, "me", None)>>)
           /\ doc' = [doc EXCEPT ![t] = PortalPage(store.user)]
  <2>1. PICK c : c = Call(t, "me", None)
    OBVIOUS
  <2>2. NewCall(sent + 1, c) /\ c.tab = t /\ c.kind = "me"
    BY <2>1, CallIsNew DEF Call
  <2>3. PICK done : done = {} /\ Request(done, <<c>>) /\ \A n \in done : calls[n].tab = t
    BY <1>2, <2>1
  <2>4. TabMoves(t)
    BY ONLY <1>0, <2>2, <2>3, MovesOne
  <2>5. Request(done, <<c>>)
    BY <2>3
  <2>6. /\ sent' = sent + 1 /\ sent' \in Nat /\ sent' \notin DOMAIN calls
        /\ calls' = [n \in (DOMAIN calls \ done) \cup {sent'} |-> IF n = sent' THEN c ELSE calls[n]]
    BY ONLY <1>0, <2>5, RequestOne
  <2>7. doc'[t].page = "portal" /\ \A s \in Tabs \ {t} : doc'[s] = doc[s]
    BY <1>0, <1>2 DEF DocsSound, PortalPage
  <2>8. \A k : ~Holds(t, k)'
    BY <2>7 DEF Holds, OnForm
  <2>9. \A n \in DOMAIN calls' : n > sent => calls'[n].kind = "me"
    BY <1>0, <2>2, <2>6 DEF CallsSound
  <2>10. ASSUME NEW n \in DOMAIN calls', calls'[n].tab = t
         PROVE  calls'[n].kind \notin {"login", "register", "enroll", "verify"}
    <3>1. CASE n = sent'
      BY <2>2, <2>6, <3>1
    <3>2. CASE n # sent'
      <4>1. n \in DOMAIN calls /\ calls'[n] = calls[n] /\ FormCall(n)
        BY <2>6, <3>2 DEF FormsSound
      <4> QED
        BY <1>0, <1>2, <2>10, <4>1 DEF FormCall, Sub, OnForm
    <3> QED
      BY <3>1, <3>2
  <2> QED
    BY <1>0, <2>4, <2>7, <2>8, <2>9, <2>10, FormsKept
<1> QED
  BY <1>1, <1>2 DEF ArriveOnPortal, Redirect

LEMMA FormsCallback ==
  ASSUME SessionInv, FormsSound, NEW n \in DOMAIN calls, Callback(n)
  PROVE  FormsSound'
<1>0. PICK t \in Tabs : t = calls[n].tab
  BY DEF Callback, ShowCaptcha, LoggedIn, Registered, ShowUser, LoggedOut, ShowMfa, Enrolled, Verified
<1>1. CallsSound /\ DocsSound /\ PageSound(doc[t]) /\ FormCall(n) /\ t # None
  BY SessionAssumption DEF SessionInv, DocsSound, FormsSound
<1>2. UNCHANGED <<used, signups>>
  BY DEF Callback, ShowCaptcha, LoggedIn, Registered, ShowUser, LoggedOut, ShowMfa, Enrolled, Verified, server
<1>3. CASE ShowCaptcha(n) /\ ~Ok(n)
  <2>1. PICK p : p = [doc[t] EXCEPT !.question = None]
    OBVIOUS
  <2>2. p.page = doc[t].page /\ (OnForm(t) => p.captcha = doc[t].captcha /\ p.busy = doc[t].busy)
    BY <1>1, <2>1, FieldKept DEF OnForm
  <2>3. doc'[t] = p /\ \A s \in Tabs \ {t} : doc'[s] = doc[s]
    BY <1>0, <1>1, <1>3, <2>1 DEF ShowCaptcha, DocsSound
  <2>4. Talks(t, {n})
    BY <1>0, <1>3 DEF Talks, ShowCaptcha, Sub
  <2> QED
    BY <1>1, <1>2, <2>2, <2>3, <2>4, FormsTalk
<1>4. ASSUME Sub(n), NEW p, PageSound(p), p.page = doc[t].page, LoadCaptcha(t, p, {n})
      PROVE  FormsSound'
  <2>1. OnForm(t) /\ \E m : {n} = {m} /\ Sub(m) /\ calls[m].tab = t
    BY <1>0, <1>1, <1>4 DEF FormCall
  <2>2. PICK done : done = {n}
    OBVIOUS
  <2> QED
    BY <1>1, <1>2, <1>4, <2>1, <2>2, FormsLoading
<1>5. PageSound([doc[t] EXCEPT !.busy = FALSE]) /\ [doc[t] EXCEPT !.busy = FALSE].page = doc[t].page
  BY <1>1, FieldSet, FieldKept
<1>6. CASE LoggedIn(n)
  <2>1. Sub(n)
    BY <1>6 DEF LoggedIn, Sub
  <2>2. CASE Ok(n) /\ Data(n) # None
    <3>1. \E r : GoToPortal(t, r)
      BY <1>0, <1>6, <2>2 DEF LoggedIn
    <3> QED
      BY <1>1, <1>2, <3>1, FormsLeft
  <2>3. CASE Ok(n) /\ Data(n) = None
    <3>1. PICK p, q : p = [doc[t] EXCEPT !.busy = FALSE] /\ q = [p EXCEPT !.code = TRUE]
      OBVIOUS
    <3>2. PageSound(q)
      BY <1>5, <3>1, FieldSet
    <3>3. q.page = p.page
      BY <1>5, <3>1 DEF PageSound, HasShape
    <3>4. q = [doc[t] EXCEPT !.busy = FALSE, !.code = TRUE]
      BY <3>1
    <3>5. LoadCaptcha(t, q, {n})
      BY <1>0, <1>6, <2>3, <3>4 DEF LoggedIn
    <3> QED
      BY <1>4, <1>5, <2>1, <3>1, <3>2, <3>3, <3>5
  <2>4. CASE ~Ok(n)
    <3>1. LoadCaptcha(t, [doc[t] EXCEPT !.busy = FALSE], {n})
      BY <1>0, <1>6, <2>4 DEF LoggedIn
    <3> QED
      BY <1>4, <1>5, <2>1, <3>1
  <2> QED
    BY <2>2, <2>3, <2>4
<1>7. CASE Registered(n) /\ ~Ok(n)
  <2>1. Sub(n) /\ LoadCaptcha(t, [doc[t] EXCEPT !.busy = FALSE], {n})
    BY <1>0, <1>7 DEF Registered, Sub
  <2> QED
    BY <1>4, <1>5, <2>1
<1>8. CASE (ShowUser(n) /\ calls[n].reply.status = 401) \/ LoggedOut(n)
  <2>1. GoToForm(t, "login")
    BY <1>0, <1>8 DEF ShowUser, LoggedOut
  <2> QED
    BY <1>1, <1>2, <2>1, FormsLeft
<1>9. CASE ShowUser(n) /\ calls[n].reply.status # 401
  <2>1. doc' = doc
    BY <1>9 DEF ShowUser
  <2>2. Talks(t, {n})
    BY <1>0, <1>9 DEF Talks, ShowUser, Sub
  <2> QED
    BY <1>1, <1>2, <2>1, <2>2, FormsTalk
<1>10. CASE ShowMfa(n)
  <2>1. Talks(t, {n})
    BY <1>0, <1>10 DEF Talks, ShowMfa, Sub
  <2>2. CASE doc' = doc
    BY <1>1, <1>2, <2>1, <2>2, FormsTalk
  <2>3. ASSUME NEW v, doc' = [doc EXCEPT ![t] = [doc[t] EXCEPT !.mfa = v]] PROVE FormsSound'
    <3>1. PICK p : p = [doc[t] EXCEPT !.mfa = v]
      OBVIOUS
    <3>2. p.page = doc[t].page /\ (OnForm(t) => p.captcha = doc[t].captcha /\ p.busy = doc[t].busy)
      BY <1>1, <3>1, FieldKept DEF OnForm
    <3>3. doc'[t] = p /\ \A s \in Tabs \ {t} : doc'[s] = doc[s]
      BY <1>1, <2>3, <3>1 DEF DocsSound
    <3> QED
      BY <1>1, <1>2, <2>1, <3>2, <3>3, FormsTalk
  <2> QED
    BY <1>0, <1>10, <2>2, <2>3 DEF ShowMfa
<1>11. CASE Enrolled(n)
  <2>1. PICK v, m, k : doc' = [doc EXCEPT ![t].busy = v, ![t].mfa = m, ![t].secret = k]
    BY <1>0, <1>11 DEF Enrolled
  <2>2. PICK p, q, r : /\ p = [doc[t] EXCEPT !.busy = v]
                       /\ q = [p EXCEPT !.mfa = m]
                       /\ r = [q EXCEPT !.secret = k]
    OBVIOUS
  <2>3. PageSound(p) /\ PageSound(q)
    <3>1. PageSound(p)
      BY <1>1, <2>2, FieldSet
    <3> QED
      BY <2>2, <3>1, FieldSet
  <2>4. r.page = doc[t].page
    BY <1>1, <2>2, <2>3, FieldKept
  <2>5. doc'[t] = r /\ \A s \in Tabs \ {t} : doc'[s] = doc[s]
    BY <1>1, <2>1, <2>2 DEF DocsSound
  <2>6. ~OnForm(t)
    BY <1>0, <1>1, <1>11 DEF Enrolled, FormCall, OnForm
  <2>7. Talks(t, {n})
    BY <1>0, <1>11 DEF Talks, Enrolled, Sub
  <2> QED
    BY <1>1, <1>2, <2>4, <2>5, <2>6, <2>7, FormsTalk
<1>12. CASE Verified(n)
  <2>1. PICK v, p : v = doc[t].busy \ {"verify"} /\ p = [doc[t] EXCEPT !.busy = v]
    OBVIOUS
  <2>2. p.page = doc[t].page /\ ~OnForm(t)
    BY <1>0, <1>1, <1>12, <2>1, FieldKept DEF Verified, FormCall, OnForm
  <2>3. doc'[t] = p /\ \A s \in Tabs \ {t} : doc'[s] = doc[s]
    BY <1>0, <1>1, <1>12, <2>1 DEF Verified, DocsSound
  <2>4. Talks(t, {n})
    <3>1. \A m \in {n} : calls[m].tab = t /\ ~Sub(m)
      BY <1>0, <1>12 DEF Verified, Sub
    <3>2. PICK kind, arg : kind = "status" /\ arg = None
      OBVIOUS
    <3>3. Request({n}, <<>>) \/ Request({n}, <<Call(t, kind, arg)>>)
      BY <1>0, <1>12, <3>2 DEF Verified
    <3>4. kind \notin {"logout", "enroll", "verify"} /\ kind \in {"me", "status", "logout", "enroll", "verify"}
      BY <3>2
    <3>5. CASE Request({n}, <<>>)
      BY <3>1, <3>5 DEF Talks
    <3>6. CASE Request({n}, <<Call(t, kind, arg)>>)
      <4>1. \E k, a :
              /\ k \in {"me", "status", "logout", "enroll", "verify"}
              /\ k = "logout" => a = store.token
              /\ k \in {"enroll", "verify"} => OnPortal(t)
              /\ Request({n}, <<Call(t, k, a)>>)
        <5> WITNESS kind, arg
        <5> QED
          BY <3>4, <3>6
      <4> QED
        BY <3>1, <4>1 DEF Talks
    <3> QED
      BY <3>3, <3>5, <3>6
  <2> QED
    BY <1>1, <1>2, <2>2, <2>3, <2>4, FormsTalk
<1> QED
  BY <1>3, <1>6, <1>7, <1>8, <1>9, <1>10, <1>11, <1>12, FormsShow, FormsRegistered DEF Callback

LEMMA FormsServing ==
  ASSUME SessionInv, FormsSound, NEW n \in DOMAIN calls, Serves(n)
  PROVE  FormsSound'
<1>1. CallsSound
  BY DEF SessionInv
<1>2. ASSUME NEW reply, Serve(n, reply), reply # None, calls[n].kind # "captcha",
             \/ UNCHANGED <<used, signups>>
             \/ /\ Sub(n) /\ used' = used \cup {Cap(n)}
                /\ signups' = signups \/ signups' = signups \cup {Cap(n)},
             calls[n].kind = "register" /\ reply.status = 200 => Cap(n) \in signups'
      PROVE  FormsSound'
  <2>1. Served(n, reply) /\ doc' = doc
    BY <1>1, <1>2, IsServed DEF Serve
  <2> QED
    BY <1>1, <1>2, <2>1, FormsServed
<1>3. CASE ServeRegister(n)
  <2>1. calls[n].kind = "register" /\ Sub(n)
    BY <1>3 DEF ServeRegister, Sub
  <2>2. \/ Serve(n, Bad) /\ UNCHANGED <<used, signups>>
        \/ Serve(n, Bad) /\ used' = used \cup {Cap(n)} /\ signups' = signups
        \/ Serve(n, Good(None)) /\ used' = used \cup {Cap(n)} /\ signups' = signups \cup {Cap(n)}
    BY <1>3 DEF ServeRegister, Cap
  <2> QED
    BY <1>2, <2>1, <2>2, RepliesAreThere
<1>4. CASE ServeLogin(n)
  <2>1. PICK u, k, given : /\ u = calls[n].arg.user /\ k = [user |-> u, number |-> n]
                           /\ given = [token |-> k, mfa |-> u \in factor]
    OBVIOUS
  <2>2. calls[n].kind = "login" /\ Sub(n) /\ u \in Users /\ n \in Nat
    BY <1>1, <1>4, <2>1 DEF ServeLogin, CallsSound, CallSound, Sub
  <2>3. given \in [token : Token, mfa : BOOLEAN]
    BY <2>1, <2>2 DEF Token
  <2>4. Serve(n, Bad) \/ Serve(n, Good(None)) \/ Serve(n, Good(given))
    BY <1>4, <2>1 DEF ServeLogin
  <2>5. UNCHANGED <<used, signups>> \/ (used' = used \cup {Cap(n)} /\ signups' = signups)
    BY <1>4 DEF ServeLogin, Cap
  <2>6. Bad # None /\ Good(None) # None /\ Good(given) # None
    BY <2>3, RepliesAreThere
  <2> QED
    BY <1>2, <2>2, <2>4, <2>5, <2>6
<1>5. CASE ServeLogout(n) \/ ServeMe(n) \/ ServeEnroll(n) \/ ServeVerify(n)
  <2>1. calls[n].kind \in {"logout", "me", "status", "enroll", "verify"} /\ UNCHANGED <<used, signups>>
    BY <1>5 DEF ServeLogout, ServeMe, ServeEnroll, ServeVerify, server
  <2>2. PICK d : d = [mfa |-> User(n) \in factor]
    OBVIOUS
  <2>3. Serve(n, Bad) \/ Serve(n, Unauthorized) \/ Serve(n, Good(None)) \/ Serve(n, Good(n)) \/ Serve(n, Good(d))
    BY <1>5, <2>2 DEF ServeLogout, ServeMe, ServeEnroll, ServeVerify
  <2>4. d \in [mfa : BOOLEAN] /\ n \in Nat
    BY <1>1, <2>2 DEF CallsSound
  <2>5. /\ Bad # None /\ Unauthorized # None /\ Good(None) # None
        /\ Good(n) # None /\ Good(d) # None
    BY <2>4, RepliesAreThere
  <2> QED
    BY <1>2, <2>1, <2>3, <2>5
<1> QED
  BY <1>3, <1>4, <1>5 DEF Serves

LEMMA FormsStep ==
  ASSUME SessionInv, FormsSound, [Next]_vars
  PROVE  FormsSound'
<1>1. ASSUME NEW n \in DOMAIN calls, NetworkError(n), UNCHANGED <<store, doc, server, signedOut>>
      PROVE  FormsSound'
  <2>1. PICK reply : reply = Reply(0, None) /\ reply # None /\ reply.status = 0
    BY RepliesAreThere
  <2>2. CallsSound /\ Served(n, reply)
    BY <1>1, <2>1, IsServed DEF NetworkError, SessionInv
  <2>3. UNCHANGED <<used, signups>>
    BY <1>1 DEF server
  <2> QED
    BY <1>1, <2>1, <2>2, <2>3, FormsServed
<1>2. ASSUME calls' = calls, sent' = sent, UNCHANGED <<doc, used, signups>> PROVE FormsSound'
  BY <1>2 DEF FormsSound, FormCall, OneOwner, Sub, Cap, Holds, Loaded, Taken, OnForm, Ok, Data,
     Answered, ResentAfterSignup
<1>3. ASSUME NEW k, Expire(k) PROVE FormsSound'
  BY <1>2, <1>3 DEF Expire
<1>4. CASE UNCHANGED vars
  BY <1>2, <1>4 DEF vars, browser, server
<1>5. CASE Next
  BY <1>1, <1>3, <1>5, FormsUser, FormsLoad, FormsCallback, FormsServing DEF Next
<1> QED
  BY <1>4, <1>5

LEMMA FormsHold == Spec => [](SessionInv /\ FormsSound)
<1>1. SessionInv /\ FormsSound /\ [Next]_vars => FormsSound'
  BY FormsStep
<1> QED
  BY <1>1, SessionInit, SessionStep, FormsBegin, PTL DEF Spec

-----------------------------------------------------------------------------
(* Theorems *)

\* In any number of tabs over one storage, whatever the order of replies: no page
\* finds a token without its user, or with another one.
THEOREM StorageMatches == Spec => []TokenMatchesUser
<1>1. SessionInv => TokenMatchesUser
  BY DEF SessionInv, StoreSound
<1> QED
  BY <1>1, SessionHolds, PTL

\* However many loads of a challenge overlap, fail or come back late: what is sent
\* as its answer was typed for it.
THEOREM AnswerIsForItsCaptcha == Spec => []CaptchaPaired
<1>1. SessionInv => CaptchaPaired
  BY DEF SessionInv, CallsSound, CallSound, CaptchaPaired
<1> QED
  BY <1>1, SessionHolds, PTL

\* A challenge that has let a request through is on its way again, from a page that
\* waits for the answer, only if it made the account that the page is about to leave for.
THEOREM UsedUpAfterSignupOnly == Spec => []ResentAfterSignup
<1>1. FormsSound => ResentAfterSignup
  BY DEF FormsSound
<1> QED
  BY <1>1, FormsHold, PTL

\* Whatever was lost, expired or clicked twice on the way: a session whose
\* sign-out was answered is one that the server never takes again.
THEOREM SignOutIsFinal == Spec => []SignedOutEverywhere
<1>1. TokensSound => SignedOutEverywhere
  BY DEF TokensSound
<1> QED
  BY <1>1, TokensHold, PTL

\* However many tabs and calls: the storage forgets a session that is still good
\* only in the callback of its own sign-out, and in those of /auth/me and of a
\* sign-out that pages of another session sent, which is over or whose answer to
\* the sign-out was lost.  No answer to a call of its own pages, good, bad or lost,
\* forgets it, but that to a sign-out.
THEOREM LiveSessionsAreKept == Spec => LiveSessionKept
<1>1. SessionInv /\ TokensSound /\ [Next]_vars =>
        [store.token \in live /\ store'.token = None =>
           \E n \in DOMAIN calls :
             /\ n \notin DOMAIN calls'
             /\ \/ calls[n].kind = "logout" /\ calls[n].token = store.token
                \/ calls[n].kind \in {"me", "logout"} /\ calls[n].token \notin live
                \/ calls[n].kind = "logout" /\ calls[n].reply.status = 0]_vars
  BY SessionForgotten
<1> QED
  BY <1>1, TokensHold, PTL DEF Spec, LiveSessionKept
=============================================================================
