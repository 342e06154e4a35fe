------------------------------ MODULE Session ------------------------------
(***************************************************************************)
(* The sign-in of the browser: auth.js on the pages login and register,    *)
(* and of app.js on the portal the gate, the user panel, the sign-out and  *)
(* the enrolment of a second factor.  Any number of tabs share the local   *)
(* storage.  A callback runs to its end before another one starts; a page  *)
(* that is left takes its callbacks with it, but not its requests.  The    *)
(* server is what module Auth shows it to be: a challenge lets one request *)
(* through, a login ends the other sessions of its user.                   *)
(***************************************************************************)
EXTENDS ApiClient

CONSTANTS
  Tabs, Users, RoleOf   \* of each user

Token == [user : Users, number : Nat]
StoredUser == [name : Users, mfa : BOOLEAN]

\* What the server or the network may answer.
Replies ==
  [status : {0, 200, 400, 401},
   data : {None} \cup Nat \cup [mfa : BOOLEAN] \cup [token : Token, mfa : BOOLEAN]]

\* What is not there is told from what is.
ASSUME SessionAssumption == None \notin Token \cup StoredUser \cup Replies \cup Tabs

VARIABLES
  store,      \* localStorage: a token, numbered like the login it comes from, and a user
  doc,        \* the document in each tab
  live,       \* server: the tokens it takes
  factor,     \* server: the users whose logins need a code
  secret,     \* server: the secret of each user, numbered like the call that made it
  used,       \* server: the challenges that let a request through
  signups,    \* history: those that made an account
  signedOut   \* history: the tokens whose sign-out was answered

server == <<live, factor, secret, used, signups>>
vars == <<browser, store, doc, server, signedOut>>

\* Variant: the second of the two lines is missing.
ClearToken == [store EXCEPT !.token = None]

\* clearAuth
ClearAuth == [store EXCEPT !.token = None, !.user = None]

FormPage(p) ==
  [page |-> p, captcha |-> None, question |-> None, answer |-> None,
   busy |-> FALSE, code |-> FALSE, done |-> FALSE]
PortalPage(u) ==
  [page |-> "portal", user |-> u, mfa |-> "unknown", secret |-> None, busy |-> {}]

\* window.location.href was set: nothing of the old document runs any more, and
\* the portal with this role in its address has not yet been loaded.
Leaving(role) == [page |-> "leaving", role |-> role]

OnForm(t) == doc[t].page \in {"login", "register"}
OnPortal(t) == doc[t].page = "portal"

\* A call carries the token that is stored when it is made.
Call(t, kind, arg) ==
  [kind |-> kind, tab |-> t, token |-> store.token, arg |-> arg, reply |-> None]

Init ==
  /\ BrowserInit /\ calls = [n \in {} |-> None]
  /\ doc = [t \in Tabs |-> Leaving(None)]
  /\ factor \in SUBSET {u \in Users : RoleOf[u] = "system_admin"}
  /\ \/ store = [token |-> None, user |-> None] /\ live = {}
     \/ \E u \in Users :
          /\ store = [token |-> [user |-> u, number |-> 0], user |-> [name |-> u, mfa |-> u \in factor]]
          /\ live = {store.token}
  /\ secret = [u \in Users |-> None]
  /\ used = {} /\ signups = {} /\ signedOut = {}

-----------------------------------------------------------------------------
(* Documents *)

Mine(t, n) == calls[n].tab = t

Writes == {"login", "register", "logout", "enroll", "verify"}

\* The calls whose callbacks are gone with the document of t; what would change
\* something may still be served, or never be.
Abandoned(t) ==
  {n \in DOMAIN calls : Mine(t, n) /\ (Answered(n) \/ calls[n].kind \notin Writes)}

\* loadCaptcha: until the new challenge is there nothing can be submitted.  A
\* challenge depends on nothing, so that its answer is known at once.
CaptchaCall(t) ==
  [kind |-> "captcha", tab |-> t, token |-> store.token, arg |-> None,
   reply |-> Reply(200, sent + 1)]

LoadCaptcha(t, page, done) ==
  /\ Request(done, <<CaptchaCall(t)>>)
  /\ doc' = [doc EXCEPT ![t] = [page EXCEPT !.captcha = None, !.question = None]]

\* The documents that t goes to.  A form reads nothing of the storage when it
\* is loaded, so that no other step can matter between the two.
Leave(t, new) ==
  /\ sent' = sent + Len(new)
  /\ calls' = [n \in (DOMAIN calls \ Abandoned(t)) \cup (sent + 1 .. sent + Len(new)) |->
                 IF n > sent THEN new[n - sent]
                 ELSE IF Mine(t, n) THEN [calls[n] EXCEPT !.tab = None] ELSE calls[n]]

GoToForm(t, page) ==
  Leave(t, <<CaptchaCall(t)>>) /\ doc' = [doc EXCEPT ![t] = FormPage(page)]

GoToPortal(t, role) == Leave(t, <<>>) /\ doc' = [doc EXCEPT ![t] = Leaving(role)]

\* Reload, link or address: to the portal without a role.
Open(t, to) ==
  /\ Click
  /\ IF to = "portal" THEN GoToPortal(t, None) ELSE GoToForm(t, to)
  /\ UNCHANGED <<store, server, signedOut>>

\* The gate of the portal, and the entry of a role.
ArriveOnPortal(t) ==
  /\ doc[t].page = "leaving"
  /\ \/ /\ store.token = None
        /\ GoToForm(t, "login")
     \/ /\ store.token # None
        /\ doc[t].role \notin {None, RoleOf[store.user.name]}
        /\ GoToPortal(t, RoleOf[store.user.name])
     \/ /\ store.token # None
        /\ doc[t].role \in {None, RoleOf[store.user.name]}
        /\ Request({}, <<Call(t, "me", None)>>)
        /\ doc' = [doc EXCEPT ![t] = PortalPage(store.user)]
  /\ UNCHANGED <<clicks, faults, store, server, signedOut>>

-----------------------------------------------------------------------------
(* auth.js *)

Refresh(t) ==
  /\ OnForm(t) /\ Click
  /\ LoadCaptcha(t, doc[t], {})
  /\ UNCHANGED <<store, server, signedOut>>

\* The user reads a question and types its answer.
TypeAnswer(t) ==
  /\ OnForm(t) /\ doc[t].question \notin {None, doc[t].answer}
  /\ doc' = [doc EXCEPT ![t].answer = doc[t].question]
  /\ UNCHANGED <<browser, store, server, signedOut>>

\* Variant: what was typed for the last question stays in the field.
ShowCaptchaOver(n) ==
  LET t == calls[n].tab IN
  /\ t \in Tabs /\ Answered(n) /\ calls[n].kind = "captcha"
  /\ doc' = [doc EXCEPT ![t] =
               IF Ok(n) THEN [@ EXCEPT !.captcha = Data(n), !.question = Data(n)]
                        ELSE [@ EXCEPT !.question = None]]
  /\ Request({n}, <<>>)
  /\ UNCHANGED <<clicks, faults, store, server, signedOut>>

\* The callback of loadCaptcha.
ShowCaptcha(n) ==
  LET t == calls[n].tab IN
  /\ t \in Tabs /\ Answered(n) /\ calls[n].kind = "captcha"
  /\ doc' = [doc EXCEPT ![t] =
               IF Ok(n) THEN [@ EXCEPT !.captcha = Data(n), !.question = Data(n), !.answer = None]
                        ELSE [@ EXCEPT !.question = None]]
  /\ Request({n}, <<>>)
  /\ UNCHANGED <<clicks, faults, store, server, signedOut>>

\* The button of a form is disabled from the click to the reply; its fields are required.
Submit(t, kind, arg) ==
  /\ doc[t].page = kind /\ ~doc[t].busy /\ doc[t].answer # None
  /\ Click
  /\ doc[t].captcha # None
  /\ Request({}, <<Call(t, kind, arg)>>)
  /\ doc' = [doc EXCEPT ![t].busy = TRUE]
  /\ UNCHANGED <<store, server, signedOut>>

\* submit(login); a code is sent where the field for it is shown.
SubmitLogin(t, u) ==
  /\ OnForm(t)
  /\ Submit(t, "login", [captcha |-> doc[t].captcha, answer |-> doc[t].answer,
                         user |-> u, code |-> doc[t].code])

\* submit(register)
SubmitRegister(t) ==
  /\ OnForm(t)
  /\ Submit(t, "register", [captcha |-> doc[t].captcha, answer |-> doc[t].answer])

\* The callback of submit(login).
LoggedIn(n) ==
  LET t == calls[n].tab IN
  /\ t \in Tabs /\ Answered(n) /\ calls[n].kind = "login"
  /\ \/ /\ Ok(n) /\ Data(n) # None
        /\ store' = [token |-> Data(n).token,
                     user |-> [name |-> Data(n).token.user, mfa |-> Data(n).mfa]]
        /\ GoToPortal(t, RoleOf[Data(n).token.user])
     \/ /\ Ok(n) /\ Data(n) = None
        /\ LoadCaptcha(t, [doc[t] EXCEPT !.busy = FALSE, !.code = TRUE], {n})
        /\ UNCHANGED store
     \/ /\ ~Ok(n)
        /\ LoadCaptcha(t, [doc[t] EXCEPT !.busy = FALSE], {n})
        /\ UNCHANGED store
  /\ UNCHANGED <<clicks, faults, server, signedOut>>

\* Variant: the old challenge stays in the form after a refusal.
RegisteredKeeping(n) ==
  LET t == calls[n].tab IN
  /\ t \in Tabs /\ Answered(n) /\ calls[n].kind = "register"
  /\ doc' = [doc EXCEPT ![t].busy = FALSE, ![t].done = Ok(n)]
  /\ Request({n}, <<>>)
  /\ UNCHANGED <<clicks, faults, store, server, signedOut>>

\* The callback of submit(register): it leaves a second and a half later.
Registered(n) ==
  LET t == calls[n].tab IN
  /\ t \in Tabs /\ Answered(n) /\ calls[n].kind = "register"
  /\ \/ /\ Ok(n)
        /\ doc' = [doc EXCEPT ![t].busy = FALSE, ![t].done = TRUE]
        /\ Request({n}, <<>>)
     \/ /\ ~Ok(n)
        /\ LoadCaptcha(t, [doc[t] EXCEPT !.busy = FALSE], {n})
  /\ UNCHANGED <<clicks, faults, store, server, signedOut>>

Redirect(t) ==
  /\ OnForm(t) /\ doc[t].done
  /\ GoToForm(t, "login")
  /\ UNCHANGED <<clicks, faults, store, server, signedOut>>

-----------------------------------------------------------------------------
(* app.js *)

\* Variant: whatever is not a good reply ends the session.
ShowUserStrict(n) ==
  LET t == calls[n].tab IN
  /\ t \in Tabs /\ Answered(n) /\ calls[n].kind = "me"
  /\ \/ /\ ~Ok(n)
        /\ store' = ClearAuth
        /\ GoToForm(t, "login")
     \/ /\ Ok(n)
        /\ Request({n}, <<>>)
        /\ UNCHANGED <<store, doc>>
  /\ UNCHANGED <<clicks, faults, server, signedOut>>

\* The callback of loadUserInfo, which is the only one that looks for a 401.
ShowUser(n) ==
  LET t == calls[n].tab IN
  /\ t \in Tabs /\ Answered(n) /\ calls[n].kind = "me"
  /\ \/ /\ calls[n].reply.status = 401
        /\ store' = ClearAuth
        /\ GoToForm(t, "login")
     \/ /\ calls[n].reply.status # 401
        /\ Request({n}, <<>>)
        /\ UNCHANGED <<store, doc>>
  /\ UNCHANGED <<clicks, faults, server, signedOut>>

\* Variant: the storage is cleared first, and the call finds no token in it.
LogoutCleared(t) ==
  /\ OnPortal(t) /\ Click
  /\ Request({}, <<[Call(t, "logout", store.token) EXCEPT !.token = None]>>)
  /\ store' = ClearAuth
  /\ UNCHANGED <<doc, server, signedOut>>

\* The button can be clicked again while the first call is under way.  (That the
\* call is recorded with the session it is to end is history, not code.)
Logout(t) ==
  /\ OnPortal(t) /\ Click
  /\ Request({}, <<Call(t, "logout", store.token)>>)
  /\ UNCHANGED <<store, doc, server, signedOut>>

\* Its callback clears the storage whatever the reply says.
LoggedOut(n) ==
  LET t == calls[n].tab IN
  /\ t \in Tabs /\ Answered(n) /\ calls[n].kind = "logout"
  /\ store' = ClearAuth
  /\ signedOut' = IF calls[n].reply.status # 0 /\ calls[n].arg # None
                    THEN signedOut \cup {calls[n].arg} ELSE signedOut
  /\ GoToForm(t, "login")
  /\ UNCHANGED <<clicks, faults, server>>

\* The MFA page, which the admins' menu leads to.
OpenMfa(t) ==
  /\ OnPortal(t) /\ RoleOf[doc[t].user.name] = "system_admin"
  /\ Click
  /\ Request({}, <<Call(t, "status", None)>>)
  /\ UNCHANGED <<store, doc, server, signedOut>>

\* The callback of refreshMfaStatus; another reply than a good one changes nothing.
ShowMfa(n) ==
  LET t == calls[n].tab IN
  /\ t \in Tabs /\ Answered(n) /\ calls[n].kind = "status"
  /\ doc' = IF Ok(n)
              THEN [doc EXCEPT ![t].mfa = IF Data(n).mfa THEN "on" ELSE "off"]
              ELSE doc
  /\ Request({n}, <<>>)
  /\ UNCHANGED <<clicks, faults, store, server, signedOut>>

Enroll(t) ==
  /\ OnPortal(t) /\ doc[t].mfa = "off" /\ "enroll" \notin doc[t].busy
  /\ Click
  /\ Request({}, <<Call(t, "enroll", None)>>)
  /\ doc' = [doc EXCEPT ![t].busy = @ \cup {"enroll"}]
  /\ UNCHANGED <<store, server, signedOut>>

Enrolled(n) ==
  LET t == calls[n].tab IN
  /\ t \in Tabs /\ Answered(n) /\ calls[n].kind = "enroll"
  /\ doc' = [doc EXCEPT ![t].busy = @ \ {"enroll"},
                       ![t].mfa = IF Ok(n) THEN "step" ELSE @,
                       ![t].secret = IF Ok(n) THEN Data(n) ELSE @]
  /\ Request({n}, <<>>)
  /\ UNCHANGED <<clicks, faults, store, server, signedOut>>

\* A code of the secret that the page shows.
Verify(t) ==
  /\ OnPortal(t) /\ doc[t].mfa = "step" /\ "verify" \notin doc[t].busy
  /\ Click
  /\ Request({}, <<Call(t, "verify", doc[t].secret)>>)
  /\ doc' = [doc EXCEPT ![t].busy = @ \cup {"verify"}]
  /\ UNCHANGED <<store, server, signedOut>>

Verified(n) ==
  LET t == calls[n].tab IN
  /\ t \in Tabs /\ Answered(n) /\ calls[n].kind = "verify"
  /\ doc' = [doc EXCEPT ![t].busy = @ \ {"verify"}]
  /\ IF Ok(n)
       THEN /\ Request({n}, <<Call(t, "status", None)>>)
            /\ store' = IF store.user = None THEN store ELSE [store EXCEPT !.user.mfa = TRUE]
       ELSE Request({n}, <<>>) /\ UNCHANGED store
  /\ UNCHANGED <<clicks, faults, server, signedOut>>

-----------------------------------------------------------------------------
(* The server, one request at a time *)

\* The answer to a call, if there is still a page that waits for it.
Serve(n, reply) ==
  /\ UNCHANGED <<clicks, faults, store, doc, signedOut>>
  /\ IF calls[n].tab = None THEN Request({n}, <<>>) ELSE Answer(n, reply)

Good(data) == Reply(200, data)
Bad == Reply(400, None)
Unauthorized == Reply(401, None)

Authenticated(n) == calls[n].token \in live
User(n) == calls[n].token.user

\* A challenge is good once, for the right answer.
ServeRegister(n) ==
  LET c == calls[n].arg.captcha IN
  /\ calls[n].kind = "register"
  /\ \/ Serve(n, Bad) /\ UNCHANGED <<used, signups>>
     \/ /\ c \notin used
        /\ used' = used \cup {c}
        /\ \/ signups' = signups \cup {c} /\ Serve(n, Good(None))
           \/ UNCHANGED signups /\ Serve(n, Bad)
  /\ UNCHANGED <<live, factor, secret>>

ServeLogin(n) ==
  LET c == calls[n].arg.captcha
      u == calls[n].arg.user
      token == [user |-> u, number |-> n]
  IN
  /\ calls[n].kind = "login"
  /\ \/ Serve(n, Bad) /\ UNCHANGED <<used, live>>
     \/ /\ c \notin used
        /\ used' = used \cup {c}
        /\ \/ Serve(n, Bad) /\ UNCHANGED live
           \/ /\ u \in factor /\ ~calls[n].arg.code
              /\ Serve(n, Good(None)) /\ UNCHANGED live
           \/ /\ u \in factor => calls[n].arg.code
              /\ live' = {k \in live : k.user # u} \cup {token}
              /\ Serve(n, Good([token |-> token, mfa |-> u \in factor]))
  /\ UNCHANGED <<factor, secret, signups>>

ServeLogout(n) ==
  /\ calls[n].kind = "logout"
  /\ live' = live \ {calls[n].token}
  /\ Serve(n, IF Authenticated(n) THEN Good(None) ELSE Unauthorized)
  /\ UNCHANGED <<factor, secret, used, signups>>

\* GET /auth/me
ServeMe(n) ==
  /\ calls[n].kind \in {"me", "status"}
  /\ Serve(n, IF Authenticated(n)
                THEN Good([mfa |-> User(n) \in factor])
                ELSE Unauthorized)
  /\ UNCHANGED server

ServeEnroll(n) ==
  /\ calls[n].kind = "enroll"
  /\ IF Authenticated(n) /\ RoleOf[User(n)] = "system_admin" /\ User(n) \notin factor
       THEN secret' = [secret EXCEPT ![User(n)] = n] /\ Serve(n, Good(n))
       ELSE UNCHANGED secret /\ Serve(n, IF Authenticated(n) THEN Bad ELSE Unauthorized)
  /\ UNCHANGED <<live, factor, used, signups>>

\* The code may be mistyped.
ServeVerify(n) ==
  /\ calls[n].kind = "verify"
  /\ \/ /\ Authenticated(n) /\ secret[User(n)] = calls[n].arg
        /\ factor' = factor \cup {User(n)} /\ Serve(n, Good(None))
     \/ UNCHANGED factor /\ Serve(n, IF Authenticated(n) THEN Bad ELSE Unauthorized)
  /\ UNCHANGED <<live, secret, used, signups>>

\* Its day is over, or another browser has signed the user in.
Expire(k) ==
  /\ Fault
  /\ live' = live \ {k}
  /\ UNCHANGED <<calls, sent, store, doc, factor, secret, used, signups, signedOut>>

-----------------------------------------------------------------------------

UserStep(t) ==
  \/ \E to \in {"login", "register", "portal"} : Open(t, to)
  \/ Refresh(t) \/ TypeAnswer(t)
  \/ \E u \in Users : SubmitLogin(t, u)
  \/ SubmitRegister(t)
  \/ Logout(t) \/ OpenMfa(t) \/ Enroll(t) \/ Verify(t)

Callback(n) ==
  \/ ShowCaptcha(n) \/ LoggedIn(n) \/ Registered(n)
  \/ ShowUser(n) \/ LoggedOut(n) \/ ShowMfa(n) \/ Enrolled(n) \/ Verified(n)

Serves(n) ==
  /\ ~Answered(n)
  /\ \/ ServeRegister(n) \/ ServeLogin(n) \/ ServeLogout(n)
     \/ ServeMe(n) \/ ServeEnroll(n) \/ ServeVerify(n)

Next ==
  \/ \E t \in Tabs : UserStep(t) \/ ArriveOnPortal(t) \/ Redirect(t)
  \/ \E n \in DOMAIN calls :
       \/ Callback(n) \/ Serves(n)
       \/ calls[n].tab \in Tabs /\ NetworkError(n) /\ UNCHANGED <<store, doc, server, signedOut>>
  \/ \E k \in live : Expire(k)

Spec == Init /\ [][Next]_vars

-----------------------------------------------------------------------------
(* Properties                                                              *)

\* The token and the user of the storage belong together, whatever tabs and
\* replies have written them: no portal opens on one without the other.
TokenMatchesUser ==
  /\ store.token = None <=> store.user = None
  /\ store.token # None => store.token.user = store.user.name

\* The challenge that is sent is the one whose question the user answered,
\* however many loads of it overlap and in which order they come back.
CaptchaPaired ==
  \A n \in DOMAIN calls :
    calls[n].kind \in {"login", "register"} => calls[n].arg.captcha = calls[n].arg.answer

\* After an attempt there is a new challenge; one that is used up is sent again
\* only if it made an account and the page has not yet left.
ResentAfterSignup ==
  \A n \in DOMAIN calls :
    /\ calls[n].kind \in {"login", "register"}
    /\ calls[n].tab # None /\ ~Answered(n)
    /\ calls[n].arg.captcha \in used
    => calls[n].arg.captcha \in signups

\* Once a sign-out was answered its session is over on the server too: what the
\* storage forgets before that is lost to a broken connection only.
SignedOutEverywhere == signedOut \cap live = {}

\* A session that the server still takes is forgotten by the browser when its own
\* sign-out has come back, and by no other call of its pages, whatever that call's
\* answer.  All tabs share the storage, though, so that a page which was opened with
\* another session clears it too: when it is slow to learn that its own session is
\* over, or when its sign-out comes back late, after another tab has signed in.
LiveSessionKept ==
  [][store.token \in live /\ store'.token = None =>
       \E n \in DOMAIN calls :
         /\ n \notin DOMAIN calls'
         /\ \/ calls[n].kind = "logout" /\ calls[n].token = store.token
            \/ calls[n].kind \in {"me", "logout"} /\ calls[n].token \notin live
            \/ calls[n].kind = "logout" /\ calls[n].reply.status = 0]_vars
=============================================================================
