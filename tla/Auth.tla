-------------------------------- MODULE Auth --------------------------------
(***************************************************************************)
(* Accounts and sessions: AuthService register, createByAdmin, login and   *)
(* logout, the captcha in front of them, the rolling lockout, the bearer   *)
(* tokens and the enrolment of a second factor.  Left out: passwords (one  *)
(* is right or it is not), the computation of codes (a code belongs to one *)
(* secret), the status of a user, which nothing changes, and requests that *)
(* are refused before they write anything, a wrong captcha answer too.     *)
(***************************************************************************)
EXTENDS Requests, FiniteSets

CONSTANTS
  Users,            \* names of accounts
  FirstAdmins,      \* those that are put into the database by hand
  Secrets,          \* of second factors
  LOCKOUT_THRESHOLD, LOCKOUT_WINDOW, CAPTCHA_TTL, TOKEN_LIFETIME,
  MaxTime, MaxChallenges   \* bounds of a model

VARIABLES
  users,        \* table users: the account of each name, None while it is free
  challenges,   \* table captcha_challenges; the index is the challenge_id
  failures,     \* table auth_failures; the index is the id, None a deleted row
  tokens,       \* table user_tokens
  issued,       \* number of tokens that were ever made
  now,
  passed,       \* history: the challenges that let a request through
  proven        \* history: the secret of which each user has shown a code

Role == {"farmer", "system_admin"}
Level == {"village", "county"}
Account == [role: Role, level: Level, mfa: BOOLEAN, secret: Secrets \cup {None}]
Challenge == [expires: Nat, consumed: BOOLEAN]
Failure == [user: Users, at: Nat]
Token == [user: Users, number: Nat, expires: Nat]

ASSUME AuthAssumption ==
  /\ FirstAdmins \subseteq Users
  /\ None \notin Secrets /\ None \notin Account /\ None \notin Failure
  /\ {LOCKOUT_THRESHOLD, LOCKOUT_WINDOW, CAPTCHA_TTL, TOKEN_LIFETIME} \subseteq Nat

tables == <<users, challenges, failures, tokens, issued>>
vars == <<process, tables, now, passed, proven>>

NewAccount(role, level) == [role |-> role, level |-> level, mfa |-> FALSE, secret |-> None]

Init ==
  /\ RequestsInit
  /\ users = [u \in Users |->
                IF u \in FirstAdmins THEN NewAccount("system_admin", "county") ELSE None]
  /\ challenges = <<>> /\ failures = <<>>
  /\ tokens = {} /\ issued = 0
  /\ now = 0
  /\ passed = <<>> /\ proven = [u \in Users |-> None]

-----------------------------------------------------------------------------
(* CaptchaService *)

\* GET /auth/captcha
Generate(w) ==
  /\ pc[w] = "idle" /\ Len(challenges) < MaxChallenges
  /\ challenges' = Append(challenges, [expires |-> now + CAPTCHA_TTL, consumed |-> FALSE])
  /\ UNCHANGED <<process, users, failures, tokens, issued, now, passed, proven>>

\* Variant: the answer is compared, and the challenge stays good until it expires.
UsableAgain(c) == challenges[c].expires >= now

\* The reading half of verifyAndConsume.
Usable(c) == ~challenges[c].consumed /\ challenges[c].expires >= now

\* POST /auth/login and POST /auth/register start with the captcha.
AskLogin(w, c, u, right, code) ==
  /\ Usable(c)
  /\ Begin(w, "consume", [challenge |-> c, next |-> "login",
                          user |-> u, right |-> right, code |-> code])
  /\ UNCHANGED <<tables, now, passed, proven>>

AskRegister(w, c, u, role, level) ==
  /\ Usable(c)
  /\ Begin(w, "consume", [challenge |-> c, next |-> "register", by |-> None,
                          user |-> u, role |-> role, level |-> level])
  /\ UNCHANGED <<tables, now, passed, proven>>

\* The writing half: UPDATE captcha_challenges SET consumed = 1.
Consume(w) ==
  /\ pc[w] = "consume"
  /\ challenges' = [challenges EXCEPT ![req[w].challenge].consumed = TRUE]
  /\ passed' = Append(passed, req[w].challenge)
  /\ Continue(w, req[w].next, req[w])
  /\ UNCHANGED <<users, failures, tokens, issued, now, proven>>

-----------------------------------------------------------------------------
(* TokenService and the middleware AuthCheck *)

Valid(t) == t.expires > now

\* A request with the token t gets past authCheck, for those with one of the roles.
Authenticated(t, roles) == Valid(t) /\ users[t.user].role \in roles

Others(u) == {t \in tokens : t.user # u}

-----------------------------------------------------------------------------
(* AuthService::register, createByAdmin *)

AskCreateUser(w, t, u, role, level) ==
  /\ Authenticated(t, {"system_admin"})
  /\ Begin(w, "register", [by |-> t.user, user |-> u, role |-> role, level |-> level])
  /\ UNCHANGED <<tables, now, passed, proven>>

MayRegister(r) ==
  /\ r.by = None => r.role # "system_admin" /\ r.level = "village"
  /\ users[r.user] = None

CheckRegistration(w) ==
  /\ pc[w] = "register"
  /\ IF MayRegister(req[w]) THEN Continue(w, "insert", req[w]) ELSE Finish(w)
  /\ UNCHANGED <<tables, now, passed, proven>>

\* username is UNIQUE: the INSERT fails if the name was taken meanwhile.
InsertUser(w) ==
  LET r == req[w] IN
  /\ pc[w] = "insert"
  /\ IF users[r.user] # None
       THEN Finish(w) /\ UNCHANGED users
       ELSE /\ users' = [users EXCEPT ![r.user] = NewAccount(r.role, r.level)]
            /\ IF r.by = None
                 THEN Finish(w)
                 ELSE Continue(w, "audit", [event |-> "admin_user_created",
                                            by |-> r.by, user |-> r.user])
  /\ UNCHANGED <<challenges, failures, tokens, issued, now, passed, proven>>

-----------------------------------------------------------------------------
(* AuthService::login, logout *)

FailuresOf(u) == {k \in DOMAIN failures : failures[k] # None /\ failures[k].user = u}

Recent(u) == {k \in FailuresOf(u) : failures[k].at >= now - LOCKOUT_WINDOW}

\* Variant: off by one.
LockedLate(u) == Cardinality(Recent(u)) > LOCKOUT_THRESHOLD

\* checkLockout
Locked(u) == Cardinality(Recent(u)) >= LOCKOUT_THRESHOLD

\* The SELECT of the user: a name that is not known costs nothing more.
FindUser(w) ==
  /\ pc[w] = "login"
  /\ IF users[req[w].user] = None
       THEN Finish(w)
       ELSE Continue(w, "check", [user |-> req[w].user, right |-> req[w].right,
                                  code |-> req[w].code, account |-> users[req[w].user]])
  /\ UNCHANGED <<tables, now, passed, proven>>

\* The second factor as the row that was read has it.
Challenged(r) == r.account.mfa /\ r.account.secret # None /\ r.code = None
WrongCode(r) == r.account.mfa /\ r.account.secret # None /\ r.code # r.account.secret

\* An attempt on a locked account is refused and not counted; a right password
\* without a code is answered with mfa_required.
CheckLogin(w) ==
  LET r == req[w] IN
  /\ pc[w] = "check"
  /\ IF Locked(r.user) \/ (r.right /\ Challenged(r))
       THEN Finish(w)
       ELSE Continue(w, IF ~r.right \/ WrongCode(r) THEN "record" ELSE "clear", r)
  /\ UNCHANGED <<tables, now, passed, proven>>

RecordFailure(w) ==
  /\ pc[w] = "record"
  /\ failures' = Append(failures, [user |-> req[w].user, at |-> now])
  /\ Finish(w)
  /\ UNCHANGED <<users, challenges, tokens, issued, now, passed, proven>>

ClearFailures(w) ==
  /\ pc[w] = "clear"
  /\ failures' = [k \in DOMAIN failures |->
                   IF k \in FailuresOf(req[w].user) THEN None ELSE failures[k]]
  /\ Continue(w, "revoke", req[w])
  /\ UNCHANGED <<users, challenges, tokens, issued, now, passed, proven>>

\* Variant: the sessions of other devices go on.
KeepTokens(w) ==
  /\ pc[w] = "revoke"
  /\ Continue(w, "issue", [user |-> req[w].user, expires |-> now + TOKEN_LIFETIME])
  /\ UNCHANGED <<tables, now, passed, proven>>

\* TokenService::create takes the time, then deletes, then inserts.
DeleteTokens(w) ==
  /\ pc[w] = "revoke"
  /\ tokens' = Others(req[w].user)
  /\ Continue(w, "issue", [user |-> req[w].user, expires |-> now + TOKEN_LIFETIME])
  /\ UNCHANGED <<users, challenges, failures, issued, now, passed, proven>>

IssueToken(w) ==
  /\ pc[w] = "issue"
  /\ issued' = issued + 1
  /\ tokens' = tokens \cup {[user |-> req[w].user, number |-> issued', expires |-> req[w].expires]}
  /\ Finish(w)
  /\ UNCHANGED <<users, challenges, failures, now, passed, proven>>

AskLogout(w, t) ==
  /\ Authenticated(t, Role)
  /\ Begin(w, "logout", t)
  /\ UNCHANGED <<tables, now, passed, proven>>

Logout(w) ==
  /\ pc[w] = "logout"
  /\ tokens' = tokens \ {req[w]}
  /\ Finish(w)
  /\ UNCHANGED <<users, challenges, failures, issued, now, passed, proven>>

-----------------------------------------------------------------------------
(* mfaEnroll and mfaVerify of the controller *)

\* Variant: whoever has a second factor may take a new one.
MayEnrollAlways(u) == users[u].role = "system_admin"

MayEnroll(u) == users[u].role = "system_admin" /\ ~users[u].mfa

AskEnroll(w, t, s) ==
  /\ Authenticated(t, {"system_admin"}) /\ MayEnroll(t.user)
  /\ Begin(w, "enroll", [user |-> t.user, secret |-> s])
  /\ UNCHANGED <<tables, now, passed, proven>>

Enroll(w) ==
  /\ pc[w] = "enroll"
  /\ users' = [users EXCEPT ![req[w].user].secret = req[w].secret]
  /\ Finish(w)
  /\ UNCHANGED <<challenges, failures, tokens, issued, now, passed, proven>>

AskVerify(w, t, code) ==
  /\ Authenticated(t, {"system_admin"})
  /\ Begin(w, "verify", [user |-> t.user, code |-> code])
  /\ UNCHANGED <<tables, now, passed, proven>>

CheckCode(w) ==
  /\ pc[w] = "verify"
  /\ IF users[req[w].user].secret = req[w].code
       THEN Continue(w, "enable", req[w])
       ELSE Finish(w)
  /\ UNCHANGED <<tables, now, passed, proven>>

EnableMfa(w) ==
  /\ pc[w] = "enable"
  /\ users' = [users EXCEPT ![req[w].user].mfa = TRUE]
  /\ proven' = [proven EXCEPT ![req[w].user] = req[w].code]
  /\ Finish(w)
  /\ UNCHANGED <<challenges, failures, tokens, issued, now, passed>>

-----------------------------------------------------------------------------

Tick ==
  /\ now < MaxTime
  /\ now' = now + 1
  /\ UNCHANGED <<process, tables, passed, proven>>

\* The tables stay as they are when a request is logged, dies or only reads.
End(w) == (WriteAudit(w) \/ Crash(w) \/ Pass(w)) /\ UNCHANGED <<tables, now, passed, proven>>

Next ==
  \/ Tick
  \/ \E w \in Workers :
       \/ Generate(w)
       \/ \E c \in DOMAIN challenges, u \in Users :
            \/ AskLogin(w, c, u, FALSE, None)
            \/ \E code \in Secrets \cup {None} : AskLogin(w, c, u, TRUE, code)
            \/ \E role \in Role, level \in Level : AskRegister(w, c, u, role, level)
       \/ \E t \in tokens :
            \/ \E u \in Users, role \in Role, level \in Level :
                 AskCreateUser(w, t, u, role, level)
            \/ AskLogout(w, t)
            \/ \E s \in Secrets : AskEnroll(w, t, s) \/ AskVerify(w, t, s)
       \/ Consume(w)
       \/ CheckRegistration(w) \/ InsertUser(w)
       \/ FindUser(w) \/ CheckLogin(w)
       \/ RecordFailure(w) \/ ClearFailures(w)
       \/ DeleteTokens(w) \/ IssueToken(w) \/ Logout(w)
       \/ Enroll(w) \/ CheckCode(w) \/ EnableMfa(w)
       \/ End(w)

Spec == Init /\ [][Next]_vars

-----------------------------------------------------------------------------
(* Properties                                                              *)

\* A challenge lets one request through, even if that one then fails or dies.
CaptchaOnce == \A j, k \in DOMAIN passed : passed[j] = passed[k] => j = k

\* In no window of fifteen minutes is an account guessed at more often than the
\* threshold says, unless a login succeeded in it; attempts while it is locked
\* are refused.  It follows that checkLockout never sees more than the threshold
\* and that its wait, which is said to double with each further failure, does not.
LockoutHolds ==
  \A u \in Users : \A k \in FailuresOf(u) :
    Cardinality({j \in FailuresOf(u) :
                   failures[j].at \in failures[k].at - LOCKOUT_WINDOW .. failures[k].at})
      <= LOCKOUT_THRESHOLD

\* A login ends every other session of its user, and so does a login that dies.
OneSession ==
  \A s, t \in tokens : s.user = t.user => s = t

\* A second factor that logins ask for is one of which its owner has shown a
\* code: nobody is locked out by an enrolment that was begun again or given up.
MfaProven ==
  \A u \in Users :
    users[u] # None /\ users[u].mfa => users[u].secret # None /\ users[u].secret = proven[u]
=============================================================================
