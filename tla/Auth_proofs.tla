---------------------------- MODULE Auth_proofs ----------------------------
(***************************************************************************)
(* Theorems about Auth with one API process, for any number of accounts,   *)
(* challenges, secrets, requests and faults: no request of another user    *)
(* comes between two statements of one, but deaths and the clock may.      *)
(***************************************************************************)
EXTENDS Auth, FiniteSetTheorems, TLAPS

OneWorker == \A v, w \in Workers : v = w

Types ==
  /\ now \in Nat /\ issued \in Nat
  /\ users \in [Users -> Account \cup {None}]
  /\ challenges \in Seq(Challenge)
  /\ failures \in Seq(Failure \cup {None})
  /\ tokens \subseteq Token
  /\ passed \in Seq(Nat)
  /\ proven \in [Users -> Secrets \cup {None}]
  /\ pc = [w \in Workers |-> pc[w]] /\ req = [w \in Workers |-> req[w]]

-----------------------------------------------------------------------------
(* The invariant: one part per table, and what a request holds *)

PassedConsumed ==
  \A j \in DOMAIN passed :
    passed[j] \in DOMAIN challenges /\ challenges[passed[j]].consumed

FailuresPast ==
  \A u \in Users : \A k \in FailuresOf(u) : failures[k].at \in Nat /\ failures[k].at <= now

\* The failures of u that a window which ends with failure k counts.
Window(u, k) ==
  {j \in FailuresOf(u) : failures[j].at \in failures[k].at - LOCKOUT_WINDOW .. failures[k].at}

TokensOwned == \A t \in tokens : users[t.user] # None

HasAccount(r) == r.user \in Users /\ users[r.user] # None

Signup(r) == r.user \in Users /\ r.role \in Role /\ r.level \in Level

\* What the one request still may rely on of what it read before.
RequestSound(s, r) ==
  /\ s = "consume" =>
       /\ r.challenge \in DOMAIN challenges /\ ~challenges[r.challenge].consumed
       /\ \/ r.next = "login" /\ r.user \in Users
          \/ r.next = "register" /\ Signup(r)
  /\ s = "login" => r.user \in Users
  /\ s \in {"register", "insert"} => Signup(r)
  /\ s \in {"check", "record", "clear", "revoke", "issue", "enroll", "verify", "enable"} =>
       HasAccount(r)
  /\ s = "record" => Cardinality(Recent(r.user)) < LOCKOUT_THRESHOLD
  /\ s = "issue" => r.expires \in Nat /\ \A t \in tokens : t.user # r.user
  /\ s = "enroll" => ~users[r.user].mfa /\ r.secret \in Secrets
  /\ s \in {"verify", "enable"} => r.code \in Secrets
  /\ s = "enable" => users[r.user].secret = r.code

RequestsSound == \A w \in Workers : RequestSound(pc[w], req[w])

AuthInv ==
  /\ Types /\ PassedConsumed /\ FailuresPast /\ TokensOwned /\ RequestsSound
  /\ CaptchaOnce /\ LockoutHolds /\ OneSession /\ MfaProven

-----------------------------------------------------------------------------
(* Steps in general *)

LEMMA Fresh ==
  /\ None \notin Secrets /\ None \notin Account /\ None \notin Failure
  /\ FirstAdmins \subseteq Users /\ LOCKOUT_THRESHOLD \in Nat /\ LOCKOUT_WINDOW \in Nat
  /\ CAPTCHA_TTL \in Nat /\ TOKEN_LIFETIME \in Nat
  BY AuthAssumption

\* The one process goes on to step s with r.
LEMMA Onward ==
  ASSUME OneWorker, Types, NEW w \in Workers, NEW s, NEW r,
         pc' = [pc EXCEPT ![w] = s], req' = [req EXCEPT ![w] = r], RequestSound(s, r)'
  PROVE  /\ pc' = [v \in Workers |-> pc'[v]] /\ req' = [v \in Workers |-> req'[v]]
         /\ RequestsSound'
<1>1. pc'[w] = s /\ req'[w] = r
  BY DEF Types
<1>2. \A v \in Workers : v = w
  BY DEF OneWorker
<1> QED
  BY <1>1, <1>2 DEF Types, RequestsSound

data == <<tables, now, passed, proven>>

\* A step that leaves the tables alone.
LEMMA DataKept ==
  ASSUME AuthInv, UNCHANGED data,
         pc' = [v \in Workers |-> pc'[v]] /\ req' = [v \in Workers |-> req'[v]], RequestsSound'
  PROVE  AuthInv'
<1>1. UNCHANGED <<users, challenges, failures, tokens, issued, now, passed, proven>>
  BY DEF data, tables
<1>2. Types' /\ PassedConsumed' /\ TokensOwned'
  BY <1>1 DEF AuthInv, Types, PassedConsumed, TokensOwned
<1>3. FailuresPast' /\ LockoutHolds'
  BY <1>1 DEF AuthInv, FailuresPast, LockoutHolds, FailuresOf
<1>4. CaptchaOnce' /\ OneSession' /\ MfaProven'
  BY <1>1 DEF AuthInv, CaptchaOnce, OneSession, MfaProven
<1> QED
  BY <1>2, <1>3, <1>4 DEF AuthInv

LEMMA Reading ==
  ASSUME OneWorker, AuthInv, NEW w \in Workers, NEW s, NEW r, UNCHANGED data,
         pc' = [pc EXCEPT ![w] = s], req' = [req EXCEPT ![w] = r], RequestSound(s, r)'
  PROVE  AuthInv'
  BY Onward, DataKept DEF AuthInv

LEMMA Giving ==
  ASSUME OneWorker, AuthInv, NEW w \in Workers, UNCHANGED data,
         pc' = [pc EXCEPT ![w] = "idle"], req' = [req EXCEPT ![w] = None]
  PROVE  AuthInv'
<1>1. RequestSound("idle", None)'
  BY DEF RequestSound
<1> QED
  BY <1>1, Reading

-----------------------------------------------------------------------------
(* The counts of the lockout *)

LEMMA FiniteFailures ==
  ASSUME Types, NEW u, NEW S, S \subseteq FailuresOf(u)
  PROVE  IsFiniteSet(S) /\ Cardinality(S) \in Nat
<1>1. IsFiniteSet(DOMAIN failures)
  <2>1. DOMAIN failures = 1..Len(failures) /\ Len(failures) \in Nat
    BY DEF Types
  <2> QED
    BY <2>1, FS_Interval
<1>2. S \subseteq DOMAIN failures
  BY DEF FailuresOf
<1> QED
  BY <1>1, <1>2, FS_Subset, FS_CardinalityType

\* Fewer rows are counted by fewer.
LEMMA CountLess ==
  ASSUME Types, NEW u, NEW S, S \subseteq FailuresOf(u), NEW T, T \subseteq S
  PROVE  Cardinality(T) <= Cardinality(S) /\ Cardinality(T) \in Nat
  BY FiniteFailures, FS_Subset

LEMMA FailureTimes ==
  ASSUME Types, NEW u, NEW k \in FailuresOf(u)
  PROVE  failures[k] \in Failure /\ failures[k].at \in Nat
  BY DEF Types, FailuresOf, Failure

-----------------------------------------------------------------------------
(* The clock, challenges and registrations *)

LEMMA AuthInit == Init => AuthInv
<1> SUFFICES ASSUME Init PROVE AuthInv
  OBVIOUS
<1>1. Types
  <2>1. \A role \in Role, level \in Level : NewAccount(role, level) \in Account
    BY DEF NewAccount, Account
  <2>2. users \in [Users -> Account \cup {None}]
    BY <2>1 DEF Init, Role, Level
  <2> QED
    BY <2>2 DEF Init, RequestsInit, Types
<1>2. \A u \in Users : FailuresOf(u) = {}
  BY DEF Init, FailuresOf
<1>3. \A u \in Users : users[u] # None => ~users[u].mfa
  BY DEF Init, NewAccount
<1>4. RequestsSound
  BY DEF Init, RequestsInit, RequestsSound, RequestSound
<1>5. PassedConsumed /\ CaptchaOnce /\ TokensOwned /\ OneSession
  BY DEF Init, PassedConsumed, CaptchaOnce, TokensOwned, OneSession
<1> QED
  BY <1>1, <1>2, <1>3, <1>4, <1>5 DEF AuthInv, FailuresPast, LockoutHolds, MfaProven

\* Failures only go out of the window.
LEMMA NextTick ==
  ASSUME AuthInv, Tick
  PROVE  AuthInv'
<1>1. /\ now' = now + 1 /\ now' \in Nat
      /\ UNCHANGED <<users, challenges, failures, tokens, issued, passed, proven, pc, req>>
  BY DEF Tick, tables, process, AuthInv, Types
<1>2. Types' /\ PassedConsumed' /\ TokensOwned'
  BY <1>1 DEF AuthInv, Types, PassedConsumed, TokensOwned
<1>3. FailuresPast' /\ LockoutHolds'
  <2>1. LockoutHolds'
    BY <1>1 DEF AuthInv, LockoutHolds, FailuresOf
  <2>2. \A u \in Users : FailuresOf(u)' = FailuresOf(u)
    BY <1>1 DEF FailuresOf
  <2>3. FailuresPast'
    BY <1>1, <2>2 DEF AuthInv, FailuresPast, Types
  <2> QED
    BY <2>1, <2>3
<1>4. CaptchaOnce' /\ OneSession' /\ MfaProven'
  BY <1>1 DEF AuthInv, CaptchaOnce, OneSession, MfaProven
<1>5. \A u \in Users : Cardinality(Recent(u)) < LOCKOUT_THRESHOLD => Cardinality(Recent(u)') < LOCKOUT_THRESHOLD
  <2> SUFFICES ASSUME NEW u \in Users
               PROVE  Cardinality(Recent(u)') <= Cardinality(Recent(u)) /\ Cardinality(Recent(u)) \in Nat
                      /\ Cardinality(Recent(u)') \in Nat
    BY Fresh
  <2>1. \A k \in FailuresOf(u) : failures[k].at \in Nat
    BY FailureTimes DEF AuthInv
  <2>2. Recent(u)' \subseteq Recent(u) /\ Recent(u) \subseteq FailuresOf(u)
    BY <1>1, <2>1, Fresh DEF Recent, FailuresOf, AuthInv, Types
  <2> QED
    BY <2>2, FiniteFailures, CountLess DEF AuthInv
<1>6. RequestsSound'
  BY <1>1, <1>5 DEF AuthInv, RequestsSound, RequestSound, HasAccount
<1> QED
  BY <1>2, <1>3, <1>4, <1>6 DEF AuthInv

\* A new challenge has been used by nobody.
LEMMA NextGenerate ==
  ASSUME OneWorker, AuthInv, NEW w \in Workers, Generate(w)
  PROVE  AuthInv'
<1>1. PICK c : c = [expires |-> now + CAPTCHA_TTL, consumed |-> FALSE]
  OBVIOUS
<1>2. /\ challenges' = Append(challenges, c) /\ c \in Challenge
      /\ UNCHANGED <<users, failures, tokens, issued, now, passed, proven, pc, req>>
  BY <1>1, Fresh DEF Generate, process, Challenge, AuthInv, Types
<1>3. DOMAIN challenges \subseteq DOMAIN challenges' /\ \A k \in DOMAIN challenges : challenges'[k] = challenges[k]
  BY <1>2 DEF AuthInv, Types
<1>4. Types' /\ PassedConsumed' /\ TokensOwned'
  BY <1>2, <1>3 DEF AuthInv, Types, PassedConsumed, TokensOwned
<1>5. FailuresPast' /\ LockoutHolds'
  BY <1>2 DEF AuthInv, FailuresPast, LockoutHolds, FailuresOf
<1>6. CaptchaOnce' /\ OneSession' /\ MfaProven'
  BY <1>2 DEF AuthInv, CaptchaOnce, OneSession, MfaProven
<1>7. RequestsSound'
  BY <1>2, <1>3 DEF AuthInv, RequestsSound, RequestSound, HasAccount, Recent, FailuresOf
<1> QED
  BY <1>4, <1>5, <1>6, <1>7 DEF AuthInv

LEMMA NextAskLogin ==
  ASSUME OneWorker, AuthInv, NEW w \in Workers, NEW c \in DOMAIN challenges, NEW u \in Users,
         NEW right, NEW code, AskLogin(w, c, u, right, code)
  PROVE  AuthInv'
<1>1. PICK r : r = [challenge |-> c, next |-> "login", user |-> u, right |-> right, code |-> code]
  OBVIOUS
<1>2. r.challenge = c /\ r.next = "login" /\ r.user = u
  BY <1>1
<1>3. UNCHANGED data /\ pc' = [pc EXCEPT ![w] = "consume"] /\ req' = [req EXCEPT ![w] = r]
  BY <1>1 DEF AskLogin, Begin, data
<1>4. RequestSound("consume", r)'
  BY <1>2, <1>3 DEF RequestSound, AskLogin, Usable, data, tables
<1> QED
  BY <1>3, <1>4, Reading

LEMMA NextAskRegister ==
  ASSUME OneWorker, AuthInv, NEW w \in Workers, NEW c \in DOMAIN challenges, NEW u \in Users,
         NEW role \in Role, NEW level \in Level, AskRegister(w, c, u, role, level)
  PROVE  AuthInv'
<1>1. PICK r : r = [challenge |-> c, next |-> "register", by |-> None, user |-> u, role |-> role, level |-> level]
  OBVIOUS
<1>2. r.challenge = c /\ r.next = "register" /\ Signup(r)
  BY <1>1 DEF Signup
<1>3. UNCHANGED data /\ pc' = [pc EXCEPT ![w] = "consume"] /\ req' = [req EXCEPT ![w] = r]
  BY <1>1 DEF AskRegister, Begin, data
<1>4. RequestSound("consume", r)'
  BY <1>2, <1>3 DEF RequestSound, AskRegister, Usable, data, tables, Signup
<1> QED
  BY <1>3, <1>4, Reading

\* The challenge was still unused when it is crossed off: the one process had it.
LEMMA NextConsume ==
  ASSUME OneWorker, AuthInv, NEW w \in Workers, Consume(w)
  PROVE  AuthInv'
<1>1. PICK r, c : r = req[w] /\ c = r.challenge
  OBVIOUS
<1>2. c \in DOMAIN challenges /\ ~challenges[c].consumed /\ RequestSound("consume", r)
  BY <1>1 DEF AuthInv, RequestsSound, RequestSound, Consume
<1>3. /\ challenges' = [challenges EXCEPT ![c].consumed = TRUE] /\ passed' = Append(passed, c)
      /\ UNCHANGED <<users, failures, tokens, issued, now, proven>>
      /\ pc' = [pc EXCEPT ![w] = r.next] /\ req' = [req EXCEPT ![w] = r]
  BY <1>1 DEF Consume, Continue
<1>4. /\ challenges' \in Seq(Challenge) /\ DOMAIN challenges' = DOMAIN challenges
      /\ challenges'[c].consumed
      /\ \A k \in DOMAIN challenges \ {c} : challenges'[k] = challenges[k]
  <2>1. challenges \in Seq(Challenge)
    BY DEF AuthInv, Types
  <2>2. PICK row : row = [challenges[c] EXCEPT !.consumed = TRUE]
    OBVIOUS
  <2>3. row \in Challenge /\ row.consumed
    <3>1. challenges[c] \in Challenge
      BY <1>2, <2>1
    <3> QED
      BY <2>2, <3>1 DEF Challenge
  <2>4. challenges' = [challenges EXCEPT ![c] = row]
    BY <1>3, <2>2
  <2> QED
    BY <1>2, <2>1, <2>3, <2>4
<1>5. passed' \in Seq(Nat)
  BY <1>2, <1>3 DEF AuthInv, Types
<1>6. /\ Len(passed) + 1 \notin DOMAIN passed /\ DOMAIN passed' = DOMAIN passed \cup {Len(passed) + 1}
      /\ passed'[Len(passed) + 1] = c /\ \A k \in DOMAIN passed : passed'[k] = passed[k]
  BY <1>2, <1>3 DEF AuthInv, Types
<1>7. PassedConsumed'
  BY <1>2, <1>4, <1>6 DEF AuthInv, PassedConsumed
<1>8. CaptchaOnce'
  <2>1. \A k \in DOMAIN passed : passed[k] # c
    BY <1>2 DEF AuthInv, PassedConsumed
  <2> QED
    BY <1>6, <2>1 DEF AuthInv, CaptchaOnce
<1>9. RequestSound(r.next, r)'
  BY <1>2 DEF RequestSound
<1>10. PICK s : s = r.next
  OBVIOUS
<1>11. /\ RequestsSound'
       /\ pc' = [v \in Workers |-> pc'[v]] /\ req' = [v \in Workers |-> req'[v]]
  BY <1>3, <1>9, <1>10, Onward DEF AuthInv
<1>12. Types' /\ TokensOwned'
  BY <1>3, <1>4, <1>5, <1>11 DEF AuthInv, Types, TokensOwned
<1>13. FailuresPast' /\ LockoutHolds' /\ OneSession' /\ MfaProven'
  BY <1>3 DEF AuthInv, FailuresPast, LockoutHolds, FailuresOf, OneSession, MfaProven
<1> QED
  BY <1>7, <1>8, <1>11, <1>12, <1>13 DEF AuthInv

\* An account that exists, with one field replaced.
LEMMA AccountWith ==
  ASSUME NEW a \in Account, NEW s \in Secrets
  PROVE  /\ [a EXCEPT !.secret = s] \in Account /\ [a EXCEPT !.mfa = TRUE] \in Account
         /\ [a EXCEPT !.secret = s].mfa = a.mfa
         /\ [a EXCEPT !.mfa = TRUE].secret = a.secret
  BY DEF Account

\* The account of u is put in or changed by the one process, which goes on to
\* step s with r.
LEMMA AccountSet ==
  ASSUME OneWorker, AuthInv, NEW w \in Workers, NEW u \in Users, NEW a \in Account, NEW p \in Secrets \cup {None},
         users' = [users EXCEPT ![u] = a], proven' = [proven EXCEPT ![u] = p],
         a.mfa => a.secret # None /\ a.secret = p,
         UNCHANGED <<challenges, failures, tokens, issued, now, passed>>,
         NEW s, NEW r, pc' = [pc EXCEPT ![w] = s], req' = [req EXCEPT ![w] = r], RequestSound(s, r)'
  PROVE  AuthInv'
<1>1. /\ RequestsSound'
      /\ pc' = [v \in Workers |-> pc'[v]] /\ req' = [v \in Workers |-> req'[v]]
  BY Onward DEF AuthInv
<1>2. users'[u] = a /\ proven'[u] = p /\ \A v \in Users \ {u} : users'[v] = users[v] /\ proven'[v] = proven[v]
  BY DEF AuthInv, Types
<1>3. Types'
  BY <1>1 DEF AuthInv, Types
<1>4. TokensOwned'
  <2>1. \A t \in tokens : t.user \in Users
    BY DEF AuthInv, Types, Token
  <2> QED
    BY <1>2, <2>1, Fresh DEF AuthInv, TokensOwned
<1>5. MfaProven'
  BY <1>2 DEF AuthInv, MfaProven
<1>6. FailuresPast' /\ LockoutHolds' /\ PassedConsumed' /\ CaptchaOnce' /\ OneSession'
  BY DEF AuthInv, FailuresPast, LockoutHolds, FailuresOf, PassedConsumed, CaptchaOnce, OneSession
<1> QED
  BY <1>1, <1>3, <1>4, <1>5, <1>6 DEF AuthInv

LEMMA NextAskCreateUser ==
  ASSUME OneWorker, AuthInv, NEW w \in Workers, NEW t \in tokens, NEW u \in Users,
         NEW role \in Role, NEW level \in Level, AskCreateUser(w, t, u, role, level)
  PROVE  AuthInv'
<1>1. PICK r : r = [by |-> t.user, user |-> u, role |-> role, level |-> level]
  OBVIOUS
<1>2. Signup(r)
  BY <1>1 DEF Signup
<1>3. UNCHANGED data /\ pc' = [pc EXCEPT ![w] = "register"] /\ req' = [req EXCEPT ![w] = r]
  BY <1>1 DEF AskCreateUser, Begin, data
<1>4. RequestSound("register", r)'
  BY <1>2 DEF RequestSound, Signup
<1> QED
  BY <1>3, <1>4, Reading

LEMMA NextCheckRegistration ==
  ASSUME OneWorker, AuthInv, NEW w \in Workers, CheckRegistration(w)
  PROVE  AuthInv'
<1>1. PICK r : r = req[w]
  OBVIOUS
<1>2. Signup(r) /\ UNCHANGED data
  BY <1>1 DEF AuthInv, RequestsSound, RequestSound, CheckRegistration, data
<1>3. CASE MayRegister(r)
  <2>1. pc' = [pc EXCEPT ![w] = "insert"] /\ req' = [req EXCEPT ![w] = r]
    BY <1>1, <1>3 DEF CheckRegistration, Continue
  <2>2. RequestSound("insert", r)'
    BY <1>2 DEF RequestSound, Signup
  <2> QED
    BY <1>2, <2>1, <2>2, Reading
<1>4. CASE ~MayRegister(r)
  BY <1>1, <1>2, <1>4, Giving DEF CheckRegistration, Finish, Continue
<1> QED
  BY <1>3, <1>4

LEMMA NextInsertUser ==
  ASSUME OneWorker, AuthInv, NEW w \in Workers, InsertUser(w)
  PROVE  AuthInv'
<1>1. PICK r : r = req[w]
  OBVIOUS
<1>2. Signup(r) /\ UNCHANGED <<challenges, failures, tokens, issued, now, passed, proven>>
  BY <1>1 DEF AuthInv, RequestsSound, RequestSound, InsertUser
<1>3. CASE users[r.user] # None
  <2>1. UNCHANGED data /\ pc' = [pc EXCEPT ![w] = "idle"] /\ req' = [req EXCEPT ![w] = None]
    BY <1>1, <1>2, <1>3 DEF InsertUser, Finish, Continue, data, tables
  <2> QED
    BY <2>1, Giving
<1>4. CASE users[r.user] = None
  <2>1. PICK a, p : a = NewAccount(r.role, r.level) /\ p = proven[r.user]
    OBVIOUS
  <2>2. a \in Account /\ ~a.mfa /\ p \in Secrets \cup {None}
    BY <1>2, <2>1 DEF NewAccount, Account, Signup, AuthInv, Types
  <2>3. users' = [users EXCEPT ![r.user] = a] /\ proven' = [proven EXCEPT ![r.user] = p]
    BY <1>1, <1>2, <1>4, <2>1 DEF InsertUser, AuthInv, Types
  <2>4. PICK s, new : /\ s \in {"idle", "audit"}
                      /\ pc' = [pc EXCEPT ![w] = s] /\ req' = [req EXCEPT ![w] = new]
    BY <1>1, <1>4 DEF InsertUser, Finish, Continue
  <2>5. RequestSound(s, new)'
    BY <2>4 DEF RequestSound
  <2> QED
    BY <1>2, <2>2, <2>3, <2>4, <2>5, AccountSet DEF Signup
<1> QED
  BY <1>3, <1>4

-----------------------------------------------------------------------------
(* Logins *)

LEMMA NextFindUser ==
  ASSUME OneWorker, AuthInv, NEW w \in Workers, FindUser(w)
  PROVE  AuthInv'
<1>1. PICK u : u = req[w].user
  OBVIOUS
<1>2. u \in Users /\ UNCHANGED data
  BY <1>1 DEF AuthInv, RequestsSound, RequestSound, FindUser, data
<1>3. CASE users[u] = None
  BY <1>1, <1>2, <1>3, Giving DEF FindUser, Finish, Continue
<1>4. CASE users[u] # None
  <2>1. PICK r : r = [user |-> u, right |-> req[w].right, code |-> req[w].code, account |-> users[u]]
    OBVIOUS
  <2>2. pc' = [pc EXCEPT ![w] = "check"] /\ req' = [req EXCEPT ![w] = r]
    BY <1>1, <1>4, <2>1 DEF FindUser, Continue
  <2>3. r.user = u
    BY <2>1
  <2>4. RequestSound("check", r)'
    BY <1>2, <1>4, <2>3 DEF RequestSound, HasAccount, data, tables
  <2> QED
    BY <1>2, <2>2, <2>4, Reading
<1> QED
  BY <1>3, <1>4

\* A failure is only going to be recorded if there is room for one.
LEMMA NextCheckLogin ==
  ASSUME OneWorker, AuthInv, NEW w \in Workers, CheckLogin(w)
  PROVE  AuthInv'
<1>1. PICK r : r = req[w]
  OBVIOUS
<1>2. HasAccount(r) /\ UNCHANGED data
  BY <1>1 DEF AuthInv, RequestsSound, RequestSound, CheckLogin, data
<1>3. CASE Locked(r.user) \/ (r.right /\ Challenged(r))
  BY <1>1, <1>2, <1>3, Giving DEF CheckLogin, Finish, Continue
<1>4. CASE ~(Locked(r.user) \/ (r.right /\ Challenged(r)))
  <2>1. PICK s : s = IF ~r.right \/ WrongCode(r) THEN "record" ELSE "clear"
    OBVIOUS
  <2>2. pc' = [pc EXCEPT ![w] = s] /\ req' = [req EXCEPT ![w] = r]
    BY <1>1, <1>4, <2>1 DEF CheckLogin, Continue
  <2>3. Cardinality(Recent(r.user)) < LOCKOUT_THRESHOLD
    <3>1. Cardinality(Recent(r.user)) \in Nat
      BY FiniteFailures DEF Recent, AuthInv
    <3> QED
      BY <1>4, <3>1, Fresh DEF Locked
  <2>4. UNCHANGED <<users, failures, tokens, now>>
    BY <1>2 DEF data, tables
  <2>5. HasAccount(r)' /\ (Cardinality(Recent(r.user)) < LOCKOUT_THRESHOLD)'
    BY <1>2, <2>3, <2>4 DEF HasAccount, Recent, FailuresOf
  <2>6. RequestSound(s, r)'
    BY <2>1, <2>5 DEF RequestSound
  <2> QED
    BY <1>2, <2>2, <2>6, Reading
<1> QED
  BY <1>3, <1>4

\* Sequences whose elements were replaced one for one.
LEMMA MapRows ==
  ASSUME NEW S, NEW s \in Seq(S), NEW t, t = [d \in DOMAIN s |-> t[d]],
         \A d \in DOMAIN s : t[d] \in S
  PROVE  t \in Seq(S) /\ DOMAIN t = DOMAIN s
  OBVIOUS

\* A failure now is in the window of those of now, and those were below the
\* threshold; windows that ended before are what they were.
LEMMA NextRecordFailure ==
  ASSUME OneWorker, AuthInv, NEW w \in Workers, RecordFailure(w)
  PROVE  AuthInv'
<1>1. PICK u, id, row : u = req[w].user /\ id = Len(failures) + 1 /\ row = [user |-> u, at |-> now]
  OBVIOUS
<1>2. u \in Users /\ Cardinality(Recent(u)) < LOCKOUT_THRESHOLD
  BY <1>1 DEF AuthInv, RequestsSound, RequestSound, HasAccount, RecordFailure
<1>3. /\ failures' = Append(failures, row) /\ row \in Failure /\ row # None
      /\ UNCHANGED <<users, challenges, tokens, issued, now, passed, proven>>
      /\ pc' = [pc EXCEPT ![w] = "idle"] /\ req' = [req EXCEPT ![w] = None]
  BY <1>1, <1>2, Fresh DEF RecordFailure, Finish, Continue, Failure, AuthInv, Types
<1>4. /\ id \notin DOMAIN failures /\ DOMAIN failures' = DOMAIN failures \cup {id}
      /\ failures'[id] = row /\ \A k \in DOMAIN failures : failures'[k] = failures[k]
  BY <1>1, <1>3 DEF AuthInv, Types
<1>5. /\ FailuresOf(u)' = FailuresOf(u) \cup {id}
      /\ \A v \in Users \ {u} : FailuresOf(v)' = FailuresOf(v)
  BY <1>1, <1>3, <1>4 DEF FailuresOf
<1>6. id \notin FailuresOf(u) /\ \A v \in Users : FailuresOf(v) \subseteq DOMAIN failures
  BY <1>4 DEF FailuresOf
<1>7. \A v \in Users : \A k \in FailuresOf(v) : failures[k].at \in Nat /\ failures[k].at <= now
  BY DEF AuthInv, FailuresPast
<1>8. row.at = now /\ now \in Nat
  BY <1>1 DEF AuthInv, Types
<1>9. FailuresPast'
  BY <1>3, <1>4, <1>5, <1>6, <1>7, <1>8 DEF FailuresPast
<1>10. Cardinality(Recent(u) \cup {id}) <= LOCKOUT_THRESHOLD
  <2>1. IsFiniteSet(Recent(u)) /\ Cardinality(Recent(u)) \in Nat
    BY FiniteFailures DEF Recent, AuthInv
  <2>2. id \notin Recent(u)
    BY <1>6 DEF Recent
  <2>3. Cardinality(Recent(u) \cup {id}) = Cardinality(Recent(u)) + 1
    BY <2>1, <2>2, FS_AddElement
  <2> QED
    BY <1>2, <2>1, <2>3, Fresh
<1>11. \A k \in FailuresOf(u)' : Cardinality(Window(u, k)') <= LOCKOUT_THRESHOLD
  <2> SUFFICES ASSUME NEW k \in FailuresOf(u)' PROVE Cardinality(Window(u, k)') <= LOCKOUT_THRESHOLD
    OBVIOUS
  <2>1. CASE failures'[k].at = now
    <3>1. Window(u, k)' \subseteq Recent(u) \cup {id}
      <4> SUFFICES ASSUME NEW j \in Window(u, k)' PROVE j \in Recent(u) \cup {id}
        OBVIOUS
      <4>1. j \in FailuresOf(u) \cup {id} /\ failures'[j].at \in now - LOCKOUT_WINDOW .. now
        BY <2>1, <1>5 DEF Window
      <4>2. CASE j \in FailuresOf(u)
        <5>1. failures'[j] = failures[j] /\ failures[j].at \in Nat
          BY <4>2, <1>2, <1>4, <1>6, <1>7
        <5> QED
          BY <4>1, <4>2, <5>1, <1>8, Fresh DEF Recent
      <4> QED
        BY <4>1, <4>2
    <3>2. IsFiniteSet(Recent(u) \cup {id})
      BY FiniteFailures, FS_AddElement DEF Recent, AuthInv
    <3>3. /\ Cardinality(Window(u, k)') <= Cardinality(Recent(u) \cup {id})
          /\ Cardinality(Window(u, k)') \in Nat /\ Cardinality(Recent(u) \cup {id}) \in Nat
      BY <3>1, <3>2, FS_Subset, FS_CardinalityType
    <3> QED
      BY <3>3, <1>10, Fresh
  <2>2. CASE failures'[k].at # now
    <3>1. k \in FailuresOf(u) /\ failures'[k] = failures[k] /\ failures[k].at < now
      BY <2>2, <1>4, <1>5, <1>6, <1>7, <1>8, <1>2
    <3>2. Window(u, k)' = Window(u, k)
      BY <3>1, <1>4, <1>5, <1>6, <1>7, <1>8, <1>2, Fresh DEF Window
    <3> QED
      BY <1>2, <3>1, <3>2 DEF AuthInv, LockoutHolds, Window
  <2> QED
    BY <2>1, <2>2
<1>12. LockoutHolds'
  <2>1. ASSUME NEW v \in Users \ {u}, NEW k \in FailuresOf(v)'
        PROVE  Cardinality(Window(v, k)') <= LOCKOUT_THRESHOLD
    <3>1. k \in FailuresOf(v) /\ Window(v, k)' = Window(v, k)
      BY <1>4, <1>5, <1>6 DEF Window
    <3> QED
      BY <3>1 DEF AuthInv, LockoutHolds, Window
  <2> QED
    BY <1>11, <2>1 DEF LockoutHolds, Window
<1>13. RequestSound("idle", None)'
  BY DEF RequestSound
<1>14. /\ RequestsSound'
       /\ pc' = [v \in Workers |-> pc'[v]] /\ req' = [v \in Workers |-> req'[v]]
  BY <1>3, <1>13, Onward DEF AuthInv
<1>15. Types'
  BY <1>3, <1>14 DEF AuthInv, Types
<1>16. TokensOwned' /\ PassedConsumed' /\ CaptchaOnce' /\ OneSession' /\ MfaProven'
  BY <1>3 DEF AuthInv, TokensOwned, PassedConsumed, CaptchaOnce, OneSession, MfaProven
<1> QED
  BY <1>9, <1>12, <1>14, <1>15, <1>16 DEF AuthInv

LEMMA NextClearFailures ==
  ASSUME OneWorker, AuthInv, NEW w \in Workers, ClearFailures(w)
  PROVE  AuthInv'
<1>1. PICK r : r = req[w]
  OBVIOUS
<1>2. /\ HasAccount(r)
      /\ failures' = [k \in DOMAIN failures |-> IF k \in FailuresOf(r.user) THEN None ELSE failures[k]]
      /\ UNCHANGED <<users, challenges, tokens, issued, now, passed, proven>>
      /\ pc' = [pc EXCEPT ![w] = "revoke"] /\ req' = [req EXCEPT ![w] = r]
  BY <1>1 DEF AuthInv, RequestsSound, RequestSound, ClearFailures, Continue
<1>3. FailuresOf(r.user)' = {} /\ \A v \in Users \ {r.user} : FailuresOf(v)' = FailuresOf(v)
  BY <1>2 DEF FailuresOf
<1>4. \A v \in Users \ {r.user} : \A k \in FailuresOf(v) : failures'[k] = failures[k]
  BY <1>2 DEF FailuresOf
<1>5. FailuresPast'
  BY <1>2, <1>3, <1>4 DEF AuthInv, FailuresPast
<1>6. LockoutHolds'
  <2>1. ASSUME NEW v \in Users \ {r.user}, NEW k \in FailuresOf(v)
        PROVE  Cardinality(Window(v, k)') <= LOCKOUT_THRESHOLD
    <3>1. Window(v, k)' = Window(v, k)
      BY <1>3, <1>4 DEF Window
    <3> QED
      BY <3>1 DEF AuthInv, LockoutHolds, Window
  <2> QED
    BY <1>3, <2>1 DEF LockoutHolds, Window
<1>7. RequestSound("revoke", r)'
  BY <1>2 DEF RequestSound, HasAccount
<1>8. /\ RequestsSound'
      /\ pc' = [v \in Workers |-> pc'[v]] /\ req' = [v \in Workers |-> req'[v]]
  BY <1>2, <1>7, Onward DEF AuthInv
<1>9. failures' \in Seq(Failure \cup {None})
  <2>1. failures \in Seq(Failure \cup {None})
    BY DEF AuthInv, Types
  <2>2. failures' = [k \in DOMAIN failures |-> failures'[k]]
    BY <1>2
  <2>3. \A k \in DOMAIN failures : failures'[k] \in Failure \cup {None}
    BY <1>2, <2>1
  <2> QED
    BY <2>1, <2>2, <2>3, MapRows
<1>10. Types'
  BY <1>2, <1>8, <1>9 DEF AuthInv, Types
<1>11. TokensOwned' /\ PassedConsumed' /\ CaptchaOnce' /\ OneSession' /\ MfaProven'
  BY <1>2 DEF AuthInv, TokensOwned, PassedConsumed, CaptchaOnce, OneSession, MfaProven
<1> QED
  BY <1>5, <1>6, <1>8, <1>10, <1>11 DEF AuthInv

\* Other tokens by the one process, which goes on to step s with r.
LEMMA TokensSet ==
  ASSUME OneWorker, AuthInv, NEW w \in Workers,
         tokens' \subseteq Token, TokensOwned', OneSession', issued' \in Nat,
         UNCHANGED <<users, challenges, failures, now, passed, proven>>,
         NEW s, NEW r, pc' = [pc EXCEPT ![w] = s], req' = [req EXCEPT ![w] = r], RequestSound(s, r)'
  PROVE  AuthInv'
<1>1. /\ RequestsSound'
      /\ pc' = [v \in Workers |-> pc'[v]] /\ req' = [v \in Workers |-> req'[v]]
  BY Onward DEF AuthInv
<1>2. Types'
  BY <1>1 DEF AuthInv, Types
<1>3. FailuresPast' /\ LockoutHolds' /\ PassedConsumed' /\ CaptchaOnce' /\ MfaProven'
  BY DEF AuthInv, FailuresPast, LockoutHolds, FailuresOf, PassedConsumed, CaptchaOnce, MfaProven
<1> QED
  BY <1>1, <1>2, <1>3 DEF AuthInv

\* Fewer tokens.
LEMMA TokensFewer ==
  ASSUME AuthInv, tokens' \subseteq tokens, users' = users
  PROVE  tokens' \subseteq Token /\ TokensOwned' /\ OneSession'
  BY DEF AuthInv, Types, TokensOwned, OneSession

LEMMA NextDeleteTokens ==
  ASSUME OneWorker, AuthInv, NEW w \in Workers, DeleteTokens(w)
  PROVE  AuthInv'
<1>1. PICK u, r : u = req[w].user /\ r = [user |-> u, expires |-> now + TOKEN_LIFETIME]
  OBVIOUS
<1>2. r.user = u /\ r.expires \in Nat
  BY <1>1, Fresh DEF AuthInv, Types
<1>3. /\ u \in Users /\ users[u] # None /\ tokens' = Others(u) /\ issued' \in Nat
      /\ UNCHANGED <<users, challenges, failures, now, passed, proven>>
      /\ pc' = [pc EXCEPT ![w] = "issue"] /\ req' = [req EXCEPT ![w] = r]
  BY <1>1 DEF AuthInv, Types, RequestsSound, RequestSound, HasAccount, DeleteTokens, Continue
<1>4. tokens' \subseteq tokens /\ \A t \in tokens' : t.user # u
  BY <1>3 DEF Others
<1>5. RequestSound("issue", r)'
  BY <1>2, <1>3, <1>4 DEF RequestSound, HasAccount
<1> QED
  BY <1>3, <1>4, <1>5, TokensFewer, TokensSet

LEMMA NextIssueToken ==
  ASSUME OneWorker, AuthInv, NEW w \in Workers, IssueToken(w)
  PROVE  AuthInv'
<1>1. PICK r, t : r = req[w] /\ t = [user |-> r.user, number |-> issued', expires |-> r.expires]
  OBVIOUS
<1>2. /\ HasAccount(r) /\ r.expires \in Nat /\ \A o \in tokens : o.user # r.user
      /\ issued' \in Nat /\ tokens' = tokens \cup {t}
      /\ UNCHANGED <<users, challenges, failures, now, passed, proven>>
      /\ pc' = [pc EXCEPT ![w] = "idle"] /\ req' = [req EXCEPT ![w] = None]
  BY <1>1 DEF AuthInv, Types, RequestsSound, RequestSound, IssueToken, Finish, Continue
<1>3. t \in Token /\ t.user = r.user
  BY <1>1, <1>2 DEF Token, HasAccount
<1>4. tokens' \subseteq Token /\ TokensOwned' /\ OneSession'
  BY <1>2, <1>3 DEF AuthInv, Types, TokensOwned, OneSession, HasAccount
<1>5. RequestSound("idle", None)'
  BY DEF RequestSound
<1> QED
  BY <1>2, <1>4, <1>5, TokensSet

LEMMA NextLogout ==
  ASSUME OneWorker, AuthInv, NEW w \in Workers, NEW t, AskLogout(w, t) \/ Logout(w)
  PROVE  AuthInv'
<1>1. CASE AskLogout(w, t)
  <2>1. RequestSound("logout", t)'
    BY DEF RequestSound
  <2>2. UNCHANGED data /\ pc' = [pc EXCEPT ![w] = "logout"] /\ req' = [req EXCEPT ![w] = t]
    BY <1>1 DEF AskLogout, Begin, data
  <2> QED
    BY <2>1, <2>2, Reading
<1>2. CASE Logout(w)
  <2>1. /\ tokens' \subseteq tokens /\ issued' \in Nat
        /\ UNCHANGED <<users, challenges, failures, now, passed, proven>>
        /\ pc' = [pc EXCEPT ![w] = "idle"] /\ req' = [req EXCEPT ![w] = None]
    BY <1>2 DEF Logout, Finish, Continue, AuthInv, Types
  <2>2. RequestSound("idle", None)'
    BY DEF RequestSound
  <2> QED
    BY <2>1, <2>2, TokensFewer, TokensSet
<1> QED
  BY <1>1, <1>2

-----------------------------------------------------------------------------
(* The second factor *)

LEMMA NextAskEnroll ==
  ASSUME OneWorker, AuthInv, NEW w \in Workers, NEW t \in tokens, NEW s \in Secrets, AskEnroll(w, t, s)
  PROVE  AuthInv'
<1>1. PICK r : r = [user |-> t.user, secret |-> s]
  OBVIOUS
<1>2. r.user = t.user /\ r.secret = s
  BY <1>1
<1>3. UNCHANGED data /\ pc' = [pc EXCEPT ![w] = "enroll"] /\ req' = [req EXCEPT ![w] = r]
  BY <1>1 DEF AskEnroll, Begin, data
<1>4. t.user \in Users /\ users[t.user] # None /\ ~users[t.user].mfa
  BY DEF AuthInv, Types, Token, TokensOwned, AskEnroll, MayEnroll
<1>5. RequestSound("enroll", r)'
  BY <1>2, <1>3, <1>4 DEF RequestSound, HasAccount, data, tables
<1> QED
  BY <1>3, <1>5, Reading

LEMMA NextEnroll ==
  ASSUME OneWorker, AuthInv, NEW w \in Workers, Enroll(w)
  PROVE  AuthInv'
<1>1. PICK u, s : u = req[w].user /\ s = req[w].secret
  OBVIOUS
<1>2. u \in Users /\ users[u] # None /\ ~users[u].mfa /\ s \in Secrets
  BY <1>1 DEF AuthInv, RequestsSound, RequestSound, HasAccount, Enroll
<1>3. PICK a, p : a = [users[u] EXCEPT !.secret = s] /\ p = proven[u]
  OBVIOUS
<1>4. a \in Account /\ ~a.mfa /\ p \in Secrets \cup {None}
  <2>1. users[u] \in Account
    BY <1>2 DEF AuthInv, Types
  <2> QED
    BY <1>2, <1>3, <2>1, AccountWith DEF AuthInv, Types
<1>5. /\ users' = [users EXCEPT ![u] = a] /\ proven' = [proven EXCEPT ![u] = p]
      /\ UNCHANGED <<challenges, failures, tokens, issued, now, passed>>
      /\ pc' = [pc EXCEPT ![w] = "idle"] /\ req' = [req EXCEPT ![w] = None]
  BY <1>1, <1>3 DEF Enroll, Finish, Continue, AuthInv, Types
<1>6. RequestSound("idle", None)'
  BY DEF RequestSound
<1> QED
  BY <1>2, <1>4, <1>5, <1>6, AccountSet

LEMMA NextAskVerify ==
  ASSUME OneWorker, AuthInv, NEW w \in Workers, NEW t \in tokens, NEW code \in Secrets,
         AskVerify(w, t, code)
  PROVE  AuthInv'
<1>1. PICK r : r = [user |-> t.user, code |-> code]
  OBVIOUS
<1>2. r.user = t.user /\ r.code = code
  BY <1>1
<1>3. UNCHANGED data /\ pc' = [pc EXCEPT ![w] = "verify"] /\ req' = [req EXCEPT ![w] = r]
  BY <1>1 DEF AskVerify, Begin, data
<1>4. t.user \in Users /\ users[t.user] # None
  BY DEF AuthInv, Types, Token, TokensOwned
<1>5. RequestSound("verify", r)'
  BY <1>2, <1>3, <1>4 DEF RequestSound, HasAccount, data, tables
<1> QED
  BY <1>3, <1>5, Reading

LEMMA NextCheckCode ==
  ASSUME OneWorker, AuthInv, NEW w \in Workers, CheckCode(w)
  PROVE  AuthInv'
<1>1. PICK r : r = req[w]
  OBVIOUS
<1>2. HasAccount(r) /\ r.code \in Secrets /\ UNCHANGED data
  BY <1>1 DEF AuthInv, RequestsSound, RequestSound, CheckCode, data
<1>3. CASE users[r.user].secret = r.code
  <2>1. pc' = [pc EXCEPT ![w] = "enable"] /\ req' = [req EXCEPT ![w] = r]
    BY <1>1, <1>3 DEF CheckCode, Continue
  <2>2. RequestSound("enable", r)'
    BY <1>2, <1>3 DEF RequestSound, HasAccount, data, tables
  <2> QED
    BY <1>2, <2>1, <2>2, Reading
<1>4. CASE users[r.user].secret # r.code
  BY <1>1, <1>2, <1>4, Giving DEF CheckCode, Finish, Continue
<1> QED
  BY <1>3, <1>4

\* The secret is still the one that the code was of.
LEMMA NextEnableMfa ==
  ASSUME OneWorker, AuthInv, NEW w \in Workers, EnableMfa(w)
  PROVE  AuthInv'
<1>1. PICK u, code : u = req[w].user /\ code = req[w].code
  OBVIOUS
<1>2. u \in Users /\ users[u] # None /\ users[u].secret = code /\ code \in Secrets
  BY <1>1 DEF AuthInv, RequestsSound, RequestSound, HasAccount, EnableMfa
<1>3. PICK a : a = [users[u] EXCEPT !.mfa = TRUE]
  OBVIOUS
<1>4. a \in Account /\ a.secret = code /\ code # None
  <2>1. users[u] \in Account
    BY <1>2 DEF AuthInv, Types
  <2> QED
    BY <1>2, <1>3, <2>1, AccountWith, Fresh
<1>5. /\ users' = [users EXCEPT ![u] = a] /\ proven' = [proven EXCEPT ![u] = code]
      /\ UNCHANGED <<challenges, failures, tokens, issued, now, passed>>
      /\ pc' = [pc EXCEPT ![w] = "idle"] /\ req' = [req EXCEPT ![w] = None]
  BY <1>1, <1>3 DEF EnableMfa, Finish, Continue
<1>6. RequestSound("idle", None)'
  BY DEF RequestSound
<1> QED
  BY <1>2, <1>4, <1>5, <1>6, AccountSet

-----------------------------------------------------------------------------
(* The theorems *)

LEMMA NextEnd ==
  ASSUME OneWorker, AuthInv, NEW w \in Workers, End(w)
  PROVE  AuthInv'
<1>1. UNCHANGED data
  BY DEF End, data
<1>2. CASE Pass(w)
  BY <1>1, <1>2, DataKept DEF Pass, process, AuthInv, Types, RequestsSound, RequestSound,
     HasAccount, Recent, FailuresOf, data, tables
<1>3. CASE WriteAudit(w) \/ Crash(w)
  BY <1>1, <1>3, Giving DEF WriteAudit, Crash
<1> QED
  BY <1>2, <1>3 DEF End

LEMMA AuthStep ==
  ASSUME OneWorker, AuthInv, [Next]_vars
  PROVE  AuthInv'
<1>1. CASE Tick
  BY <1>1, NextTick
<1>2. ASSUME NEW w \in Workers, NEW c \in DOMAIN challenges, NEW u \in Users, NEW right, NEW code,
             AskLogin(w, c, u, right, code)
      PROVE  AuthInv'
  BY <1>2, NextAskLogin
<1>3. ASSUME NEW w \in Workers, NEW c \in DOMAIN challenges, NEW u \in Users,
             NEW role \in Role, NEW level \in Level, AskRegister(w, c, u, role, level)
      PROVE  AuthInv'
  BY <1>3, NextAskRegister
<1>4. ASSUME NEW w \in Workers, NEW t \in tokens, NEW u \in Users,
             NEW role \in Role, NEW level \in Level, AskCreateUser(w, t, u, role, level)
      PROVE  AuthInv'
  BY <1>4, NextAskCreateUser
<1>5. ASSUME NEW w \in Workers, NEW t \in tokens, AskLogout(w, t) PROVE AuthInv'
  BY <1>5, NextLogout
<1>6. ASSUME NEW w \in Workers, NEW t \in tokens, NEW s \in Secrets,
             AskEnroll(w, t, s) \/ AskVerify(w, t, s)
      PROVE  AuthInv'
  BY <1>6, NextAskEnroll, NextAskVerify
<1>7. ASSUME NEW w \in Workers,
             Generate(w) \/ Consume(w) \/ CheckRegistration(w) \/ InsertUser(w) \/ FindUser(w) \/ CheckLogin(w)
      PROVE  AuthInv'
  BY <1>7, NextGenerate, NextConsume, NextCheckRegistration, NextInsertUser, NextFindUser, NextCheckLogin
<1>8. ASSUME NEW w \in Workers,
             RecordFailure(w) \/ ClearFailures(w) \/ DeleteTokens(w) \/ IssueToken(w) \/ Logout(w)
      PROVE  AuthInv'
  BY <1>8, NextRecordFailure, NextClearFailures, NextDeleteTokens, NextIssueToken, NextLogout
<1>9. ASSUME NEW w \in Workers, Enroll(w) \/ CheckCode(w) \/ EnableMfa(w) \/ End(w) PROVE AuthInv'
  BY <1>9, NextEnroll, NextCheckCode, NextEnableMfa, NextEnd
<1>10. CASE UNCHANGED vars
  <2>1. UNCHANGED data /\ pc' = pc /\ req' = req
    BY <1>10 DEF vars, data, process, tables
  <2>2. RequestsSound'
    BY <2>1 DEF AuthInv, RequestsSound, RequestSound, HasAccount, Recent, FailuresOf, data, tables
  <2> QED
    BY <2>1, <2>2, DataKept DEF AuthInv, Types
<1> QED
  BY <1>1, <1>2, <1>3, <1>4, <1>5, <1>6, <1>7, <1>8, <1>9, <1>10 DEF Next

LEMMA AuthAlways ==
  ASSUME OneWorker
  PROVE  Spec => []AuthInv
<1>1. AuthInv /\ [Next]_vars => AuthInv'
  BY AuthStep
<1> QED
  BY <1>1, AuthInit, PTL DEF Spec

\* A captcha lets one request through, whatever dies between its SELECT and the
\* statement that crosses it off.
THEOREM CaptchasWorkOnce ==
  ASSUME OneWorker
  PROVE  Spec => []CaptchaOnce
<1>1. AuthInv => CaptchaOnce
  BY DEF AuthInv
<1> QED
  BY <1>1, AuthAlways, PTL

\* The rolling lockout holds for every threshold and every window, whatever
\* clock steps come between the count and the row that it allows.
THEOREM GuessesAreBounded ==
  ASSUME OneWorker
  PROVE  Spec => []LockoutHolds
<1>1. AuthInv => LockoutHolds
  BY DEF AuthInv
<1> QED
  BY <1>1, AuthAlways, PTL

\* No user has two sessions: a login that dies between DELETE and INSERT leaves none.
THEOREM SessionsAreSingle ==
  ASSUME OneWorker
  PROVE  Spec => []OneSession
<1>1. AuthInv => OneSession
  BY DEF AuthInv
<1> QED
  BY <1>1, AuthAlways, PTL

\* A second factor is asked for only if its owner has shown a code of the very
\* secret that his row has.
THEOREM FactorsAreProven ==
  ASSUME OneWorker
  PROVE  Spec => []MfaProven
<1>1. AuthInv => MfaProven
  BY DEF AuthInv
<1> QED
  BY <1>1, AuthAlways, PTL
=============================================================================
