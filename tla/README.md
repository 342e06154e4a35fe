# Verification of the Rural Land Lease & Settlement Management Portal

TLA+ modules, TLC runs and TLAPS proofs for the portal's server (ThinkPHP 6 on
PHP 8.2, MySQL 8 InnoDB at REPEATABLE READ, every clock in UTC) and for its
browser client (plain scripts below `public/static/js`). Paths below are relative to `src/repo/` unless they start with `src/`.

Deployment, as `docker-entrypoint.sh` builds it: `php tools/scheduler.php &`
loops `JobService::runAll` for ever (every 900 s by default, never less than 60,
catching every Throwable), and `exec php -S` serves the API with *one*
single-threaded process. `POST /admin/jobs/run` runs the same jobs inside the API
process, so jobs can overlap each other and every request. Behind a
multi-process server the same code would also race with itself; where it
matters the modules take the set of API processes as a constant.

Only `PaymentService::post` and `EntityService::merge` open a transaction.
Everything else is a chain of autocommitted statements, and most handlers
read a row, check it, and then write it with `WHERE id = ?` alone. That, the
files beside the database, and processes that die between two statements are
where the server is hard to get right.

The client is event driven: a click sends a request and goes on, the reply's callback runs
whenever it comes, in any order with others, and finds whatever the user has opened, typed
or left meanwhile. Tabs share one local storage. That no reply is awaited, cancelled, numbered
or tried again is where the client is hard to get right.

## Inventory

| Component (code) | State | Operations | Hard part | What makes it correct |
|---|---|---|---|---|
| Payments (`PaymentService`) | `payments`, `payment_idempotency` | `post`, `getReceipt`, balance | reserve-then-pay per Idempotency-Key, InnoDB gap locks, snapshot reads, audit after COMMIT | a key pays once, every answer is that payment's, settled only when covered |
| Refunds (`RefundService`) | `refunds` | `create` | moves the balance of a settled invoice | enters every later balance |
| Invoices (`InvoiceService`) | `invoices`, `invoice_snapshots` | `transition`, `markOverdue`, `updateLateFees`, `createSnapshot` | read-check-write without a condition, job beside payments | state machine, a snapshot of every settlement |
| Late fees (`LateFeeService`) | none | `calculate` | grace boundary, rounding, cap | never ahead of the exact accrual |
| Scheduler and jobs (`JobService`, `tools/scheduler.php`) | none of its own | `runAll` = markOverdue, expireDelegations, cleanRetention | overlapping runs, one failing step ends the run | every job is done in the end |
| Delegations (`DelegationService`) | `delegations` | `create`, `approve`/reject, `expireDelegations` | two decisions at once, expiry not yet marked | two people, 30 days, final decisions |
| Scope (`ScopeService`) | area tree, active delegations | `getVisibleAreaIds`, `canAccess`, `applyScope` | an expired delegation still marked active | nobody sees beyond own and delegated areas |
| Messaging (`MessagingService`) | `conversations`, `messages`, `attachments`, `message_reports`, files | send, read, recall, report, retention | database and files are written separately; a path shared by equal attachments | 10-minute recall, retained messages keep their files |
| Risk rules (`RiskService`) | `risk_rules` | `check`, admin edits | order of the rules decides | a blocked body is never stored |
| Verification (`VerificationService`) | `verification_requests`, `verification_decisions` | submit, approve, reject | status and decision row are two statements | one decision per request |
| Authentication (`AuthService`, `TokenService`) | `users`, `user_tokens`, `auth_failures` | register, login, logout | rolling window, count-then-insert | lockout after five failures |
| Captcha (`CaptchaService`) | `captcha_challenges` | generate, verifyAndConsume | read then mark | one answer per challenge |
| MFA (`MfaService`) | secret and flag of a user | enroll, verify | an enrolment that is begun again | the secret a login asks for is the one its owner has shown a code of |
| Profiles and merge (`EntityService`) | `entity_profiles`, `profile_merge_history` | create, update, merge | reads before its transaction, chains of merges | the history explains what a profile has |
| Duplicates (`DuplicateService`) | `duplicate_flags` | flagDuplicates | flags of both directions | each pair is flagged once |
| Contracts (`ContractService`) | `contracts`, first `invoices` | create, schedule | many statements, no transaction | periods tile the term |
| Audit (`AuditService`) | `audit_logs` | log | last statement of each handler | an append-only record |
| Exports (`ExportService`) | none | CSV, XLSX | formats | - |
| Encryption, passwords | none | encrypt, hash, validate | library calls | - |
| Request plumbing (middleware, `ExceptionHandle`) | per request | trace id, JSON errors | - | - |
| Administration, health | `admin_config` | config, jobs/run | any value is accepted | - |
| Client: sign-in (`api-client.js`, `auth.js`, `app.js`) | token and user in the local storage, a document per tab | captcha, login, register, gate and redirects, user panel, sign-out, MFA | tabs that share a storage, overlapping loads of a challenge, pages left with calls under way | token and user belong together, the challenge sent is the one read, sessions end on both sides |
| Client: sections (`entities.js`, `messaging.js`, `finance.js`, `admin.js`, `app.js`) | what is shown, open, typed, disabled | lists, forms, links, dialogs | replies out of order, dialogs that stack, answers that are lost; every click makes a new Idempotency-Key | what is shown is so, what is done was shown, nothing is done twice or stuck |
| Browser tests (`vitest.config.js`) | - | - | - | - |
| Migrations | schema | run once | - | UNIQUE and foreign keys the modules use |

How they meet: payments read and write the invoices that the overdue job
writes; refunds change what payments compute; scope decides which invoices a
payer reaches and is fed by delegations; `runAll` runs three jobs one after the
other, over the tables of invoices, delegations and messages; audit is called
last by every handler that writes. The client calls the server only: its tabs meet in the local
storage and in the server's sessions and challenges, its sections in the document.

PROJECT.json lists, per line of code, what can go wrong (`hazards`) and which
property would catch it.

## Modules

| Module | Models | Kind |
|---|---|---|
| `LateFee` | `LateFeeService::calculate` | operators |
| `PayOnce` | what POST /payments promises | abstract specification |
| `Billing` | `PaymentService`, `RefundService`, `InvoiceService`, the invoice part of `JobService` | state machine |
| `Scope` | `ScopeService`: the areas an account and its delegations reach | operators |
| `DecideOnce` | what an approval workflow promises | abstract specification |
| `Delegation` | `DelegationService`, `ScopeService::canAccess`, `JobService::expireDelegations` | state machine |
| `Messaging` | `MessagingService`, `RiskService::check`, `JobService::cleanRetention`, the retention part of `Admin::updateConfig` | state machine |
| `Requests` | what the registers and `Auth` share: API processes, their requests, the audit log | part of a state machine |
| `Verification` | `VerificationService` | part of `Registry` |
| `Profiles` | `EntityService` create, update, merge; `DuplicateService` | part of `Registry` |
| `Contracts` | `ContractService::create` with its schedule | part of `Registry` |
| `Registry` | the three of them behind the same API processes | state machine, composition |
| `Auth` | `AuthService`, `TokenService`, `CaptchaService`, the enrolment of MFA | state machine |
| `ApiClient` | `api-client.js`: requests under way, replies in any order, lost ones | part of state machines |
| `Session` | `auth.js`, the gate, user panel, sign-out and MFA of `app.js`, in several tabs | state machine |
| `Page` | what the sections share: lists, submit buttons, the server's tables behind them | part of `Portal` |
| `EntitiesPage`, `MessagingPage`, `FinancePage`, `AdminPage` | `entities.js`, `messaging.js`, `finance.js`, `admin.js` with the health checks of `app.js` | parts of `Portal` |
| `Portal` | the sections in one page | state machine, composition |
| `MCBilling`, `MCDelegation`, `MCMessaging`, `MCRegistry`, `MCAuth`, `MCSession`, `MCPortal` | values for TLC | models |
| `Billing_proofs`, `Settlement_proofs`, `Delegation_proofs`, `Messaging_proofs`, `Registry_proofs`, `Auth_proofs`, `Session_proofs`, `Portal_proofs` | theorems | proofs |

`Billing` and `Delegation` extend the operator modules `LateFee` and `Scope`; `Billing` and
`Delegation` are shown to implement `PayOnce` and `DecideOnce` through an `INSTANCE ... WITH`.
`Registry` composes `Verification`, `Profiles` and `Contracts`, which extend `Requests` and share its
processes and its audit log; a contract needs a profile. `Portal` composes the four files of
sections, which extend `Page`, over the calls of `ApiClient`, that `Session` extends too. The five state
machines of the server share no other table than `audit_logs` and what `Contracts` leaves to `Billing`. What one takes from another is
a constant: the invoices a payer may see (`Visible`) and the members of a conversation
(`Members`) stand for the answer of `ScopeService::canAccess`, which `Delegation` models.
A definition whose comment begins with "Variant" is a plausible slip of the code; it is kept to
show that the property which guards against it notices it, and nothing else uses it.

### Billing

*State.* `invoice`, `snapshots`, `payments`, `idem`, `paid` and `refunded` (the two
SUMs the code computes) and `audited` are the committed tables. An open transaction is kept in
its process: `pc[w]` is the statement it comes to next, `req[w]` the request and the
time of its reservation, `view[w]` what InnoDB's consistent read froze at
its first plain SELECT. Its writes appear together at COMMIT. `job[a]` is what a run
of `markOverdue`/`updateLateFees` holds in PHP variables between
two statements: the list it read, the invoice it is at and the version it
read. `receipts` are the 201 answers clients got.

*Actions of a payment*, in the order of `PaymentService::post`: `Receive` (the cutoff
is computed from `time()` before anything else), `ReplayStored`/`MissStored`
(`SELECT ... FOR UPDATE` in the window), `Reserve`/`ReserveFails` (the
INSERT of the placeholder; it fails on the UNIQUE key or as the victim of crossed gap
locks), `ReplayRival`/`RefuseConcurrent` (the catch block), `ReadInvoice`/`RefusePayment`
(404, 403, 409), `InsertPayment` (takes the shared foreign key lock on the
invoice), `CommitPartial`/`CommitSettling` (transition, snapshot, stored
response, COMMIT) or `SettleDeadlock`, and `AuditPayment`/`AuditFails` after the
COMMIT. `Crash` rolls back what is not committed and drops the answer.

*Actions of the job:* `StartJobs` (the list of unpaid invoices past their date),
`PickInvoice` (`transition` reads the row again), `MarkOverdue` (UPDATE by id),
`CreateSnapshot`, `ChargeInitialFee`, `ListOverdue`, `RefreshFee`, `EndJobs`, and
`JobDeadlock` for the statement that InnoDB gives up. Each is one SQL statement.

*Left out:* what only formats an answer; authentication; the contents of receipts and audit
rows; the check of the amount (inputs are positive) and of the method.

### PayOnce

A ledger with no clock, process or window: a key that has paid nothing may
post one entry, fresh in its id, and add exactly its amount to what the invoice
collected; an acknowledgement names an entry that exists. `Billing!PaysOnce` is
this specification under the mapping `posted` := the payments of a key,
`collected` := `paid`, `acknowledged` := the keys and payment ids of the 201 answers.

### Delegation, Scope and DecideOnce

*State.* `delegations` and `audit` are `access_delegations` and its rows of `audit_logs`;
the index of a row is its id. `visits` remembers which user was let into which area when: the code
keeps no such record, but every handler of the portal asks `canAccess` this question.
`pc[w]` and `req[w]` are the statement an API process comes to next and the PHP variables it holds.

*Actions.* `AskGrant` is everything `create` checks, with the clock it reads;
`InsertDelegation` comes later and has the database's clock. `AskDecision` is
the SELECT of `approve` and its checks, `Decide` its UPDATE by id, whatever the
row has become; `WriteAudit` is the last statement of both. `AllowCounty`/`LookFurther` is the first query
of `canAccess`, `CheckAreas` the second, with a later clock. `ExpireDelegations` is
one UPDATE, by the scheduler or by `POST /admin/jobs/run`. `Crash` loses a process
anywhere between two statements.

*Left out:* requests refused before their first write, `list`, the reason of a decision. A row whose user has no area
or an area that does not exist is excluded by the checks of `create` and the foreign keys. The value
`max_delegation_days` of `admin_config` is read by no code: the cap is the constant of the class.

*DecideOnce* opens cases and gives each at most one verdict by one judge. The mapping takes
`pending_approval` for open, `revoked` for no, and `active` or `expired` for yes: running out is not a second decision.

### Messaging

*State.* `messages`, `attachments`, `reports` (the ids in `message_reports`) and `retention` are tables,
`disk` is the set of files below `storage/uploads`. The path of a file is made of the
checksum and the name, so `Files` stands for a name together with its bytes. `pc` and
`req` belong to every process, the scheduler included.

*Actions.* Of `sendMessage`: `AskSend` (scope and risk), `WriteFile`, `InsertAttachment`, `InsertMessage`.
Of `recall`: `AskRecall` (sender, window, not recalled), `Wipe`, `Unlink`. Of `getMessages`: `AskMessages`
(the list it read), `MarkRead`. Of `report`: `AskReport`, `InsertReport`. Of the job:
`ReadRetention`, then `DeleteOld`, or `DeleteFails` if the foreign key of
`message_reports` forbids it; it is the last job of `runAll`, so its failure
costs no other. `UpdateConfig` changes the retention period. Risk rules are a sequence in
the order of their ids; the first one that matches decides, though it may be milder than a later one.

*Left out:* the paging of a list, encryption, type and size checks, readers of attachments,
the audit row of a report, and `createConversation`.

### Requests, Verification, Profiles, Contracts and Registry

*State.* `pc[w]` and `req[w]` as in `Delegation`; `trail` is `audit_logs`. `applications` and `decisions`
are `verification_requests` and `verification_decisions`; `profiles`, `flags` and `merges` are
`entity_profiles`, `duplicate_flags` and `profile_merge_history`, a merge with the two pictures its
`diff_json` holds; `contracts`, `invoices` and `snapshots` are what `ContractService` writes. The
index of a row is its id. A date is a month and a day, with the months' lengths as a constant.

*Actions.* One per statement that writes, with the reads before it. `Submit`; `AskReview` (validateTransition),
`SetStatus`, `RecordDecision`. `CreateProfile`, or `AskUpdate` and `UpdateProfile`, then
`FindMatches`, and for each match `NextMatch` (the query of `flagDuplicates`) and
`InsertFlag`, then `EndFlags`; update looks for matches of the row *it read* with the request
on top. `AskMerge` is everything `merge` reads before its transaction, `CommitMerge` the transaction.
`CreateContract`, then per period `AddPeriod` and `SnapshotPeriod`, then `EndSchedule`, `AddDeposit`,
`SnapshotDeposit`. `WriteAudit` is the last statement of those that have one, `Crash` a process that dies or a
statement that fails, `Pass` a request that only reads or is refused before it writes.

*Left out:* evidence, reasons, extra fields of a profile, amounts, scope. `display_name` and `address` are
one name.

### Auth

*State.* `users`, `challenges`, `failures`, `tokens` are the tables; a failure that a login has cleared keeps its
place without an account (`FailuresOf` counts the rows that there are). An account is its role, the level of its scope,
and its second factor. `passed` (challenges that let a request through) and `proven` (the
secret of which a user last showed a code) are history. A code belongs to a secret, so it
is the secret; the password of a request is right or not.

*Actions.* `Generate`; `AskLogin`/`AskRegister` (the reading half of `verifyAndConsume`) and `Consume` (the
writing half); `CheckRegistration`, `InsertUser`; `FindUser`, `CheckLogin` (lockout, password, second factor,
in that order, all on the row that `FindUser` read), `RecordFailure`, or `ClearFailures`, `DeleteTokens`,
`IssueToken`; `AskCreateUser`, `AskLogout`, `AskEnroll`, `AskVerify` (what `AuthCheck` lets through),
`Logout`, `Enroll`, `CheckCode`, `EnableMfa`.

*Left out:* the computation of codes and hashes, two of the four roles (they may do what `farmer` may), the status of a
user (no code changes it), `cleanup` and `revokeAll` of tokens and `cleanup` of challenges, which no code calls, a wrong answer to a captcha.

### ApiClient and Session

*State.* `calls` are the requests whose callback has not run, numbered by `sent`, each with its reply
once there is one. `store` is the local storage, `doc[t]` the document of a tab: a form with its
challenge, the question it shows and the answer typed for it, the portal with its panel, or `leaving`, an address that
was set but not loaded. A challenge is numbered like the call that fetched it, a token like its
login. Of the server, `live` (tokens), `factor`, `secret`, and `used` (challenges) are what `Auth` models in full; here
one request is one step of it. `signups` and `signedOut` are history.

*Actions.* Of the user: `Open` (address, reload), `Refresh` and `TypeAnswer` of the captcha, `SubmitLogin`,
`SubmitRegister`, `Logout`, `OpenMfa`, `Enroll`, `Verify`. One callback per call: `ShowCaptcha`, `LoggedIn`,
`Registered`, `ShowUser` (of `/auth/me`: the only one that looks for a 401), `LoggedOut`, `ShowMfa`, `Enrolled`, `Verified`.
Of the browser: `ArriveOnPortal` (the gate and the role in the address) and `Redirect` (1.5 s after a registration). `NetworkError`
loses a request or an answer, `Expire` ends a session behind the browser's back. Abandoned calls that would
change something may still be served, or never be; their callbacks are gone. A request that cannot do what it should, such as a
sign-out whose DELETE fails and leaves the session alive, is not modelled: the page goes to the sign-in all the same.

*Assumed.* A callback is atomic. Setting `location.href` ends the old document at once. A form page, which
reads nothing of the storage, loads in one step. *Left out:* wording of errors, the rules for passwords, the drawing of the panel.

### Page, EntitiesPage, MessagingPage, FinancePage, AdminPage and Portal

*State.* A server's table is the number of changes made to it (`made`); what a list shows is that
number when it was read, with the load it came from and whether a change was announced since (`list`). `busy` are the disabled
buttons. `known` (the changes the page has reported, of the tables that a list shows) and `tries` (how often a thing that
the user submits a form for was done, and how often of these the page could not say so) are history.
`dialogs` and `receipts` are the layers in the order of the document, a merge dialog with the
listeners its button has; `form` and `defs` are the fields of a new profile; `conv`, `input`, `banner`, `reporting`, `ruleForm` the
state of messaging.

*Actions.* For each form, link and button the click (`Submit` disables the button, `Ask` does not) and the callback
(`Reload` loads the list again, `Announce` reports a change and does not, `Tell` has no change to report); `Navigate` for the
menu and the refresh buttons. The server takes a request (`Serve`), refuses it (`Refuse`), or makes the change and then fails
in a later step, which is an error too (`FailLate`: a payment is committed and its audit row fails, `PaymentService.php:137-157`;
contracts, profiles, delegations and decisions are written like that as well). The network loses a request or an answer
(`Lose`). Of their own shape are `SelectType`/`ShowFields`, `OpenMerge`/`LoadPair`/`ShowMerge`/`ExecuteMerge`/`Merged`,
`Send`/`SubmitMessage`/`FileRead`/`Sent`, `ScanFailed`, `ShowReceipt`/`PrintReceipt`.

*Areas.* A behaviour stays in one area (`Menu`): the sections share nothing but the document,
so that steps of different ones only interleave. The section of profiles is looked at twice, its form
in `profiles` and its dialogs in `merging`.

*Left out:* drawing; the check that evidence was chosen; choices that the user
makes by hand in a merge dialog (all fields begin chosen); the pair of profiles is loaded as one call; rules
do not change between a check and a send; dialogs of confirmation are part of the click.

## Runs

| Run | Question | Bounds |
|---|---|---|
| `billing_shipped` | every safety property, as deployed | one API process, scheduler and admin runs, 2 keys, 1 invoice, amounts below and equal to the debt, 2 requests, 1 refund, 1 fault, days 0 to 3, grace of a day, a cap that is reached |
| `billing_two_workers` | races of API processes: refinement of `PayOnce`, no request waits for ever | two API processes, 2 keys, one visible and one hidden invoice, 2 requests, midnight once |
| `billing_live` | overdue invoices are noticed, fees settle | one invoice, scheduler and admin runs, 2 requests, 1 fault, days 0 to 2 |
| `delegation` | access, audit, expiry and refinement of `DecideOnce` | one API process, scheduler and admin runs, 3 administrators, 4 areas in 3 levels, 4 requests, 1 fault, a cap of 1 and times 0 to 2, so that a delegation may be too long, lapse while pending or lapse in use |
| `messaging` | every property of messages, files, reports and retention | one API process, scheduler and admin runs, 2 users, 1 file, texts that are clean, blocked, or caught by two rules, 3 requests, 1 fault, times 0 to 3, retention 0 or 1 and changed at will |
| `registry` | every property of requests, profiles, flags, merges and schedules | one API process, 1 applicant, 2 reviewers, 3 entries of which two match, 3 changes, 3 ways to merge, 2 terms (one from the 31st over February, one of a quarter with deposit), 4 requests, 2 faults |
| `auth` | every property of captchas, lockout, sessions and second factors | one API process, 2 accounts, 2 secrets, threshold 2, window 1, captcha 1, token 2 time units, times 0 to 2, 3 challenges, 4 requests, 1 fault |
| `session` | every property of the sign-in | 2 tabs, an administrator and a farmer, 3 user actions and faults together, 1 fault; at the start signed in or not, and with or without a second factor |
| `portal` | every property of the sections | 8 areas, 3 clicks and faults together in each, 4 in `merging`, 1 fault; typing and closing are free; 2 profiles, 2 types, 2 conversations, 2 invoices, a good and a forbidden text |
| `messaging_shared` | does a message keep its attachment? (violated) | one process, no fault, 4 requests |
| `messaging_retention` | are old messages removed? (violated) | one process, the scheduler, no fault, a fixed retention period, 2 requests |
| `billing_race` | is the state machine respected? (violated) | one process, the scheduler, no fault |

Money is counted in units of a cent and days are one clock unit long; the fee
parameters are scaled so that grace, accrual, rounding and cap all happen
within three days. Two requests are enough for a retry, a race, a part payment
followed by a settling one and a key used again after its window; one fault
is enough for a crash at every step, as the second one would only
meet a state the first run of the same code can be in. Two workers and two keys are the
least that give same-key and different-key races. In `delegation` four requests are a proposal, a decision, a use, and one more of any of
them; in `messaging` three are two sends and a recall, or a send, a recall and a read or
a report beside the job. In `registry` four are two profiles, a merge and an update; a
profile and contracts; an application, two reviews and one more after a crash, and two faults
are one for each of two requests on the same row. In `auth` three challenges are one more than
the threshold, and times 0 to 2 let a captcha, the window and a token each
run out. In `session` three are a sign-in, a second one in the other tab and a sign-out, a login without and
with a code, or the MFA page, an enrolment and its code; redirects and the loads that follow cost none. In `portal` three are two clicks whose
replies cross and one more, or a click, a fault and its repetition; a merge takes a profile, its dialog and the
click on it, and a second dialog beside them. That a payment is done twice without a lost answer, and that a list lacks what was
announced, are states of this run. The proofs below remove the bounds for the safety properties
of the server and of the browser.

*Fairness.* `FairSpec` assumes that a request or a job run that has begun goes on
(PHP and InnoDB schedule every process) and that the scheduler process comes to its next
run: its loop has no exit and catches every Throwable. Nothing is
assumed of clients, the clock, faults, or administrators. A deadlock stop is
possible once the bounds are used up only if the scheduler could not run, so deadlock
is checked in every run of the server. In `Delegation` and `Messaging` only the scheduler's job is fair. `Registry`, `Auth`, `Session` and
`Portal` state safety only and assume no fairness. In `session` and `portal` the browser waits for its user, who
may stop: deadlock is not checked there.

*What the violated runs show.* (1) The job
reads an unpaid invoice, a payment settles it, and the job's `UPDATE ... WHERE
id` makes it overdue again, with a fee. This needs only the two processes that are
shipped. (2) The same file sent in two messages is stored once; the recall of
one of them unlinks it, and the other message keeps an attachment that cannot be
read. `LostOnlyToTwin` shows that this is the only way a file gets lost. (3) A report
on a message makes the one DELETE of `cleanRetention` fail, in every later run, so nothing
is removed any more. `OldRemovedUnlessReported` shows that nothing else stops the job.

*Seen on the way, in no run.* On the server: `payment_idempotency` is never purged and its
UNIQUE key has no window, so a key used again after ten minutes is refused as a
concurrent payment (409) though nobody else is there. `flagDuplicates`
asks for `(this direction AND open) OR the other direction`: a flag of the other
direction that a merge closed hides a new match, and `WarnedUnlessMerged`
shows that nothing else hides one. The lockout's wait is said to double with each further failure
(`src/docs/design.md:87`), but attempts on a locked account are not counted, so more than the
threshold is never seen: a consequence of `LockoutHolds`. Update and merge of a profile write no audit
row, and `registry` models them so. A profile may be merged into itself, or two into each other,
and then none of them is active. A refund of a paid invoice leaves it paid, and what is
outstanding then is refused. The first risk rule that matches decides, so that a milder one with a
lower id hides a later one that blocks.

In the client, each an exception that a property names: two merge dialogs that open over
one another share ids and names, so one click merges both pairs (`MergesAsShown`); of two open receipts the
first is printed (`PrintedIsShown`); while the page still waits after a registration, its used challenge can be sent again
(`ResentAfterSignup`); a page that learns late that its old session is over clears the new one of all
tabs, and so does a sign-out that is answered late: the user clicks Logout in one tab, signs in as another in a second
tab, and the callback of the first clears the second session (`app.js:57-58`; `LiveSessionKept`); a scan whose upload fails
leaves its button dead (`ButtonsComeBack`); what the page cannot report is paid again, as every click makes a key
(`finance.js:87`): an answer that is lost, but also the error 500 of a payment that is committed and whose audit row then
fails (`DoneOnceUnlessUntold`); a profile, a contract or a payment that is announced is missing from its list until the next
load (`entities.js:254`, `finance.js:48`, `:97`), and rows of an older load that arrives after the newest stay shown
(`ListsAreTrue`, which says nothing of such a list); fields of the type selected before are shown
until the type is selected again (`FieldsFit`); a check that fails lets its text out, which the server then refuses (`SentAsChecked`).
In no property: a message is posted to the conversation that is open after its check (`messaging.js:171`, `:177`),
`handleSendResponse` empties a field that may hold the next text (`:211`), the reply to a saved rule hides
the form of another one (`:344`), Send and New conversation are never disabled, and of the "Auto-redirect to login on 401" of
`api-client.js:8` only `loadUserInfo` knows.

*Two API processes.* `NoPaymentOnSettled` and `SettlingIsCovered` hold, and are proved, for
one API process. With two, both fail by write skew: each
transaction sees the invoice open in its own snapshot. Likewise `DecidedOnce` and
`AuditTruthful` of `Delegation` and `NoReadAfterRecall` of `Messaging` hold because one process
serves one request at a time: with two (which no run has), an UPDATE by id follows a check that is no longer true.
`AccessIsBacked` and `LostOnlyToTwin` need no such assumption. The properties of `Registry` and `Auth` hold, and
are proved, with one process for the
same reason: with two, a captcha, a pair of profiles or a pending application may be
checked twice before the first of them writes.

## Proofs

The proofs about billing assume `BillingAssumption` and `FeeAssumption` (types of the
constants); no bound appears in them except as a natural number. The argument:

- `Billing_proofs`: bounds, grace and monotonicity of the late fee, from integer division.
  Then `Shape == TypeOK /\ ProcessesOK` is inductive: every step of a process
  relies on its request, view or job record being there, which `TypeOK`
  alone does not say. `Ledger` adds `ReservationsExclusive`: a worker past its
  reservation is alone with its key and the key is unused, which is what
  makes `OneKeyOnePayment` and `AnswersAgree` survive the COMMIT. From these `PaymentsImplementPayOnce`:
  a COMMIT is `Post`, an answer is `Acknowledge`, all else stutters.
- `Settlement_proofs`: `SettledHasSnapshot` from `Shape`; `FeeNeverAhead` needs
  `RunsNotAhead` (no run carries a day later than today); `NoPaymentOnSettled` and
  `SettlingIsCovered` assume `OneWorker` and rest on `PaymentsFresh`: with one API
  process, what a payment's snapshot says of money and of "not yet paid" is still
  true at its COMMIT, since only the job runs beside it and the job never makes an invoice paid.

- `Delegation_proofs` assumes `DelegationAssumption`. `BackedInv` is `TypeOK` with `RowsSound` (a row ends
  at most `MaxWindow` after it was made, and who decided it is not its grantor) and
  `RequestsSound` (what a process holds between check and write still satisfies what the write
  relies on, whatever others did meanwhile); `EveryAccessIsBacked` follows for any number of processes.
  `DecisionInv` adds `DecisionsFresh` (who is about to decide finds the row pending) and `EntriesToCome`
  (an audit row that is still to be written agrees with its table row); with `OneWorker` it gives
  `AuditIsTruthfulAlone` and the refinement `DelegationsAreDecidedOnceAlone`.

- `Messaging_proofs` assumes `MessagingAssumption`. `FilesInv` holds for any number of processes: a message or a request that
  has an attachment is the only one that has it (`RowsSound`, `PendingApart`), and a file is unlinked only by a
  recall whose attachment no message has any more (`RequestsSound`). So what a readable message has is on the disk, or
  another row has its path, which is `LostOnlyToTwin`. `ReadInv` adds `MarkFresh`: with `OneWorker`, the messages that are about to
  get their read mark have not been recalled since they were listed.

- `Auth_proofs` assumes `AuthAssumption` and `OneWorker`. The part `RequestSound` of `AuthInv` says for each statement which of the
  things a request has read are still true: the challenge it is about to consume is open, the failures of its user are below the
  threshold, no session is left when the new one is made, the secret in the table is the one whose code was checked. What may change
  meanwhile is the clock only, and `LockoutHolds` needs that a window which moves on never gains failures.

- `Registry_proofs` assumes `OneWorker`, `ProfilesAssumption` and `ContractsAssumption`. `VerificationInv`: a review finds its
  application without a decision, in the status that it read or has set; every other decided one that has no decision
  costs a fault. `ProfilesInv`: what an update or a merge has read is still what the table has, and at each step of a recheck
  every match of the profile is still to do, or warned of, or hidden by a closed flag; none is flagged
  that has an open flag. `ContractsInv`: the rents of a contract reach from its start to
  where the request that makes it stands (`Reached`, `Upto`), and the next period begins there. It needs that the calendar's
  `Add` moves forward (`AddLater`), for every table of months' lengths.

- `Session_proofs` assumes `SessionAssumption` (what is missing is told from what is there) and no bound on
  tabs, users, clicks and faults. `SessionInv` is `PageSound` of every document (what a form asks and what was typed are of its one challenge, which
  holds because a load takes the question away before it brings another), `CallSound` of every call (what it carries came
  from such a form; a session in an answer has its token) and `StoreSound`; it gives `TokenMatchesUser` and `CaptchaPaired`.
  `TokensSound` adds which tokens there can be: each has the number of its login, which is answered once, so a token that
  the server has dropped never comes back. From it follow `SignedOutEverywhere` and the action property `LiveSessionKept`: what
  clears a good session is its own sign-out, one that got no answer, or a call for a session that is over.
  `FormsSound` adds who owns a challenge: at most one form has it, a form that waits has one call that carries one, and a
  challenge that is used up is on its way to be replaced (`Taken`) or made an account; it gives `ResentAfterSignup`.

- `Portal_proofs` assumes `AreasAssumption` (there are only the areas of `Menu`), `PageAssumption` (no conversation is
  called like a section) and `ReplyAssumption` (a reply is told from none), and no bound on clicks, faults, conversations,
  texts, types, invoices, calls under way or open layers. `PortalInv` stands on `CallsSound`: what each call carries was fit to be
  sent, and what its reply says is about what was asked; it gives `SentAsChecked` and half of `DialogsActAsShown`.
  `ButtonsSound` says that a button has one call, and that a thing was done as often as the page could not say so, and once
  more only while its good reply is under way. `ListsSound` says of the newest load of each list (`list[l].asked`) that it is of
  what is open and, once answered, has all that was reported, unless a change was announced since it was asked for; older loads may come when they like. It needs that `known` never passes `made`, and that whatever of `messages` is
  on its way or shown is of a conversation while one is open. `DialogsSound` says that a merge dialog which was never open
  with another one has only listeners of its own pair, and `ReceiptsSound` the like of receipts. A step is first
  classified by what it does to calls, buttons and lists (`StepKinds`), so that each part of the invariant has a dozen
  cases and not eighty.

Each of these invariants was checked by TLC on the run of its module first.

Only model-checked: `EveryRequestEnds`, `OverdueNoticed`, `FeesSettle`, `LapsedRevoked`,
`OldRemovedUnlessReported` (liveness under fairness is out of reach of the prover) and
the three violated properties.

## Plan

In this order; every module takes its processes and bounds as constants, has no
RECURSIVE operator, and states its invariant as named conjuncts.

1. `Verification` as a refinement of `DecideOnce`, with the reviewer as a history variable.
2. A composition of `Contracts` and `Billing`: the initial state of `Billing` is what a contract leaves. A composition of
   `Session` and `Auth`: the server of `Session` is an abstraction of `Auth`.
3. In `Messaging`, `createConversation` and the administration of risk rules.

## Not modelled

Exports, encryption, password rules, health and migrations have no state that another step
could find wrong; they are listed as components with this reason, as are the settings of the browser tests
(`vitest.config.js`). Of the client, what is only drawn is left out. Of request plumbing, the process that serves
one request at a time is modelled, the formatting of errors and logs is not.
