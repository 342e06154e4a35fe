------------------------------ MODULE Billing ------------------------------
(***************************************************************************)
(* Invoices, payments, refunds and the overdue job, as they meet in one    *)
(* InnoDB database: PaymentService, InvoiceService (transition, markOverdue *)
(* updateLateFees, createSnapshot) and RefundService.                      *)
(*                                                                         *)
(* A payment is the only code here that runs in a transaction.  The        *)
(* committed tables are the variables; what an open transaction has done   *)
(* (its reservation, the snapshot its plain SELECTs read from, its row     *)
(* locks) is in pc, req and view of the worker that runs it.  Everything   *)
(* else is autocommit, so every statement that another process could come  *)
(* in front of is a step of its own.                                       *)
(***************************************************************************)
EXTENDS Integers, Sequences, FiniteSets, LateFee

CONSTANTS
  Workers,        \* API processes (the shipped container starts one: php -S)
  Scheduler,      \* the tools/scheduler.php process
  Runners,        \* the processes that run the jobs: the scheduler, and the API
                  \* processes that are sent POST /admin/jobs/run
  Keys,           \* an actor together with one Idempotency-Key it sends
  Invoices,
  Visible,        \* the invoices that exist and that the payer's scope covers
  Amount, Due,    \* amount_cents and due_date (a day) of each invoice
  PayAmounts, RefundAmounts,
  Window,         \* IDEMP_WINDOW_SECONDS, in clock units
  DayLength,      \* clock units in a day
  MaxTime, MaxRequests, MaxRefunds, MaxFaults,   \* bounds of a model
  None

Actors == Workers \cup {Scheduler}
Status == {"unpaid", "paid", "overdue"}

PayPC == {"lookup", "reserve", "replay", "verify", "insert", "settle", "audit"}
JobPC == {"pick", "mark", "snap", "charge", "refresh"}

Invoice  == [status: Status, version: Nat, fee: Nat]
Payment  == [inv: Invoices, amount: Nat, key: Keys]
Row      == [at: Nat, pid: Nat, status: Status, balance: Nat]
Request  == [key: Keys, inv: Invoices, amount: Nat, cutoff: Int, at: Nat]
View     == [status: Status, version: Nat, fee: Nat, paid: Nat, refunded: Nat]
Job      == [day: Nat, todo: SUBSET Invoices, cur: Invoices \cup {None}, version: Nat]
Receipt  == [key: Keys, inv: Invoices, amount: Nat, result: Row]

ASSUME BillingAssumption ==
  /\ Scheduler \notin Workers /\ Runners \subseteq Actors
  /\ Visible \subseteq Invoices
  /\ Amount \in [Invoices -> Nat] /\ Due \in [Invoices -> Nat]
  /\ PayAmounts \subseteq Nat \ {0} /\ RefundAmounts \subseteq Nat \ {0}
  /\ Window \in Nat /\ DayLength \in Nat \ {0}
  /\ {MaxTime, MaxRequests, MaxRefunds, MaxFaults} \subseteq Nat
  /\ None \notin Invoices /\ None \notin Row

VARIABLES
  now,        \* the clock of the PHP processes and of MySQL (both run in UTC)
  invoice,    \* table invoices: status, snapshot_version, late_fee_cents
  snapshots,  \* table invoice_snapshots, per invoice, oldest first
  payments,   \* table payments; the index is the id
  paid,       \* SUM(amount_cents) over payments, per invoice
  refunded,   \* SUM(amount_cents) over refunds, per invoice
  idem,       \* table payment_idempotency: the committed row of a key, or None
  audited,    \* ids of the payments with a payment_posted row in audit_logs
  receipts,   \* the 201 answers of POST /payments, each with its request
  pc, req, view, job,            \* what each process is doing
  received, refunds, faults      \* how often, for the bounds

store == <<invoice, snapshots, payments, paid, refunded, idem, audited>>
bounds == <<received, refunds, faults>>
vars == <<now, store, receipts, pc, req, view, job, bounds>>

Today == now \div DayLength
DaysOverdue(i, day) == IF day > Due[i] THEN day - Due[i] ELSE 0
Fee(i, day) == LateFee(Amount[i], DaysOverdue(i, day))

Init ==
  /\ now = 0
  /\ invoice = [i \in Invoices |-> [status |-> "unpaid", version |-> 1, fee |-> 0]]
  /\ snapshots = [i \in Invoices |-> <<[status |-> "unpaid", version |-> 1, fee |-> 0]>>]
  /\ payments = <<>>
  /\ paid = [i \in Invoices |-> 0]
  /\ refunded = [i \in Invoices |-> 0]
  /\ idem = [k \in Keys |-> None]
  /\ audited = {} /\ receipts = {}
  /\ pc = [a \in Actors |-> "idle"]
  /\ req = [w \in Workers |-> None]
  /\ view = [w \in Workers |-> None]
  /\ job = [a \in Actors |-> None]
  /\ received = 0 /\ refunds = 0 /\ faults = 0

-----------------------------------------------------------------------------
(* Locks.  The transaction of a worker that has inserted its reservation   *)
(* holds that row; one that found no row holds the gap it looked into; one *)
(* that has inserted a payment shares the invoice row (foreign key check). *)

HoldsRow(w, k) == pc[w] \in {"verify", "insert", "settle"} /\ req[w].key = k
HoldsGap(w, k) == pc[w] = "reserve" /\ req[w].key = k
SharesInvoice(w, i) == pc[w] = "settle" /\ req[w].inv = i

Others(w) == Workers \ {w}
RowFree(w, k) == \A v \in Others(w) : ~HoldsRow(v, k)
GapFree(w, k) == \A v \in Others(w) : ~HoldsGap(v, k)
InvoiceFree(i) == \A w \in Workers : ~SharesInvoice(w, i)

InWindow(row, cutoff) == row # None /\ row.at >= cutoff

Finish(a) ==
  /\ pc' = [pc EXCEPT ![a] = "idle"]
  /\ req' = [w \in Workers |-> IF w = a THEN None ELSE req[w]]
  /\ view' = [w \in Workers |-> IF w = a THEN None ELSE view[w]]
  /\ job' = [job EXCEPT ![a] = None]

Answer201(w) ==
  /\ receipts' = receipts \cup {[key |-> req[w].key, inv |-> req[w].inv,
                                 amount |-> req[w].amount, result |-> idem[req[w].key]]}
  /\ Finish(w)

\* An exception: whatever the transaction did is rolled back.
AnswerError(w) == Finish(w) /\ UNCHANGED receipts

GoTo(w, step) == pc' = [pc EXCEPT ![w] = step]

-----------------------------------------------------------------------------
(* PaymentService::post *)

Receive(w, k, i, m) ==
  /\ pc[w] = "idle" /\ received < MaxRequests
  /\ received' = received + 1
  /\ req' = [req EXCEPT ![w] =
               [key |-> k, inv |-> i, amount |-> m, cutoff |-> now - Window, at |-> 0]]
  /\ GoTo(w, "lookup")
  /\ UNCHANGED <<now, store, receipts, view, job, refunds, faults>>

\* SELECT ... FOR UPDATE waits for a row another transaction holds.  Nobody
\* can be inside the gap of a row that exists, except to have locked the row.
CanLookup(w) ==
  /\ pc[w] = "lookup"
  /\ RowFree(w, req[w].key)
  /\ idem[req[w].key] # None => GapFree(w, req[w].key)

ReplayStored(w) ==
  /\ CanLookup(w) /\ InWindow(idem[req[w].key], req[w].cutoff)
  /\ Answer201(w)
  /\ UNCHANGED <<now, store, bounds>>

MissStored(w) ==
  /\ CanLookup(w) /\ ~InWindow(idem[req[w].key], req[w].cutoff)
  /\ GoTo(w, "reserve")
  /\ UNCHANGED <<now, store, receipts, req, view, job, bounds>>

\* Variant: payment_idempotency without its UNIQUE key.
ReserveUnchecked(w) ==
  /\ pc[w] = "reserve"
  /\ req' = [req EXCEPT ![w].at = now]
  /\ GoTo(w, "verify")
  /\ UNCHANGED <<now, store, receipts, view, job, bounds>>

Reserve(w) ==
  /\ pc[w] = "reserve" /\ idem[req[w].key] = None
  /\ RowFree(w, req[w].key) /\ GapFree(w, req[w].key)
  /\ req' = [req EXCEPT ![w].at = now]
  /\ GoTo(w, "verify")
  /\ UNCHANGED <<now, store, receipts, view, job, bounds>>

\* Variant: waits that are not resolved.
LosesOnlyToRow(w) == idem[req[w].key] # None

\* The INSERT fails: on the UNIQUE key, or because the inserts of two workers
\* wait for each other's gap lock (also those of neighbouring keys) and InnoDB
\* rolls this one back.  Both are caught as $dupEx, which gives up the
\* transaction and looks again.
LosesReservation(w) ==
  \/ idem[req[w].key] # None
  \/ \E v \in Others(w) : pc[v] = "reserve" /\ idem[req[v].key] = None

ReserveFails(w) ==
  /\ pc[w] = "reserve" /\ LosesReservation(w)
  /\ GoTo(w, "replay")
  /\ UNCHANGED <<now, store, receipts, req, view, job, bounds>>

ReplayRival(w) ==
  /\ pc[w] = "replay" /\ InWindow(idem[req[w].key], req[w].cutoff)
  /\ Answer201(w)
  /\ UNCHANGED <<now, store, bounds>>

RefuseConcurrent(w) ==
  /\ pc[w] = "replay" /\ ~InWindow(idem[req[w].key], req[w].cutoff)
  /\ AnswerError(w)
  /\ UNCHANGED <<now, store, bounds>>

\* The first plain SELECT of the transaction: what it sees of every table is
\* what all its later plain SELECTs see, beside its own writes.
SnapshotOf(i) ==
  [status |-> invoice[i].status, version |-> invoice[i].version, fee |-> invoice[i].fee,
   paid |-> paid[i], refunded |-> refunded[i]]

\* Variant: a payment that does not ask whether the invoice is still open.
ReadAnyInvoice(w) ==
  /\ pc[w] = "verify" /\ req[w].inv \in Visible
  /\ view' = [view EXCEPT ![w] = SnapshotOf(req[w].inv)]
  /\ GoTo(w, "insert")
  /\ UNCHANGED <<now, store, receipts, req, job, bounds>>

ReadInvoice(w) ==
  /\ pc[w] = "verify" /\ req[w].inv \in Visible
  /\ invoice[req[w].inv].status # "paid"
  /\ view' = [view EXCEPT ![w] = SnapshotOf(req[w].inv)]
  /\ GoTo(w, "insert")
  /\ UNCHANGED <<now, store, receipts, req, job, bounds>>

\* 404, 403 and 409: the exception rolls the reservation back.
RefusePayment(w) ==
  /\ pc[w] = "verify"
  /\ req[w].inv \notin Visible \/ invoice[req[w].inv].status = "paid"
  /\ AnswerError(w)
  /\ UNCHANGED <<now, store, bounds>>

InsertPayment(w) ==
  /\ pc[w] = "insert"
  /\ GoTo(w, "settle")
  /\ UNCHANGED <<now, store, receipts, req, view, job, bounds>>

\* Variant: a balance that forgets the refunds.
OwedBeforeRefunds(total, fee, in, out) == IF total + fee > in THEN total + fee - in ELSE 0

\* PaymentService::outstandingBalance inside the transaction
Owed(total, fee, in, out) == IF total + fee + out > in THEN total + fee + out - in ELSE 0

Balance(w) ==
  Owed(Amount[req[w].inv], view[w].fee, view[w].paid + req[w].amount, view[w].refunded)

\* The writes of the transaction become visible together, at its COMMIT.
CommitPayment(w, status) ==
  LET r == req[w] IN
  /\ payments' = Append(payments, [inv |-> r.inv, amount |-> r.amount, key |-> r.key])
  /\ paid' = [paid EXCEPT ![r.inv] = @ + r.amount]
  /\ idem' = [idem EXCEPT ![r.key] =
       [at |-> r.at, pid |-> Len(payments) + 1, status |-> status, balance |-> Balance(w)]]
  /\ GoTo(w, "audit")
  /\ UNCHANGED <<now, refunded, audited, receipts, req, view, job, bounds>>

CommitPartial(w) ==
  /\ pc[w] = "settle" /\ Balance(w) > 0
  /\ CommitPayment(w, view[w].status)
  /\ UNCHANGED <<invoice, snapshots>>

\* Variant: createSnapshot before the UPDATE.
CommitSettlingSnapshotFirst(w) ==
  LET i == req[w].inv IN
  /\ pc[w] = "settle" /\ Balance(w) = 0
  /\ invoice' = [invoice EXCEPT ![i].status = "paid", ![i].version = view[w].version + 1]
  /\ snapshots' = [snapshots EXCEPT ![i] = Append(@, invoice[i])]
  /\ CommitPayment(w, "paid")

\* InvoiceService::transition writes status and version from the snapshot over
\* the latest row, and createSnapshot copies the row that results.
CommitSettling(w) ==
  LET i == req[w].inv
      row == [invoice[i] EXCEPT !.status = "paid", !.version = view[w].version + 1] IN
  /\ pc[w] = "settle" /\ Balance(w) = 0
  /\ \A v \in Others(w) : ~SharesInvoice(v, i)
  /\ invoice' = [invoice EXCEPT ![i] = row]
  /\ snapshots' = [snapshots EXCEPT ![i] = Append(@, row)]
  /\ CommitPayment(w, "paid")

\* Two transactions share the invoice row and both want to write it.
SettleDeadlock(w) ==
  /\ pc[w] = "settle" /\ Balance(w) = 0
  /\ \E v \in Others(w) : SharesInvoice(v, req[w].inv) /\ Balance(v) = 0
  /\ AnswerError(w)
  /\ UNCHANGED <<now, store, bounds>>

\* AuditService::log comes after the COMMIT.
AuditPayment(w) ==
  /\ pc[w] = "audit"
  /\ audited' = audited \cup {idem[req[w].key].pid}
  /\ Answer201(w)
  /\ UNCHANGED <<now, invoice, snapshots, payments, paid, refunded, idem, bounds>>

AuditFails(w) ==
  /\ pc[w] = "audit" /\ faults < MaxFaults
  /\ faults' = faults + 1
  /\ AnswerError(w)
  /\ UNCHANGED <<now, store, received, refunds>>

PaymentStep(w) ==
  \/ ReplayStored(w) \/ MissStored(w)
  \/ Reserve(w) \/ ReserveFails(w) \/ ReplayRival(w) \/ RefuseConcurrent(w)
  \/ ReadInvoice(w) \/ RefusePayment(w) \/ InsertPayment(w)
  \/ CommitPartial(w) \/ CommitSettling(w) \/ SettleDeadlock(w)
  \/ AuditPayment(w)

-----------------------------------------------------------------------------
(* RefundService::create.  What it reads between its statements only goes  *)
(* into its answer and its audit row, so it is one step.                   *)

Refund(w, i, m) ==
  /\ pc[w] = "idle" /\ refunds < MaxRefunds /\ i \in Visible
  /\ refunds' = refunds + 1
  /\ refunded' = [refunded EXCEPT ![i] = @ + m]
  /\ UNCHANGED <<now, invoice, snapshots, payments, paid, idem, audited, receipts,
                 pc, req, view, job, received, faults>>

-----------------------------------------------------------------------------
(* InvoiceService::markOverdue and updateLateFees, run by the scheduler and *)
(* by POST /admin/jobs/run.                                                *)

\* Variant: a day late.
OverdueLate(i, day) == invoice[i].status = "unpaid" /\ Due[i] + 1 < day

Overdue(i, day) == invoice[i].status = "unpaid" /\ Due[i] < day

StartJobs(a) ==
  /\ pc[a] = "idle"
  /\ job' = [job EXCEPT ![a] = [day |-> Today, todo |-> {i \in Invoices : Overdue(i, Today)},
                                cur |-> None, version |-> 0]]
  /\ GoTo(a, "pick")
  /\ UNCHANGED <<now, store, receipts, req, view, bounds>>

\* transition() reads the invoice again and refuses one that is not unpaid any
\* more; the loop catches that and goes on.
ValidTransitions == {<<"unpaid", "paid">>, <<"unpaid", "overdue">>, <<"overdue", "paid">>}

Without(j, i) == [j EXCEPT !.todo = @ \ {i}]
Picked(j, i) == [Without(j, i) EXCEPT !.cur = i, !.version = invoice[i].version]
Released(j) == [j EXCEPT !.cur = None, !.version = 0]

PickInvoice(a, i) ==
  /\ pc[a] = "pick" /\ i \in job[a].todo
  /\ IF <<invoice[i].status, "overdue">> \in ValidTransitions
       THEN job' = [job EXCEPT ![a] = Picked(@, i)] /\ GoTo(a, "mark")
       ELSE job' = [job EXCEPT ![a] = Without(@, i)] /\ GoTo(a, "pick")
  /\ UNCHANGED <<now, store, receipts, req, view, bounds>>

\* UPDATE invoices SET status, snapshot_version WHERE id: no condition on the
\* status that was read, only a wait for the payments that share the row.
MarkOverdue(a) ==
  LET i == job[a].cur IN
  /\ pc[a] = "mark" /\ InvoiceFree(i)
  /\ invoice' = [invoice EXCEPT ![i].status = "overdue", ![i].version = job[a].version + 1]
  /\ GoTo(a, "snap")
  /\ UNCHANGED <<now, snapshots, payments, paid, refunded, idem, audited, receipts,
                 req, view, job, bounds>>

CreateSnapshot(a) ==
  LET i == job[a].cur IN
  /\ pc[a] = "snap"
  /\ snapshots' = [snapshots EXCEPT ![i] = Append(@, invoice[i])]
  /\ GoTo(a, "charge")
  /\ UNCHANGED <<now, invoice, payments, paid, refunded, idem, audited, receipts,
                 req, view, job, bounds>>

\* Variant: every run adds its fee to the one already charged.
AddFee(a, i) ==
  /\ InvoiceFree(i)
  /\ invoice' = [invoice EXCEPT ![i].fee = @ + Fee(i, job[a].day)]
  /\ UNCHANGED <<now, snapshots, payments, paid, refunded, idem, audited, receipts,
                 req, view, bounds>>

SetFee(a, i) ==
  /\ InvoiceFree(i)
  /\ invoice' = [invoice EXCEPT ![i].fee = Fee(i, job[a].day)]
  /\ UNCHANGED <<now, snapshots, payments, paid, refunded, idem, audited, receipts,
                 req, view, bounds>>

ChargeInitialFee(a) ==
  /\ pc[a] = "charge"
  /\ SetFee(a, job[a].cur)
  /\ job' = [job EXCEPT ![a] = Released(@)]
  /\ GoTo(a, "pick")

\* Variant: fees are charged on the transition and never refreshed.
ListNothing(a) ==
  /\ pc[a] = "pick" /\ job[a].todo = {}
  /\ GoTo(a, "refresh")
  /\ UNCHANGED <<now, store, receipts, req, view, job, bounds>>

\* updateLateFees lists the overdue invoices whose fee is not today's, then
\* writes each of them without looking again.
FeesToChange(day) ==
  {i \in Invoices : invoice[i].status = "overdue" /\ invoice[i].fee # Fee(i, day)}

Relisted(j) == [j EXCEPT !.todo = FeesToChange(j.day)]

ListOverdue(a) ==
  /\ pc[a] = "pick" /\ job[a].todo = {}
  /\ job' = [job EXCEPT ![a] = Relisted(@)]
  /\ GoTo(a, "refresh")
  /\ UNCHANGED <<now, store, receipts, req, view, bounds>>

RefreshFee(a, i) ==
  /\ pc[a] = "refresh" /\ i \in job[a].todo
  /\ SetFee(a, i)
  /\ job' = [job EXCEPT ![a] = Without(@, i)]
  /\ GoTo(a, "refresh")

EndJobs(a) ==
  /\ pc[a] = "refresh" /\ job[a].todo = {}
  /\ Finish(a)
  /\ UNCHANGED <<now, store, receipts, bounds>>

\* A write of the job waits behind the shared lock of a payment that now wants
\* the row for itself: InnoDB rolls back the cheaper side, the job's statement.
\* Inside the foreach the exception is caught, in updateLateFees it ends the run.
LosesDeadlock(i) == \E w \in Workers : SharesInvoice(w, i) /\ Balance(w) = 0

JobDeadlock(a) ==
  \/ /\ pc[a] \in {"mark", "charge"} /\ LosesDeadlock(job[a].cur)
     /\ job' = [job EXCEPT ![a] = Released(@)]
     /\ GoTo(a, "pick")
     /\ UNCHANGED <<now, store, receipts, req, view, bounds>>
  \/ /\ pc[a] = "refresh" /\ \E i \in job[a].todo : LosesDeadlock(i)
     /\ Finish(a)
     /\ UNCHANGED <<now, store, receipts, bounds>>

JobStep(a) ==
  \/ \E i \in Invoices : PickInvoice(a, i) \/ RefreshFee(a, i)
  \/ MarkOverdue(a) \/ CreateSnapshot(a) \/ ChargeInitialFee(a)
  \/ ListOverdue(a) \/ EndJobs(a) \/ JobDeadlock(a)

-----------------------------------------------------------------------------
Tick ==
  /\ now < MaxTime
  /\ now' = now + 1
  /\ UNCHANGED <<store, receipts, pc, req, view, job, bounds>>

\* A process dies and is started again: its transaction is rolled back, what
\* it had committed stays, and nobody gets its answer.
Crash(a) ==
  /\ pc[a] # "idle" /\ faults < MaxFaults
  /\ faults' = faults + 1
  /\ Finish(a)
  /\ UNCHANGED <<now, store, receipts, received, refunds>>

Next ==
  \/ Tick
  \/ \E w \in Workers :
       \/ \E k \in Keys, i \in Invoices, m \in PayAmounts : Receive(w, k, i, m)
       \/ \E i \in Invoices, m \in RefundAmounts : Refund(w, i, m)
       \/ PaymentStep(w)
       \/ AuditFails(w)
  \/ \E a \in Runners : StartJobs(a) \/ JobStep(a)
  \/ \E a \in Actors : Crash(a)

Spec == Init /\ [][Next]_vars

\* What has begun goes on (PHP and InnoDB schedule every process), and the
\* scheduler's loop always comes to its next run.  No fairness for clients,
\* the clock, faults, or an administrator's runs.
Fairness ==
  /\ \A w \in Workers : WF_vars(PaymentStep(w))
  /\ \A a \in Runners : WF_vars(JobStep(a))
  /\ WF_vars(StartJobs(Scheduler))

FairSpec == Spec /\ Fairness

-----------------------------------------------------------------------------
(* Properties                                                              *)

\* Every variable has the shape of its table or of its process.
TypeOK ==
  /\ now \in Nat
  /\ invoice \in [Invoices -> Invoice]
  /\ snapshots \in [Invoices -> Seq(Invoice)]
  /\ payments \in Seq(Payment)
  /\ paid \in [Invoices -> Nat] /\ refunded \in [Invoices -> Nat]
  /\ idem \in [Keys -> Row \cup {None}]
  /\ audited \subseteq Nat
  /\ receipts \subseteq Receipt
  /\ pc \in [Actors -> {"idle"} \cup PayPC \cup JobPC]
  /\ req \in [Workers -> Request \cup {None}]
  /\ view \in [Workers -> View \cup {None}]
  /\ job \in [Actors -> Job \cup {None}]
  /\ received \in Nat /\ refunds \in Nat /\ faults \in Nat

\* What a process has at hand fits the step it is at.
ProcessesOK ==
  /\ \A w \in Workers :
       /\ pc[w] \in PayPC => req[w] \in Request
       /\ pc[w] \in {"insert", "settle"} => view[w] \in View
       /\ pc[w] = "audit" => idem[req[w].key] # None
  /\ \A a \in Actors :
       /\ pc[a] \in JobPC => job[a] \in Job
       /\ pc[a] \in {"mark", "snap", "charge"} => job[a].cur \in Invoices

\* A key is reserved by one transaction at a time, and only while it is unused.
ReservationsExclusive ==
  \A w \in Workers : pc[w] \in {"verify", "insert", "settle"} =>
    idem[req[w].key] = None /\ RowFree(w, req[w].key)

\* A key pays once, whatever is retried, crashes or runs at the same time:
\* payments and stored responses are in one-to-one correspondence.
OneKeyOnePayment ==
  /\ \A p \in DOMAIN payments : LET row == idem[payments[p].key] IN
       row # None /\ row.pid = p
  /\ \A k \in Keys : idem[k] # None =>
       idem[k].pid \in DOMAIN payments /\ payments[idem[k].pid].key = k

\* All the 201 answers a key ever gets are the same one, the stored response:
\* no replay shows the placeholder of an unfinished reservation.
AnswersAgree ==
  \A r \in receipts : r.result = idem[r.key]

\* An invoice that is, or was, settled has a snapshot of that moment.
SettledHasSnapshot ==
  \A i \in Invoices : invoice[i].status = "paid" =>
    \E s \in DOMAIN snapshots[i] : snapshots[i][s].status = "paid"

\* However runs of the job overlap, repeat or die, a late fee is never more
\* than the exact daily rate has earned by today, nor than the cap.
FeeNeverAhead ==
  \A i \in Invoices :
    /\ invoice[i].fee <= CapCents
    /\ invoice[i].fee > 0 =>
         10000 * invoice[i].fee <= Amount[i] * DailyRateBps * (Today - Due[i] - GraceDays)

\* An invoice turns paid only when what came in, less what was given back,
\* covers its amount (the late fee may still change under the payment).
SettlingIsCovered ==
  [][\A i \in Invoices :
       invoice[i].status # "paid" /\ invoice'[i].status = "paid"
         => paid'[i] >= Amount[i] + refunded'[i]]_vars

\* No payment is recorded on an invoice that is settled at that moment.
NoPaymentOnSettled ==
  [][\A i \in Invoices : paid'[i] # paid[i] => invoice[i].status # "paid"]_vars

\* A request to pay is answered or dies: no locks wait for each other forever.
EveryRequestEnds == \A w \in Workers : pc[w] \in PayPC ~> pc[w] = "idle"

\* The job finds every invoice past its due date that nobody pays.
OverdueNoticed ==
  \A i \in Invoices :
    invoice[i].status = "unpaid" /\ Due[i] < Today ~> invoice[i].status # "unpaid"

\* Once the clock stands, the late fee of every overdue invoice becomes and
\* stays the exact one of that day: runs that overlapped midnight, died or
\* lost a deadlock are made up for.
FeesSettle ==
  <>[](\A i \in Invoices : invoice[i].status = "overdue" =>
         invoice[i].fee = LateFee(Amount[i], Today - Due[i]))

\* The state machine of InvoiceService: unpaid -> paid | overdue, overdue -> paid.
LegalTransitions ==
  [][\A i \in Invoices : invoice'[i].status # invoice[i].status =>
       <<invoice[i].status, invoice'[i].status>> \in ValidTransitions]_vars

-----------------------------------------------------------------------------
(* POST /payments implements PayOnce.                                      *)

EntriesOf(k) ==
  {[id |-> p, inv |-> payments[p].inv, amount |-> payments[p].amount] :
     p \in {q \in DOMAIN payments : payments[q].key = k}}

Once == INSTANCE PayOnce WITH
  posted <- [k \in Keys |-> EntriesOf(k)],
  collected <- paid,
  acknowledged <- {<<r.key, r.result.pid>> : r \in receipts}

\* Seen from the clients, all of this is a ledger in which a key pays once.
PaysOnce == Once!Spec
=============================================================================
