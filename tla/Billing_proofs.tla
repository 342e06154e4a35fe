--------------------------- MODULE Billing_proofs ---------------------------
(* Theorems about LateFee, for every grace period, rate, cap, amount and     *)
(* number of days, and about Billing, for any number of workers, runners,    *)
(* keys and invoices, any amounts, window, day length and bounds.            *)
EXTENDS Billing, TLAPS

-----------------------------------------------------------------------------
(* Late fees: what LateFeeService::calculate returns *)

\* A product of natural numbers is one, and does not fall when a factor grows.
LEMMA ProductNat ==
  ASSUME NEW a \in Nat, NEW b \in Nat
  PROVE  a * b \in Nat
  OBVIOUS

LEMMA ProductMonotone ==
  ASSUME NEW a \in Nat, NEW b \in Nat, NEW c \in Nat, b <= c
  PROVE  a * b <= a * c
<1> DEFINE d == c - b
<1>1. d \in Nat /\ c = b + d
  OBVIOUS
<1>2. a * c = a * b + a * d
  BY <1>1
<1>3. a * d \in Nat /\ a * b \in Nat
  BY <1>1, ProductNat
<1> QED
  BY <1>2, <1>3

LEMMA ChargeableNat ==
  ASSUME NEW d \in Int
  PROVE  ChargeableDays(d) \in Nat
  BY FeeAssumption DEF ChargeableDays

LEMMA AccruedNat ==
  ASSUME NEW amount \in Nat, NEW d \in Int
  PROVE  amount * DailyRateBps * ChargeableDays(d) \in Nat
<1>1. amount * DailyRateBps \in Nat
  BY ProductNat, FeeAssumption
<1> QED
  BY <1>1, ProductNat, ChargeableNat

\* A late fee is whole cents between nothing and the cap, and at most what the
\* daily rate has earned (LateFeeService::calculate, its cap and its intdiv).
THEOREM LateFeeBounds ==
  ASSUME NEW amount \in Nat, NEW d \in Int
  PROVE  /\ LateFee(amount, d) \in 0 .. CapCents
         /\ 10000 * LateFee(amount, d) <= amount * DailyRateBps * ChargeableDays(d)
<1> DEFINE x == amount * DailyRateBps * ChargeableDays(d)
           q == x \div 10000
<1>1. x \in Nat
  BY AccruedNat
<1>2. LateFee(amount, d) = Least(q, CapCents)
  BY DEF LateFee
<1> HIDE DEF x
<1>3. q \in Nat /\ 10000 * q <= x
  BY <1>1
<1> HIDE DEF q
<1>4. LateFee(amount, d) \in 0 .. CapCents /\ LateFee(amount, d) <= q
  BY <1>2, <1>3, FeeAssumption DEF Least
<1>5. 10000 * LateFee(amount, d) <= x
  BY <1>1, <1>3, <1>4, FeeAssumption
<1> QED
  BY <1>4, <1>5 DEF x

\* Nothing is charged within the grace period.
THEOREM NoFeeInGrace ==
  ASSUME NEW amount \in Nat, NEW d \in Int, d <= GraceDays
  PROVE  LateFee(amount, d) = 0
<1>1. ChargeableDays(d) = 0
  BY DEF ChargeableDays
<1>2. amount * DailyRateBps \in Nat
  BY ProductNat, FeeAssumption
<1>3. amount * DailyRateBps * ChargeableDays(d) = 0
  BY <1>1, <1>2
<1> QED
  BY <1>3, FeeAssumption DEF LateFee, Least

\* A fee computed for a later day is never smaller: a run of the job that is
\* repeated later in time only raises fees.
THEOREM LateFeeMonotone ==
  ASSUME NEW amount \in Nat, NEW d \in Int, NEW e \in Int, d <= e
  PROVE  LateFee(amount, d) <= LateFee(amount, e)
<1> DEFINE rate == amount * DailyRateBps
           x == rate * ChargeableDays(d)
           y == rate * ChargeableDays(e)
<1>1. rate \in Nat
  BY ProductNat, FeeAssumption
<1>2. ChargeableDays(d) <= ChargeableDays(e)
  BY FeeAssumption DEF ChargeableDays
<1>3. x <= y /\ x \in Nat /\ y \in Nat
  <2> HIDE DEF rate
  <2> QED BY <1>1, <1>2, ChargeableNat, ProductNat, ProductMonotone
<1>4. LateFee(amount, d) = Least(x \div 10000, CapCents)
      /\ LateFee(amount, e) = Least(y \div 10000, CapCents)
  BY DEF LateFee
<1> HIDE DEF x, y
<1>5. x \div 10000 <= y \div 10000 /\ x \div 10000 \in Nat /\ y \div 10000 \in Nat
  BY <1>3
<1> QED
  BY <1>4, <1>5, FeeAssumption DEF Least

-----------------------------------------------------------------------------
(* Billing *)

Shape == TypeOK /\ ProcessesOK

LEMMA ConstantTypes ==
  ASSUME NEW i \in Invoices
  PROVE  Amount[i] \in Nat /\ Due[i] \in Nat
<1>1. Amount \in [Invoices -> Nat] /\ Due \in [Invoices -> Nat]
  BY BillingAssumption, Zenon
<1> QED
  BY <1>1

LEMMA FeeNat ==
  ASSUME NEW i \in Invoices, NEW day \in Nat
  PROVE  Fee(i, day) \in Nat
<1>1. DaysOverdue(i, day) \in Int /\ Amount[i] \in Nat
  BY ConstantTypes DEF DaysOverdue
<1>2. \A amount \in Nat, d \in Int : LateFee(amount, d) \in 0 .. CapCents
  BY LateFeeBounds
<1> QED
  <2> DEFINE amount == Amount[i]
             d == DaysOverdue(i, day)
  <2>1. amount \in Nat /\ d \in Int
    BY <1>1
  <2> HIDE DEF amount, d
  <2>2. LateFee(amount, d) \in 0 .. CapCents
    BY <1>2, <2>1
  <2>3. LateFee(amount, d) \in Nat
    BY <2>2, FeeAssumption
  <2> QED
    BY <2>3 DEF Fee, amount, d

LEMMA TodayNat == now \in Nat => Today \in Nat
  BY BillingAssumption DEF Today

LEMMA BalanceNat ==
  ASSUME NEW w \in Workers, req[w] \in Request, view[w] \in View
  PROVE  Balance(w) \in Nat
  BY ConstantTypes DEF Balance, Owed, Request, View

LEMMA InitShape == Init => Shape
<1> SUFFICES ASSUME Init PROVE Shape
  OBVIOUS
<1>1. TypeOK
  <2> USE DEF Init
  <2>1. /\ invoice \in [Invoices -> Invoice]
        /\ snapshots \in [Invoices -> Seq(Invoice)]
        /\ payments \in Seq(Payment)
    BY DEF Invoice, Status
  <2>2. /\ paid \in [Invoices -> Nat] /\ refunded \in [Invoices -> Nat]
        /\ idem \in [Keys -> Row \cup {None}]
        /\ audited \subseteq Nat /\ receipts \subseteq Receipt
    OBVIOUS
  <2>3. /\ pc \in [Actors -> {"idle"} \cup PayPC \cup JobPC]
        /\ req \in [Workers -> Request \cup {None}]
        /\ view \in [Workers -> View \cup {None}]
        /\ job \in [Actors -> Job \cup {None}]
    OBVIOUS
  <2> QED
    BY <2>1, <2>2, <2>3 DEF TypeOK
<1>2. ProcessesOK
  BY DEF Init, ProcessesOK, PayPC, JobPC, Actors
<1> QED
  BY <1>1, <1>2 DEF Shape

\* A process that finishes leaves every other one as it was.
LEMMA FinishShape ==
  ASSUME Shape, NEW a \in Actors, Finish(a),
         UNCHANGED <<now, store>>, receipts' \subseteq Receipt,
         received' \in Nat, refunds' \in Nat, faults' \in Nat
  PROVE  Shape'
<1> USE DEF Shape, Finish, store
<1>1. TypeOK'
  BY DEF TypeOK
<1>2. ProcessesOK'
  BY DEF TypeOK, ProcessesOK, PayPC, JobPC, Actors
<1> QED
  BY <1>1, <1>2

LEMMA ReceiptsShape ==
  ASSUME Shape, NEW w \in Workers, pc[w] \in PayPC, idem[req[w].key] # None, Answer201(w)
  PROVE  receipts' \subseteq Receipt
  BY DEF Shape, TypeOK, ProcessesOK, Answer201, Receipt, Request

LEMMA PaymentShape ==
  ASSUME Shape, NEW w \in Workers, PaymentStep(w)
  PROVE  Shape'
<1> USE DEF Shape
<1>a. pc[w] \in PayPC => req[w] \in Request /\ req[w].key \in Keys /\ req[w].inv \in Invoices
                         /\ req[w].amount \in Nat
  BY DEF ProcessesOK, Request
<1>b. w \in Actors
  BY DEF Actors
<1>1. CASE ReplayStored(w)
  <2>1. receipts' \subseteq Receipt
    BY <1>1, ReceiptsShape DEF ReplayStored, CanLookup, InWindow, PayPC
  <2> QED
    BY <1>1, <1>b, <2>1, FinishShape DEF ReplayStored, Answer201, bounds, TypeOK
<1>2. CASE MissStored(w)
  <2> USE <1>2 DEF MissStored, CanLookup, GoTo, store, bounds
  <2>1. TypeOK'
    BY DEF TypeOK, PayPC
  <2>2. ProcessesOK'
    BY DEF TypeOK, ProcessesOK, PayPC, JobPC, Actors
  <2> QED
    BY <2>1, <2>2
<1>3. CASE Reserve(w)
  <2> USE <1>3 DEF Reserve, GoTo, store, bounds
  <2>1. TypeOK'
    BY <1>a DEF TypeOK, PayPC, Request
  <2>2. ProcessesOK'
    BY <1>a DEF TypeOK, ProcessesOK, PayPC, JobPC, Actors, Request
  <2> QED
    BY <2>1, <2>2
<1>4. CASE ReserveFails(w)
  <2> USE <1>4 DEF ReserveFails, GoTo, store, bounds
  <2>1. TypeOK'
    BY DEF TypeOK, PayPC
  <2>2. ProcessesOK'
    BY DEF TypeOK, ProcessesOK, PayPC, JobPC, Actors
  <2> QED
    BY <2>1, <2>2
<1>5. CASE ReplayRival(w)
  <2>1. receipts' \subseteq Receipt
    BY <1>5, ReceiptsShape DEF ReplayRival, InWindow, PayPC
  <2> QED
    BY <1>5, <1>b, <2>1, FinishShape DEF ReplayRival, Answer201, bounds, TypeOK
<1>6. CASE RefuseConcurrent(w)
  BY <1>6, <1>b, FinishShape DEF RefuseConcurrent, AnswerError, bounds, TypeOK
<1>7. CASE ReadInvoice(w)
  <2> USE <1>7 DEF ReadInvoice, GoTo, store, bounds
  <2>1. SnapshotOf(req[w].inv) \in View
    BY <1>a DEF SnapshotOf, View, TypeOK, Invoice, PayPC
  <2>2. TypeOK'
    BY <2>1 DEF TypeOK, PayPC
  <2>3. ProcessesOK'
    BY <2>1 DEF TypeOK, ProcessesOK, PayPC, JobPC, Actors
  <2> QED
    BY <2>2, <2>3
<1>8. CASE RefusePayment(w)
  BY <1>8, <1>b, FinishShape DEF RefusePayment, AnswerError, bounds, TypeOK
<1>9. CASE InsertPayment(w)
  <2> USE <1>9 DEF InsertPayment, GoTo, store, bounds
  <2>1. TypeOK'
    BY DEF TypeOK, PayPC
  <2>2. ProcessesOK'
    BY DEF TypeOK, ProcessesOK, PayPC, JobPC, Actors
  <2> QED
    BY <2>1, <2>2
<1>10. ASSUME pc[w] = "settle", NEW status \in Status, CommitPayment(w, status),
              invoice' \in [Invoices -> Invoice],
              snapshots' \in [Invoices -> Seq(Invoice)]
       PROVE  Shape'
  <2> USE <1>10 DEF CommitPayment, GoTo, bounds
  <2>1. req[w] \in Request /\ view[w] \in View
    BY DEF ProcessesOK, PayPC
  <2>2. Balance(w) \in Nat
    BY <2>1, BalanceNat
  <2>3. payments' \in Seq(Payment) /\ Len(payments) \in Nat
    BY <2>1 DEF TypeOK, Payment, Request
  <2>4. paid' \in [Invoices -> Nat]
    BY <2>1 DEF TypeOK, Request
  <2>5. /\ idem' \in [Keys -> Row \cup {None}]
        /\ \A k \in Keys : idem[k] # None => idem'[k] # None
        /\ idem'[req[w].key] # None
    <3> DEFINE row == [at |-> req[w].at, pid |-> Len(payments) + 1,
                       status |-> status, balance |-> Balance(w)]
    <3>1. row \in Row
      BY <2>1, <2>2, <2>3 DEF Row, Request
    <3>2. row # None
      BY <3>1, BillingAssumption
    <3>3. idem' = [idem EXCEPT ![req[w].key] = row]
      OBVIOUS
    <3> HIDE DEF row
    <3> QED
      BY <2>1, <3>1, <3>2, <3>3 DEF TypeOK, Request
  <2>6. TypeOK'
    BY <2>3, <2>4, <2>5 DEF TypeOK, PayPC
  <2>7. ProcessesOK'
    BY <2>1, <2>5 DEF TypeOK, ProcessesOK, PayPC, JobPC, Actors, Request
  <2> QED
    BY <2>6, <2>7
<1>11. CASE CommitPartial(w)
  <2>1. view[w].status \in Status
    BY <1>11 DEF CommitPartial, ProcessesOK, View
  <2> QED
    BY <1>10, <1>11, <2>1 DEF CommitPartial, TypeOK
<1>12. CASE CommitSettling(w)
  <2>1. view[w].version + 1 \in Nat /\ req[w].inv \in Invoices
    BY <1>12 DEF CommitSettling, ProcessesOK, View, PayPC, Request
  <2> DEFINE row == [invoice[req[w].inv] EXCEPT !.status = "paid",
                                              !.version = view[w].version + 1]
  <2>2. row \in Invoice
    <3> DEFINE old == invoice[req[w].inv]
               v == view[w].version + 1
    <3>1. old \in Invoice /\ v \in Nat
      BY <2>1 DEF TypeOK
    <3> HIDE DEF old, v
    <3>2. [old EXCEPT !.status = "paid", !.version = v] \in Invoice
      BY <3>1 DEF Invoice, Status
    <3> QED
      BY <3>2 DEF old, v
  <2>3. /\ invoice' = [invoice EXCEPT ![req[w].inv] = row]
        /\ snapshots' = [snapshots EXCEPT ![req[w].inv] = Append(@, row)]
    BY <1>12 DEF CommitSettling
  <2> HIDE DEF row
  <2>4. invoice' \in [Invoices -> Invoice] /\ snapshots' \in [Invoices -> Seq(Invoice)]
    BY <2>1, <2>2, <2>3 DEF TypeOK
  <2> QED
    BY <1>10, <1>12, <2>4 DEF CommitSettling, Status
<1>13. CASE SettleDeadlock(w)
  BY <1>13, <1>b, FinishShape DEF SettleDeadlock, AnswerError, bounds, TypeOK
<1>14. CASE AuditPayment(w)
  <2>1. receipts' \subseteq Receipt
    BY <1>14, ReceiptsShape DEF AuditPayment, ProcessesOK, PayPC
  <2>2. idem[req[w].key].pid \in Nat
    BY <1>14, <1>a DEF AuditPayment, TypeOK, ProcessesOK, PayPC, Row
  <2> USE <1>14 DEF AuditPayment, Answer201, Finish, bounds
  <2>3. TypeOK'
    BY <2>1, <2>2 DEF TypeOK
  <2>4. ProcessesOK'
    BY DEF TypeOK, ProcessesOK, PayPC, JobPC, Actors
  <2> QED
    BY <2>3, <2>4
<1> QED
  BY <1>1, <1>2, <1>3, <1>4, <1>5, <1>6, <1>7, <1>8, <1>9, <1>11, <1>12, <1>13, <1>14
     DEF PaymentStep

LEMMA RefundShape ==
  ASSUME Shape, NEW w \in Workers, NEW i \in Invoices, NEW m \in RefundAmounts,
         Refund(w, i, m)
  PROVE  Shape'
<1> USE DEF Shape, Refund
<1>1. m \in Nat
  BY BillingAssumption
<1>2. TypeOK'
  BY <1>1 DEF TypeOK
<1>3. ProcessesOK'
  BY DEF ProcessesOK
<1> QED
  BY <1>2, <1>3

LEMMA ReceiveShape ==
  ASSUME Shape, NEW w \in Workers, NEW k \in Keys, NEW i \in Invoices, NEW m \in PayAmounts,
         Receive(w, k, i, m)
  PROVE  Shape'
<1> USE DEF Shape, Receive, GoTo, store
<1>1. m \in Nat /\ Window \in Nat
  BY BillingAssumption
<1> DEFINE r == [key |-> k, inv |-> i, amount |-> m, cutoff |-> now - Window, at |-> 0]
<1>2. r \in Request
  BY <1>1 DEF Shape, TypeOK, Request
<1>3. req' = [req EXCEPT ![w] = r]
  OBVIOUS
<1> HIDE DEF r
<1>4. TypeOK'
  <2>1. req' \in [Workers -> Request \cup {None}]
    BY <1>2, <1>3 DEF TypeOK
  <2>2. pc' \in [Actors -> {"idle"} \cup PayPC \cup JobPC]
    BY DEF TypeOK, PayPC
  <2>3. received' \in Nat
    BY DEF TypeOK
  <2> QED
    BY <2>1, <2>2, <2>3 DEF TypeOK
<1>5. ProcessesOK'
  BY <1>2, <1>3 DEF TypeOK, ProcessesOK, PayPC, JobPC, Actors
<1> QED
  BY <1>4, <1>5

LEMMA StartJobsShape ==
  ASSUME Shape, NEW a \in Actors, StartJobs(a)
  PROVE  Shape'
<1> USE DEF Shape, StartJobs, GoTo, store, bounds
<1>1. Today \in Nat
  BY TodayNat DEF TypeOK
<1>2. TypeOK'
  BY <1>1 DEF TypeOK, Job, JobPC
<1>3. ProcessesOK'
  BY <1>1 DEF TypeOK, ProcessesOK, Job, PayPC, JobPC
<1> QED
  BY <1>2, <1>3

\* The write of one late fee, in either loop of the job.
LEMMA SetFeeInvoice ==
  ASSUME Shape, NEW a \in Actors, NEW i \in Invoices, job[a] \in Job, SetFee(a, i)
  PROVE  invoice' \in [Invoices -> Invoice]
<1> DEFINE fee == Fee(i, job[a].day)
           row == [invoice[i] EXCEPT !.fee = fee]
<1>1. fee \in Nat
  BY FeeNat DEF Job
<1>2. invoice' = [invoice EXCEPT ![i] = row]
  BY DEF SetFee
<1> HIDE DEF fee
<1>3. row \in Invoice
  BY <1>1 DEF Shape, TypeOK, Invoice
<1> QED
  BY <1>2, <1>3 DEF Shape, TypeOK

\* A runner that goes from one step of the job to another one.
LEMMA RunnerShape ==
  ASSUME Shape, NEW a \in Actors, NEW step \in JobPC, NEW j \in Job,
         pc' = [pc EXCEPT ![a] = step], job' = [job EXCEPT ![a] = j],
         step \in {"mark", "snap", "charge"} => j.cur \in Invoices,
         invoice' \in [Invoices -> Invoice], snapshots' \in [Invoices -> Seq(Invoice)],
         UNCHANGED <<now, payments, paid, refunded, idem, audited, receipts, req, view, bounds>>
  PROVE  Shape'
<1> USE DEF Shape, bounds
<1>1. TypeOK'
  BY DEF TypeOK
<1>2. ProcessesOK'
  BY DEF TypeOK, ProcessesOK, PayPC, JobPC, Actors
<1> QED
  BY <1>1, <1>2

LEMMA JobShape ==
  ASSUME Shape, NEW a \in Actors, JobStep(a)
  PROVE  Shape'
<1>a. pc[a] \in JobPC => job[a] \in Job
  BY DEF Shape, ProcessesOK
<1>b. pc[a] \in {"mark", "snap", "charge"} => job[a].cur \in Invoices
  BY DEF Shape, ProcessesOK
<1>c. pc \in [Actors -> {"idle"} \cup PayPC \cup JobPC] /\ job \in [Actors -> Job \cup {None}]
      /\ invoice \in [Invoices -> Invoice] /\ snapshots \in [Invoices -> Seq(Invoice)]
  BY DEF Shape, TypeOK
<1>d. \A j \in Job : /\ Released(j) \in Job
                    /\ \A i \in Invoices : Without(j, i) \in Job
  BY DEF Job, Released, Without
<1>e. \A f, S, T : f \in [S -> T] => \A x \in S : f = [f EXCEPT ![x] = f[x]]
  OBVIOUS
<1>1. ASSUME NEW i \in Invoices, PickInvoice(a, i)
      PROVE  Shape'
  <2> USE <1>1 DEF PickInvoice, store
  <2>1. job[a] \in Job /\ Without(job[a], i) \in Job /\ invoice[i].version \in Nat
    BY <1>a, <1>c, <1>d DEF JobPC, Invoice
  <2>a. UNCHANGED <<now, invoice, snapshots, payments, paid, refunded, idem, audited,
                    receipts, req, view, bounds>>
    OBVIOUS
  <2>2. CASE <<invoice[i].status, "overdue">> \in ValidTransitions
    <3>1. Picked(job[a], i) \in Job /\ Picked(job[a], i).cur = i
      BY <2>1 DEF Job, Picked
    <3>2. job' = [job EXCEPT ![a] = Picked(job[a], i)] /\ pc' = [pc EXCEPT ![a] = "mark"]
      BY <2>2 DEF GoTo
    <3>3. Picked(job[a], i).cur \in Invoices
      BY <3>1
    <3> HIDE DEF PickInvoice
    <3> QED
      BY <1>c, <2>a, <3>1, <3>2, <3>3, RunnerShape DEF JobPC
  <2>3. CASE <<invoice[i].status, "overdue">> \notin ValidTransitions
    <3>1. job' = [job EXCEPT ![a] = Without(job[a], i)] /\ pc' = [pc EXCEPT ![a] = "pick"]
      BY <2>3 DEF GoTo
    <3> QED
      BY <1>c, <2>1, <3>1, RunnerShape DEF JobPC
  <2> QED
    BY <2>2, <2>3
<1>2. ASSUME NEW i \in Invoices, RefreshFee(a, i)
      PROVE  Shape'
  <2> USE <1>2 DEF RefreshFee
  <2>1. job[a] \in Job /\ Without(job[a], i) \in Job
    BY <1>a, <1>d DEF JobPC
  <2>2. invoice' \in [Invoices -> Invoice]
    BY <2>1, SetFeeInvoice
  <2>3. job' = [job EXCEPT ![a] = Without(job[a], i)] /\ pc' = [pc EXCEPT ![a] = "refresh"]
    BY DEF GoTo
  <2> QED
    BY <1>c, <2>1, <2>2, <2>3, RunnerShape DEF JobPC, SetFee
<1>3. CASE MarkOverdue(a)
  <2> USE <1>3 DEF MarkOverdue
  <2> DEFINE i == job[a].cur
             v == job[a].version + 1
  <2>1. job[a] \in Job /\ i \in Invoices /\ v \in Nat
    BY <1>a, <1>b DEF JobPC, Job
  <2>2. invoice' = [invoice EXCEPT ![i] = [@ EXCEPT !.status = "overdue", !.version = v]]
    OBVIOUS
  <2>3. job' = [job EXCEPT ![a] = job[a]] /\ pc' = [pc EXCEPT ![a] = "snap"]
    BY <1>c, <1>e DEF GoTo
  <2> HIDE DEF i, v
  <2> DEFINE row == [invoice[i] EXCEPT !.status = "overdue", !.version = v]
  <2>4. row \in Invoice
    <3> DEFINE old == invoice[i]
    <3>1. old \in Invoice
      BY <1>c, <2>1
    <3> HIDE DEF old
    <3>2. [old EXCEPT !.status = "overdue", !.version = v] \in Invoice
      BY <2>1, <3>1 DEF Invoice, Status
    <3> QED
      BY <3>2 DEF old
  <2>5. invoice' = [invoice EXCEPT ![i] = row]
    BY <2>2
  <2> HIDE DEF row
  <2>6. invoice' \in [Invoices -> Invoice]
    BY <1>c, <2>1, <2>4, <2>5
  <2> QED
    BY <1>b, <1>c, <2>1, <2>3, <2>6, RunnerShape DEF JobPC
<1>4. CASE CreateSnapshot(a)
  <2> USE <1>4 DEF CreateSnapshot
  <2>1. job[a] \in Job /\ job[a].cur \in Invoices
    BY <1>a, <1>b DEF JobPC
  <2>2. snapshots' \in [Invoices -> Seq(Invoice)]
    BY <1>c, <2>1
  <2>3. job' = [job EXCEPT ![a] = job[a]] /\ pc' = [pc EXCEPT ![a] = "charge"]
    BY <1>c, <1>e DEF GoTo
  <2> QED
    BY <1>c, <2>1, <2>2, <2>3, RunnerShape DEF JobPC
<1>5. CASE ChargeInitialFee(a)
  <2> USE <1>5 DEF ChargeInitialFee
  <2>1. job[a] \in Job /\ job[a].cur \in Invoices
    BY <1>a, <1>b DEF JobPC
  <2>2. invoice' \in [Invoices -> Invoice]
    BY <2>1, SetFeeInvoice
  <2>3. Released(job[a]) \in Job
    BY <1>d, <2>1
  <2>4. job' = [job EXCEPT ![a] = Released(job[a])] /\ pc' = [pc EXCEPT ![a] = "pick"]
    BY DEF GoTo
  <2> QED
    BY <1>c, <2>2, <2>3, <2>4, RunnerShape DEF JobPC, SetFee
<1>6. CASE ListOverdue(a)
  <2> USE <1>6 DEF ListOverdue, store
  <2>1. job[a] \in Job /\ FeesToChange(job[a].day) \in SUBSET Invoices
    BY <1>a DEF JobPC, FeesToChange
  <2>2. Relisted(job[a]) \in Job
    BY <2>1 DEF Job, Relisted
  <2>3. job' = [job EXCEPT ![a] = Relisted(job[a])] /\ pc' = [pc EXCEPT ![a] = "refresh"]
    BY DEF GoTo
  <2> QED
    BY <1>c, <2>2, <2>3, RunnerShape DEF JobPC
<1>7. CASE EndJobs(a)
  BY <1>7, FinishShape DEF EndJobs, bounds, Shape, TypeOK
<1>8. CASE JobDeadlock(a)
  <2>1. CASE pc[a] = "refresh"
    BY <1>8, <2>1, FinishShape DEF JobDeadlock, bounds, Shape, TypeOK
  <2>2. CASE pc[a] # "refresh"
    <3> USE <1>8, <2>2 DEF JobDeadlock, store
    <3>1. Released(job[a]) \in Job
      BY <1>a, <1>d DEF JobPC
    <3>2. job' = [job EXCEPT ![a] = Released(job[a])] /\ pc' = [pc EXCEPT ![a] = "pick"]
      BY DEF GoTo
    <3>3. UNCHANGED <<now, invoice, snapshots, payments, paid, refunded, idem, audited,
                      receipts, req, view, bounds>>
      OBVIOUS
    <3> QED
      BY <1>c, <3>1, <3>2, <3>3, RunnerShape DEF JobPC
  <2> QED
    BY <2>1, <2>2
<1> QED
  BY <1>1, <1>2, <1>3, <1>4, <1>5, <1>6, <1>7, <1>8 DEF JobStep

LEMMA NextShape == Shape /\ [Next]_vars => Shape'
<1> SUFFICES ASSUME Shape, [Next]_vars PROVE Shape'
  OBVIOUS
<1>0. Workers \subseteq Actors /\ Runners \subseteq Actors
  <2>1. Runners \subseteq Actors
    BY BillingAssumption, Zenon
  <2> QED
    BY <2>1 DEF Actors
<1>1. CASE Tick
  BY <1>1 DEF Tick, Shape, TypeOK, ProcessesOK, store, bounds
<1>2. CASE \E w \in Workers, k \in Keys, i \in Invoices, m \in PayAmounts : Receive(w, k, i, m)
  BY <1>2, ReceiveShape
<1>3. CASE \E w \in Workers, i \in Invoices, m \in RefundAmounts : Refund(w, i, m)
  BY <1>3, RefundShape
<1>4. CASE \E w \in Workers : PaymentStep(w)
  BY <1>4, PaymentShape
<1>5. CASE \E w \in Workers : AuditFails(w)
  BY <1>5, <1>0, FinishShape DEF AuditFails, AnswerError, Shape, TypeOK
<1>6. CASE \E a \in Runners : StartJobs(a)
  BY <1>6, <1>0, StartJobsShape
<1>7. CASE \E a \in Runners : JobStep(a)
  BY <1>7, <1>0, JobShape
<1>8. CASE \E a \in Actors : Crash(a)
  BY <1>8, FinishShape DEF Crash, Shape, TypeOK
<1>9. CASE UNCHANGED vars
  BY <1>9 DEF vars, Shape, TypeOK, ProcessesOK, store, bounds
<1> QED
  BY <1>1, <1>2, <1>3, <1>4, <1>5, <1>6, <1>7, <1>8, <1>9 DEF Next

\* Type correctness of the billing tables and of every process, for any
\* number of API processes, keys, invoices and job runners.
THEOREM TypeCorrect == Spec => []TypeOK
<1>1. Spec => []Shape
  BY InitShape, NextShape, PTL DEF Spec
<1>2. Shape => TypeOK
  BY DEF Shape
<1> QED
  BY <1>1, <1>2, PTL

-----------------------------------------------------------------------------
(* The ledger: a key pays once.  ReservationsExclusive is what carries it:  *)
(* at the COMMIT the key of the transaction is still unused, and nobody     *)
(* else holds it.                                                          *)

Holding == {"verify", "insert", "settle"}

Ledger == Shape /\ ReservationsExclusive /\ OneKeyOnePayment /\ AnswersAgree

\* A step that commits no payment and takes no reservation: processes may
\* leave their reservation, and a worker may acknowledge a stored response.
Acknowledged(w) ==
  receipts' = receipts \cup {[key |-> req[w].key, inv |-> req[w].inv,
                              amount |-> req[w].amount, result |-> idem[req[w].key]]}

Quiet ==
  /\ UNCHANGED <<payments, paid, idem>>
  /\ \A w \in Workers : pc'[w] \in Holding =>
       pc[w] \in Holding /\ req'[w].key = req[w].key
  /\ \/ UNCHANGED receipts
     \/ \E w \in Workers : /\ pc[w] \in PayPC /\ idem[req[w].key] # None
                           /\ Acknowledged(w)

\* A worker takes the reservation of an unused key.
Reserving(w) ==
  /\ UNCHANGED <<payments, paid, idem, receipts>>
  /\ idem[req[w].key] = None /\ RowFree(w, req[w].key)
  /\ \A v \in Workers : req'[v].key = req[v].key
  /\ \A v \in Workers : v # w => pc'[v] = pc[v]

\* A worker commits its payment.
Committing(w) == pc[w] = "settle" /\ \E status \in Status : CommitPayment(w, status)

LEMMA FinishQuiet ==
  ASSUME Shape, NEW a \in Actors, Finish(a), UNCHANGED <<payments, paid, idem, receipts>>
  PROVE  Quiet
  BY DEF Shape, TypeOK, Finish, Quiet, Holding, Actors

LEMMA AnswerQuiet ==
  ASSUME Shape, NEW w \in Workers, pc[w] \in PayPC, idem[req[w].key] # None,
         Answer201(w), UNCHANGED <<payments, paid, idem>>
  PROVE  Quiet
  BY DEF Shape, TypeOK, Answer201, Finish, Quiet, Holding, Acknowledged, Actors

\* Every step of the payment code is one of the three kinds.
LEMMA PaymentKinds ==
  ASSUME Shape, NEW w \in Workers, PaymentStep(w)
  PROVE  Quiet \/ Reserving(w) \/ Committing(w)
<1> USE DEF Shape
<1>b. w \in Actors
  BY DEF Actors
<1>1. CASE ReplayStored(w)
  BY <1>1, AnswerQuiet DEF ReplayStored, CanLookup, InWindow, PayPC, store
<1>2. CASE MissStored(w)
  BY <1>2 DEF MissStored, CanLookup, GoTo, TypeOK, Quiet, Holding, Actors, store
<1>3. CASE Reserve(w)
  BY <1>3 DEF Reserve, GoTo, TypeOK, ProcessesOK, PayPC, Request, Reserving, Actors, store
<1>4. CASE ReserveFails(w)
  BY <1>4 DEF ReserveFails, GoTo, TypeOK, Quiet, Holding, Actors, store
<1>5. CASE ReplayRival(w)
  BY <1>5, AnswerQuiet DEF ReplayRival, InWindow, PayPC, store
<1>6. CASE RefuseConcurrent(w)
  BY <1>6, <1>b, FinishQuiet DEF RefuseConcurrent, AnswerError, store
<1>7. CASE ReadInvoice(w)
  BY <1>7 DEF ReadInvoice, GoTo, TypeOK, Quiet, Holding, Actors, store
<1>8. CASE RefusePayment(w)
  BY <1>8, <1>b, FinishQuiet DEF RefusePayment, AnswerError, store
<1>9. CASE InsertPayment(w)
  BY <1>9 DEF InsertPayment, GoTo, TypeOK, Quiet, Holding, Actors, store
<1>10. CASE CommitPartial(w)
  BY <1>10 DEF CommitPartial, Committing, ProcessesOK, View
<1>11. CASE CommitSettling(w)
  BY <1>11 DEF CommitSettling, Committing, Status
<1>12. CASE SettleDeadlock(w)
  BY <1>12, <1>b, FinishQuiet DEF SettleDeadlock, AnswerError, store
<1>13. CASE AuditPayment(w)
  BY <1>13, AnswerQuiet DEF AuditPayment, ProcessesOK, PayPC
<1> QED
  BY <1>1, <1>2, <1>3, <1>4, <1>5, <1>6, <1>7, <1>8, <1>9, <1>10, <1>11, <1>12, <1>13
     DEF PaymentStep

\* So is every step of the system.
LEMMA StepKinds ==
  ASSUME Shape, [Next]_vars
  PROVE  Quiet \/ \E w \in Workers : Reserving(w) \/ Committing(w)
<1>0. Workers \subseteq Actors /\ Runners \subseteq Actors
  <2>1. Runners \subseteq Actors
    BY BillingAssumption, Zenon
  <2> QED
    BY <2>1 DEF Actors
<1>1. CASE Tick
  BY <1>1 DEF Tick, Quiet, store
<1>2. CASE \E w \in Workers, k \in Keys, i \in Invoices, m \in PayAmounts : Receive(w, k, i, m)
  BY <1>2 DEF Receive, GoTo, Shape, TypeOK, Quiet, Holding, Actors, store
<1>3. CASE \E w \in Workers, i \in Invoices, m \in RefundAmounts : Refund(w, i, m)
  BY <1>3 DEF Refund, Quiet
<1>4. CASE \E w \in Workers : PaymentStep(w)
  BY <1>4, PaymentKinds
<1>5. CASE \E w \in Workers : AuditFails(w)
  BY <1>5, <1>0, FinishQuiet DEF AuditFails, AnswerError, store
<1>6. CASE \E a \in Runners : StartJobs(a)
  BY <1>0, <1>6 DEF StartJobs, GoTo, Shape, TypeOK, Quiet, Holding, Actors, store
<1>7. ASSUME NEW a \in Runners, JobStep(a)
      PROVE  Quiet
  <2>1. CASE \E i \in Invoices : PickInvoice(a, i)
    BY <1>0, <2>1 DEF PickInvoice, GoTo, Shape, TypeOK, Quiet, Holding, Actors, store
  <2>2. CASE \E i \in Invoices : RefreshFee(a, i)
    BY <1>0, <2>2 DEF RefreshFee, SetFee, GoTo, Shape, TypeOK, Quiet, Holding, Actors
  <2>3. CASE MarkOverdue(a)
    BY <1>0, <2>3 DEF MarkOverdue, GoTo, Shape, TypeOK, Quiet, Holding, Actors
  <2>4. CASE CreateSnapshot(a)
    BY <1>0, <2>4 DEF CreateSnapshot, GoTo, Shape, TypeOK, Quiet, Holding, Actors
  <2>5. CASE ChargeInitialFee(a)
    BY <1>0, <2>5 DEF ChargeInitialFee, SetFee, GoTo, Shape, TypeOK, Quiet, Holding, Actors
  <2>6. CASE ListOverdue(a)
    BY <1>0, <2>6 DEF ListOverdue, GoTo, Shape, TypeOK, Quiet, Holding, Actors, store
  <2>7. CASE EndJobs(a)
    BY <1>0, <2>7, FinishQuiet DEF EndJobs, store
  <2>8. CASE JobDeadlock(a)
    BY <1>0, <2>8, FinishQuiet
       DEF JobDeadlock, GoTo, Shape, TypeOK, Quiet, Holding, Actors, store
  <2> QED
    BY <1>7, <2>1, <2>2, <2>3, <2>4, <2>5, <2>6, <2>7, <2>8 DEF JobStep
<1>8. CASE \E a \in Actors : Crash(a)
  BY <1>8, FinishQuiet DEF Crash, store
<1>9. CASE UNCHANGED vars
  BY <1>9 DEF vars, Quiet, store
<1> QED
  BY <1>1, <1>2, <1>3, <1>4, <1>5, <1>6, <1>7, <1>8, <1>9 DEF Next

LEMMA InitLedger == Init => Ledger
<1> SUFFICES ASSUME Init PROVE Ledger
  OBVIOUS
<1>1. ReservationsExclusive /\ AnswersAgree
  BY DEF Init, ReservationsExclusive, AnswersAgree, Actors
<1>2. OneKeyOnePayment
  BY DEF Init, OneKeyOnePayment
<1> QED
  BY <1>1, <1>2, InitShape DEF Ledger

LEMMA QuietLedger ==
  ASSUME Ledger, Shape', Quiet
  PROVE  Ledger'
<1> USE DEF Ledger, Quiet
<1>1. ReservationsExclusive'
  BY DEF ReservationsExclusive, RowFree, HoldsRow, Others, Holding
<1>2. OneKeyOnePayment'
  BY DEF OneKeyOnePayment
<1>3. AnswersAgree'
  BY DEF AnswersAgree, Acknowledged
<1> QED
  BY <1>1, <1>2, <1>3

LEMMA ReservingLedger ==
  ASSUME Ledger, Shape', NEW w \in Workers, Reserving(w)
  PROVE  Ledger'
<1> USE DEF Ledger, Reserving
<1>1. ReservationsExclusive'
  BY DEF ReservationsExclusive, RowFree, HoldsRow, Others
<1>2. OneKeyOnePayment'
  BY DEF OneKeyOnePayment
<1>3. AnswersAgree'
  BY DEF AnswersAgree
<1> QED
  BY <1>1, <1>2, <1>3

\* What a COMMIT does to the ledger tables, with the new rows named.
LEMMA CommitEffect ==
  ASSUME Ledger, NEW w \in Workers, Committing(w)
  PROVE  \E row \in Row, p \in Payment :
           /\ req[w] \in Request /\ row.pid = Len(payments) + 1
           /\ p = [inv |-> req[w].inv, amount |-> req[w].amount, key |-> req[w].key]
           /\ p.key = req[w].key
           /\ idem[p.key] = None
           /\ payments' = Append(payments, p)
           /\ idem' = [idem EXCEPT ![p.key] = row]
           /\ paid' = [paid EXCEPT ![p.inv] = @ + p.amount]
           /\ UNCHANGED <<receipts, req>>
<1> PICK status \in Status : CommitPayment(w, status)
  BY DEF Committing
<1>1. req[w] \in Request /\ view[w] \in View /\ idem[req[w].key] = None
  BY DEF Committing, Ledger, Shape, ProcessesOK, PayPC, ReservationsExclusive
<1>2. Balance(w) \in Nat
  BY <1>1, BalanceNat
<1> DEFINE row == [at |-> req[w].at, pid |-> Len(payments) + 1,
                   status |-> status, balance |-> Balance(w)]
           p == [inv |-> req[w].inv, amount |-> req[w].amount, key |-> req[w].key]
<1>3. row \in Row /\ row.pid = Len(payments) + 1
  BY <1>1, <1>2 DEF Ledger, Shape, TypeOK, Row, Request
<1>4. p \in Payment /\ p.key = req[w].key /\ p.inv = req[w].inv /\ p.amount = req[w].amount
  BY <1>1 DEF Payment, Request
<1>5. payments' = Append(payments, p)
  BY DEF CommitPayment
<1>6. idem' = [idem EXCEPT ![req[w].key] = row]
  BY DEF CommitPayment
<1>7. paid' = [paid EXCEPT ![req[w].inv] = @ + req[w].amount] /\ UNCHANGED <<receipts, req>>
  BY DEF CommitPayment
<1> QED
  <2>1. p = [inv |-> req[w].inv, amount |-> req[w].amount, key |-> req[w].key]
    OBVIOUS
  <2> HIDE DEF row, p
  <2> QED
    BY <1>1, <1>3, <1>4, <1>5, <1>6, <1>7, <2>1

LEMMA CommittingLedger ==
  ASSUME Ledger, Shape', NEW w \in Workers, Committing(w)
  PROVE  Ledger'
<1> PICK row \in Row, p \in Payment :
           /\ req[w] \in Request /\ row.pid = Len(payments) + 1
           /\ p.key = req[w].key
           /\ idem[p.key] = None
           /\ payments' = Append(payments, p)
           /\ idem' = [idem EXCEPT ![p.key] = row]
           /\ UNCHANGED <<receipts, req>>
  BY CommitEffect
<1>1. row # None /\ p.key \in Keys /\ idem'[p.key] = row
  BY BillingAssumption DEF Payment, Ledger, Shape, TypeOK
<1>2. \A k \in Keys : k # p.key => idem'[k] = idem[k]
  BY DEF Ledger, Shape, TypeOK
<1>3. payments \in Seq(Payment) /\ \A q \in DOMAIN payments : payments[q] \in Payment
  BY DEF Ledger, Shape, TypeOK
<1>4. /\ DOMAIN payments' = DOMAIN payments \cup {Len(payments) + 1}
      /\ payments'[Len(payments) + 1] = p
      /\ \A q \in DOMAIN payments : payments'[q] = payments[q]
  BY <1>3
<1>5. ReservationsExclusive'
  <2>1. pc' = [pc EXCEPT ![w] = "audit"]
    BY DEF Committing, CommitPayment, GoTo
  <2>2. \A v \in Workers : pc'[v] \in Holding => v # w /\ pc[v] \in Holding
    BY <2>1 DEF Ledger, Shape, TypeOK, Holding, Actors
  <2>3. \A v \in Workers : pc[v] \in Holding => req[v].key \in Keys
    BY DEF Ledger, Shape, ProcessesOK, PayPC, Holding, Request
  <2>4. \A v \in Workers : pc[v] \in Holding /\ v # w => req[v].key # req[w].key
    BY DEF Committing, Ledger, ReservationsExclusive, RowFree, HoldsRow, Others, Holding
  <2> QED
    BY <1>2, <2>2, <2>3, <2>4
       DEF Ledger, ReservationsExclusive, RowFree, HoldsRow, Others, Holding
<1>6. OneKeyOnePayment'
  <2>1. \A q \in DOMAIN payments : payments[q].key # p.key /\ payments[q].key \in Keys
    BY <1>3 DEF Ledger, OneKeyOnePayment, Payment
  <2>2. ASSUME NEW q \in DOMAIN payments'
        PROVE  idem'[payments'[q].key] # None /\ idem'[payments'[q].key].pid = q
    BY <1>1, <1>2, <1>4, <2>1 DEF Ledger, OneKeyOnePayment
  <2>3. ASSUME NEW k \in Keys, idem'[k] # None
        PROVE  idem'[k].pid \in DOMAIN payments' /\ payments'[idem'[k].pid].key = k
    BY <1>1, <1>2, <1>4, <2>3 DEF Ledger, OneKeyOnePayment
  <2> QED
    BY <2>2, <2>3 DEF OneKeyOnePayment
<1>7. AnswersAgree'
  <2>1. \A r \in receipts : r.key \in Keys /\ r.result \in Row
    BY DEF Ledger, Shape, TypeOK, Receipt
  <2>2. \A r \in receipts : r.result # None
    BY <2>1, BillingAssumption
  <2>3. \A r \in receipts : r.key # p.key
    BY <2>2 DEF Ledger, AnswersAgree
  <2> QED
    BY <1>2, <2>1, <2>3 DEF Ledger, AnswersAgree
<1> QED
  BY <1>5, <1>6, <1>7 DEF Ledger

LEMMA NextLedger == Ledger /\ [Next]_vars => Ledger'
<1> SUFFICES ASSUME Ledger, [Next]_vars PROVE Ledger'
  OBVIOUS
<1>1. Shape'
  BY NextShape DEF Ledger
<1>2. Quiet \/ \E w \in Workers : Reserving(w) \/ Committing(w)
  BY StepKinds DEF Ledger
<1> QED
  BY <1>1, <1>2, QuietLedger, ReservingLedger, CommittingLedger

LEMMA LedgerAlways == Spec => []Ledger
  BY InitLedger, NextLedger, PTL DEF Spec

\* A key pays once, for any number of API processes, retries and crashes.
THEOREM KeyPaysOnce == Spec => []OneKeyOnePayment
<1>1. Ledger => OneKeyOnePayment
  BY DEF Ledger
<1> QED
  BY <1>1, LedgerAlways, PTL

\* Every answer to a key is the stored response of its one payment.
THEOREM EveryAnswerAgrees == Spec => []AnswersAgree
<1>1. Ledger => AnswersAgree
  BY DEF Ledger
<1> QED
  BY <1>1, LedgerAlways, PTL

-----------------------------------------------------------------------------
(* POST /payments implements PayOnce: a COMMIT is a Post, an answer is an   *)
(* Acknowledge, and everything else stutters.                              *)

Acks == {<<r.key, r.result.pid>> : r \in receipts}
Posted == [k \in Keys |-> EntriesOf(k)]

LEMMA InitOnce == Init => Once!Init
<1> SUFFICES ASSUME Init PROVE Once!Init
  OBVIOUS
<1>1. payments = <<>> /\ receipts = {} /\ paid = [i \in Invoices |-> 0]
  BY DEF Init
<1>2. DOMAIN payments = {}
  BY <1>1
<1>3. \A k \in Keys : EntriesOf(k) = {}
  BY <1>2 DEF EntriesOf
<1>4. Acks = {}
  BY <1>1 DEF Acks
<1> QED
  BY <1>1, <1>3, <1>4 DEF Once!Init, Acks

LEMMA QuietOnce ==
  ASSUME Ledger, Quiet
  PROVE  \/ UNCHANGED <<Posted, paid, Acks>>
         \/ \E k \in Keys : Once!Acknowledge(k)
<1>1. Posted' = Posted /\ paid' = paid
  BY DEF Quiet, Posted, EntriesOf
<1>2. CASE UNCHANGED receipts
  BY <1>1, <1>2 DEF Acks
<1>3. ASSUME NEW w \in Workers, pc[w] \in PayPC, idem[req[w].key] # None, Acknowledged(w)
      PROVE  \E k \in Keys : Once!Acknowledge(k)
  <2> PICK k \in Keys : k = req[w].key
    BY <1>3 DEF Ledger, Shape, ProcessesOK, Request
  <2> DEFINE x == [key |-> k, inv |-> req[w].inv, amount |-> req[w].amount,
                   result |-> idem[k]]
  <2>2. idem[k].pid \in DOMAIN payments /\ payments[idem[k].pid].key = k
    BY <1>3 DEF Ledger, OneKeyOnePayment
  <2> DEFINE e == [id |-> idem[k].pid, inv |-> payments[idem[k].pid].inv,
                   amount |-> payments[idem[k].pid].amount]
  <2>3. e \in EntriesOf(k) /\ e.id = idem[k].pid
    BY <2>2 DEF EntriesOf
  <2>4. receipts' = receipts \cup {x}
    BY <1>3 DEF Acknowledged
  <2>5. x.key = k /\ x.result = idem[k]
    OBVIOUS
  <2> HIDE DEF x, e
  <2>6. Acks' = Acks \cup {<<k, e.id>>}
    BY <2>3, <2>4, <2>5 DEF Acks
  <2>7. \E f \in Posted[k] : Acks' = Acks \cup {<<k, f.id>>}
    BY <2>3, <2>6 DEF Posted
  <2>8. Once!Acknowledge(k)
    BY <1>1, <2>7 DEF Once!Acknowledge, Posted, Acks
  <2> QED
    BY <2>8
<1> QED
  BY <1>2, <1>3 DEF Quiet

LEMMA CommittingOnce ==
  ASSUME Ledger, NEW w \in Workers, Committing(w)
  PROVE  \E k \in Keys : Once!Post(k)
<1> PICK row \in Row, p \in Payment :
           /\ p.key = req[w].key
           /\ idem[p.key] = None
           /\ payments' = Append(payments, p)
           /\ paid' = [paid EXCEPT ![p.inv] = @ + p.amount]
           /\ UNCHANGED <<receipts, req>>
  BY CommitEffect
<1> DEFINE n == Len(payments) + 1
           e == [id |-> n, inv |-> p.inv, amount |-> p.amount]
           k == p.key
<1>1. k \in Keys /\ e.id = n /\ e.inv = p.inv /\ e.amount = p.amount
  BY DEF Payment
<1>2. payments \in Seq(Payment)
  BY DEF Ledger, Shape, TypeOK
<1>3. /\ DOMAIN payments = 1 .. Len(payments) /\ Len(payments) \in Nat
      /\ DOMAIN payments' = DOMAIN payments \cup {n} /\ n \notin DOMAIN payments
      /\ payments'[n] = p
      /\ \A q \in DOMAIN payments : payments'[q] = payments[q]
  BY <1>2
<1>4. \A q \in DOMAIN payments : payments[q].key # k
  BY DEF Ledger, OneKeyOnePayment
<1>5. EntriesOf(k) = {}
  BY <1>4 DEF EntriesOf
<1>6. EntriesOf(k)' = {e}
  <2>1. {q \in DOMAIN payments' : payments'[q].key = k} = {n}
    BY <1>3, <1>4
  <2>2. EntriesOf(k)' = {[id |-> q, inv |-> payments'[q].inv, amount |-> payments'[q].amount]
                          : q \in {n}}
    BY <2>1 DEF EntriesOf
  <2> QED
    BY <1>3, <2>2
<1>7. ASSUME NEW l \in Keys, l # k
      PROVE  EntriesOf(l)' = EntriesOf(l)
  <2> DEFINE S == {q \in DOMAIN payments : payments[q].key = l}
  <2>1. {q \in DOMAIN payments' : payments'[q].key = l} = S
    BY <1>3, <1>7
  <2>2. EntriesOf(l)' = {[id |-> q, inv |-> payments'[q].inv, amount |-> payments'[q].amount]
                          : q \in S}
    BY <2>1 DEF EntriesOf
  <2>3. \A q \in S : payments'[q] = payments[q]
    BY <1>3
  <2> HIDE DEF S
  <2>4. EntriesOf(l)' = {[id |-> q, inv |-> payments[q].inv, amount |-> payments[q].amount]
                          : q \in S}
    BY <2>2, <2>3
  <2> QED
    BY <2>4 DEF EntriesOf, S
<1>8. \A l \in Keys : \A f \in EntriesOf(l) : f.id # n
  BY <1>3 DEF EntriesOf
<1> HIDE DEF e, k, n
<1>9. Posted' = [Posted EXCEPT ![k] = {e}] /\ e \in Posted'[k] /\ Posted[k] = {}
  BY <1>1, <1>5, <1>6, <1>7 DEF Posted
<1>10. Once!Fresh(e.id)
  BY <1>1, <1>8 DEF Once!Fresh
<1>11. paid' = [paid EXCEPT ![e.inv] = @ + e.amount]
  BY <1>1
<1>12. Acks' = Acks
  BY DEF Acks
<1>13. Once!Post(k)
  BY <1>9, <1>10, <1>11, <1>12 DEF Once!Post, Posted, Acks
<1> QED
  BY <1>1, <1>13

\* Seen from the clients, the payment code is a ledger in which a key pays
\* once and is acknowledged with that payment only.
THEOREM PaymentsImplementPayOnce == Spec => PaysOnce
<1>1. Init => Once!Init
  BY InitOnce
<1>2. Ledger /\ [Next]_vars => [Once!Next]_<<Posted, paid, Acks>>
  <2> SUFFICES ASSUME Ledger, [Next]_vars
               PROVE  [Once!Next]_<<Posted, paid, Acks>>
    OBVIOUS
  <2>1. CASE Quiet
    BY <2>1, QuietOnce DEF Once!Next
  <2>2. CASE \E w \in Workers : Reserving(w)
    BY <2>2 DEF Reserving, Posted, EntriesOf, Acks
  <2>3. CASE \E w \in Workers : Committing(w)
    BY <2>3, CommittingOnce DEF Once!Next
  <2> QED
    BY <2>1, <2>2, <2>3, StepKinds DEF Ledger
<1> QED
  BY <1>1, <1>2, LedgerAlways, PTL DEF Spec, PaysOnce, Once!Spec, Posted, Acks

=============================================================================
