-------------------------- MODULE Settlement_proofs --------------------------
(* Proofs about Billing's invoices: snapshots, late fees and, for one API   *)
(* process, how an invoice is settled.                                     *)
EXTENDS Billing_proofs

\* The only steps that write an invoice or a snapshot.
Charging(a) ==
  \E i \in Invoices : /\ job[a] \in Job /\ pc[a] \in JobPC
                      /\ SetFee(a, i)

LEMMA InvoiceWriters ==
  ASSUME Shape, [Next]_vars
  PROVE  \/ UNCHANGED <<invoice, snapshots>>
         \/ \E w \in Workers : CommitSettling(w)
         \/ \E a \in Runners : MarkOverdue(a) \/ CreateSnapshot(a) \/ Charging(a)
<1> USE DEF store
<1>1. CASE Tick
  BY <1>1 DEF Tick
<1>2. ASSUME NEW w \in Workers,
             \/ \E k \in Keys, i \in Invoices, m \in PayAmounts : Receive(w, k, i, m)
             \/ \E i \in Invoices, m \in RefundAmounts : Refund(w, i, m)
             \/ AuditFails(w)
      PROVE  UNCHANGED <<invoice, snapshots>>
  BY <1>2 DEF Receive, Refund, AuditFails
<1>3. ASSUME NEW w \in Workers, PaymentStep(w)
      PROVE  UNCHANGED <<invoice, snapshots>> \/ CommitSettling(w)
  BY <1>3 DEF PaymentStep, ReplayStored, MissStored, Reserve, ReserveFails, ReplayRival,
              RefuseConcurrent, ReadInvoice, RefusePayment, InsertPayment, CommitPartial,
              SettleDeadlock, AuditPayment
<1>4. ASSUME NEW a \in Runners, StartJobs(a)
      PROVE  UNCHANGED <<invoice, snapshots>>
  BY <1>4 DEF StartJobs
<1>5. ASSUME NEW a \in Runners, JobStep(a)
      PROVE  \/ UNCHANGED <<invoice, snapshots>>
             \/ MarkOverdue(a) \/ CreateSnapshot(a) \/ Charging(a)
  <2>0. a \in Actors
    BY BillingAssumption, Zenon
  <2>1. pc[a] \in JobPC => job[a] \in Job
    BY <2>0 DEF Shape, ProcessesOK
  <2>2. ASSUME NEW i \in Invoices, RefreshFee(a, i)
        PROVE  Charging(a)
    BY <2>1, <2>2 DEF RefreshFee, Charging, JobPC
  <2>3. CASE ChargeInitialFee(a)
    <3>1. job[a].cur \in Invoices
      BY <2>0, <2>3 DEF ChargeInitialFee, Shape, ProcessesOK
    <3> QED
      BY <2>1, <2>3, <3>1 DEF ChargeInitialFee, Charging, JobPC
  <2> QED
    BY <1>5, <2>2, <2>3 DEF JobStep, PickInvoice, ListOverdue, EndJobs, JobDeadlock
<1>6. ASSUME NEW a \in Actors, Crash(a)
      PROVE  UNCHANGED <<invoice, snapshots>>
  BY <1>6 DEF Crash
<1>7. CASE UNCHANGED vars
  BY <1>7 DEF vars
<1> QED
  BY <1>1, <1>2, <1>3, <1>4, <1>5, <1>6, <1>7 DEF Next

-----------------------------------------------------------------------------
LEMMA SnapshotsShape ==
  ASSUME Shape, NEW i \in Invoices
  PROVE  /\ invoice[i] \in Invoice /\ snapshots[i] \in Seq(Invoice)
         /\ \A row \in Invoice :
              /\ DOMAIN Append(snapshots[i], row) = DOMAIN snapshots[i] \cup {Len(snapshots[i]) + 1}
              /\ Append(snapshots[i], row)[Len(snapshots[i]) + 1] = row
              /\ \A s \in DOMAIN snapshots[i] : Append(snapshots[i], row)[s] = snapshots[i][s]
<1>1. invoice[i] \in Invoice /\ snapshots[i] \in Seq(Invoice)
  BY DEF Shape, TypeOK
<1> QED
  BY <1>1

LEMMA NextSnapshot == Shape /\ SettledHasSnapshot /\ [Next]_vars => SettledHasSnapshot'
<1> SUFFICES ASSUME Shape, SettledHasSnapshot, [Next]_vars, NEW i \in Invoices,
                    invoice'[i].status = "paid"
             PROVE  \E s \in DOMAIN snapshots'[i] : snapshots'[i][s].status = "paid"
  BY DEF SettledHasSnapshot
<1>0. Runners \subseteq Actors
  BY BillingAssumption, Zenon
<1>a. invoice \in [Invoices -> Invoice] /\ snapshots \in [Invoices -> Seq(Invoice)]
  BY DEF Shape, TypeOK
<1>1. CASE UNCHANGED <<invoice, snapshots>>
  BY <1>1 DEF SettledHasSnapshot
<1>2. ASSUME NEW w \in Workers, CommitSettling(w)
      PROVE  \E s \in DOMAIN snapshots'[i] : snapshots'[i][s].status = "paid"
  <2> PICK row : /\ row.status = "paid" /\ row \in Invoice
                 /\ invoice' = [invoice EXCEPT ![req[w].inv] = row]
                 /\ snapshots' = [snapshots EXCEPT ![req[w].inv] = Append(@, row)]
    <3> DEFINE v == view[w].version + 1
               old == invoice[req[w].inv]
    <3>1. v \in Nat /\ old \in Invoice
      BY <1>2, <1>a DEF CommitSettling, Shape, ProcessesOK, View, PayPC, Request
    <3> HIDE DEF v, old
    <3>2. /\ [old EXCEPT !.status = "paid", !.version = v] \in Invoice
          /\ [old EXCEPT !.status = "paid", !.version = v].status = "paid"
      BY <3>1 DEF Invoice, Status
    <3> QED
      BY <1>2, <3>2 DEF CommitSettling, v, old
  <2>1. CASE i = req[w].inv
    BY <1>a, <2>1, SnapshotsShape
  <2>2. CASE i # req[w].inv
    BY <1>a, <2>2 DEF SettledHasSnapshot
  <2> QED
    BY <2>1, <2>2
<1>3. ASSUME NEW a \in Runners, MarkOverdue(a)
      PROVE  \E s \in DOMAIN snapshots'[i] : snapshots'[i][s].status = "paid"
  <2> DEFINE row == [invoice[job[a].cur] EXCEPT !.status = "overdue",
                                                !.version = job[a].version + 1]
  <2>1. invoice' = [invoice EXCEPT ![job[a].cur] = row] /\ UNCHANGED snapshots
    BY <1>3 DEF MarkOverdue
  <2>2. job[a].cur \in Invoices
    BY <1>0, <1>3 DEF MarkOverdue, Shape, ProcessesOK
  <2>3. row.status = "overdue"
    <3> DEFINE old == invoice[job[a].cur]
               v == job[a].version + 1
    <3>1. old \in Invoice
      BY <1>a, <2>2
    <3> HIDE DEF old, v
    <3>2. [old EXCEPT !.status = "overdue", !.version = v].status = "overdue"
      BY <3>1 DEF Invoice
    <3> QED
      BY <3>2 DEF old, v
  <2> HIDE DEF row
  <2>4. i # job[a].cur
    BY <1>a, <2>1, <2>3
  <2> QED
    BY <1>a, <2>1, <2>4 DEF SettledHasSnapshot
<1>4. ASSUME NEW a \in Runners, CreateSnapshot(a)
      PROVE  \E s \in DOMAIN snapshots'[i] : snapshots'[i][s].status = "paid"
  <2>1. /\ invoice' = invoice
        /\ snapshots' = [snapshots EXCEPT ![job[a].cur] = Append(@, invoice[job[a].cur])]
    BY <1>4 DEF CreateSnapshot
  <2>2. PICK s \in DOMAIN snapshots[i] : snapshots[i][s].status = "paid"
    BY <2>1 DEF SettledHasSnapshot
  <2>3. CASE i = job[a].cur
    <3>1. s \in DOMAIN snapshots'[i] /\ snapshots'[i][s] = snapshots[i][s]
      BY <1>a, <2>1, <2>3, SnapshotsShape
    <3> QED
      BY <2>2, <3>1
  <2>4. CASE i # job[a].cur
    BY <1>a, <2>1, <2>2, <2>4
  <2> QED
    BY <2>3, <2>4
<1>5. ASSUME NEW a \in Runners, Charging(a)
      PROVE  \E s \in DOMAIN snapshots'[i] : snapshots'[i][s].status = "paid"
  <2>1. UNCHANGED snapshots /\ invoice'[i].status = invoice[i].status
    BY <1>5, <1>a DEF Charging, SetFee, Invoice
  <2> QED
    BY <2>1 DEF SettledHasSnapshot
<1> QED
  BY <1>1, <1>2, <1>3, <1>4, <1>5, InvoiceWriters

\* However payments and job runs interleave, or die in between, an invoice
\* that is paid has a snapshot of it (transition and createSnapshot inside the
\* transaction of the payment).
THEOREM SettlingLeavesSnapshot == Spec => []SettledHasSnapshot
<1>1. Init => SettledHasSnapshot
  BY DEF Init, SettledHasSnapshot
<1>2. Init => Shape
  BY InitShape
<1>3. Shape /\ SettledHasSnapshot /\ [Next]_vars => (Shape /\ SettledHasSnapshot)'
  BY NextShape, NextSnapshot
<1> QED
  BY <1>1, <1>2, <1>3, PTL DEF Spec

-----------------------------------------------------------------------------
(* Late fees.  What makes FeeNeverAhead inductive is that no run works with *)
(* a day that has not come yet.                                            *)

RunsNotAhead == \A a \in Actors : pc[a] \in JobPC => job[a].day <= Today

FeesInv == Shape /\ FeeNeverAhead /\ RunsNotAhead

\* The exact rate of an invoice in one day, in hundredths of a basis point.
Rate(i) == Amount[i] * DailyRateBps

LEMMA RateNat ==
  ASSUME NEW i \in Invoices
  PROVE  Rate(i) \in Nat
  BY ConstantTypes, FeeAssumption, ProductNat DEF Rate

LEMMA DivMonotone ==
  ASSUME NEW n \in Nat, NEW m \in Nat, NEW d \in Nat, d > 0, n <= m
  PROVE  n \div d <= m \div d
<1> DEFINE q == n \div d
           p == m \div d
<1>1. q \in Nat /\ d * q <= n /\ n < d * q + d
  OBVIOUS
<1>2. p \in Nat /\ d * p <= m /\ m < d * p + d
  OBVIOUS
<1> HIDE DEF q, p
<1>3. ASSUME p < q
      PROVE  FALSE
  <2>1. d * (p + 1) <= d * q
    BY <1>1, <1>2, <1>3, ProductMonotone
  <2>2. d * (p + 1) = d * p + d
    BY <1>2
  <2>3. d * p \in Nat /\ d * q \in Nat
    BY <1>1, <1>2, ProductNat
  <2> QED
    BY <1>1, <1>2, <2>1, <2>2, <2>3
<1>4. q <= p
  BY <1>1, <1>2, <1>3
<1> QED
  BY <1>4 DEF q, p

LEMMA TodayMonotone ==
  ASSUME now \in Nat, now' \in Nat, now <= now'
  PROVE  Today \in Nat /\ Today' \in Nat /\ Today <= Today'
<1>1. DayLength \in Nat /\ DayLength > 0
  BY BillingAssumption
<1>2. \A n, m \in Nat : n <= m =>
        n \div DayLength \in Nat /\ n \div DayLength <= m \div DayLength
  <2>1. \A n, m \in Nat : n <= m => n \div DayLength <= m \div DayLength
    BY <1>1, DivMonotone
  <2>2. \A n \in Nat : n \div DayLength \in Nat
    BY <1>1
  <2> QED
    BY <2>1, <2>2
<1>3. Today' = now' \div DayLength /\ Today = now \div DayLength
  BY DEF Today
<1>4. Today \in Nat /\ Today <= Today'
  BY <1>2, <1>3
<1>5. Today' \in Nat
  BY <1>2, <1>3
<1> QED
  BY <1>4, <1>5

\* The fee of any day that has come is not ahead of today.
LEMMA FeeOfPastDay ==
  ASSUME NEW i \in Invoices, NEW day \in Nat, NEW today \in Nat, day <= today
  PROVE  /\ Fee(i, day) <= CapCents
         /\ Fee(i, day) > 0 => 10000 * Fee(i, day) <= Rate(i) * (today - Due[i] - GraceDays)
<1> DEFINE d == DaysOverdue(i, day)
           c == ChargeableDays(d)
           u == today - Due[i] - GraceDays
           fee == LateFee(Amount[i], d)
           rate == Rate(i)
<1>1. d \in Int /\ Amount[i] \in Nat /\ Due[i] \in Nat /\ u \in Int /\ GraceDays \in Nat
  BY ConstantTypes, FeeAssumption DEF DaysOverdue
<1>2. rate \in Nat /\ rate = Amount[i] * DailyRateBps
  BY RateNat DEF Rate
<1>3. c \in Nat
  BY <1>1, ChargeableNat
<1>4. fee \in 0 .. CapCents /\ 10000 * fee <= rate * c
  <2>2. PICK amount \in Nat : amount = Amount[i]
    BY <1>1
  <2>3. PICK e \in Int : e = d
    BY <1>1
  <2>4. /\ LateFee(amount, e) \in 0 .. CapCents
        /\ 10000 * LateFee(amount, e) <= amount * DailyRateBps * ChargeableDays(e)
    BY LateFeeBounds
  <2> HIDE DEF d, rate
  <2>5. fee = LateFee(amount, e) /\ c = ChargeableDays(e) /\ rate = amount * DailyRateBps
    BY <1>2, <2>2, <2>3
  <2> QED
    BY <2>4, <2>5
<1>5. Fee(i, day) = fee
  BY DEF Fee
<1>6. c > 0 => c <= u
  BY <1>1 DEF ChargeableDays, DaysOverdue
<1> HIDE DEF d, c, u, fee, rate
<1>7. fee > 0 => c > 0
  <2>1. c = 0 => rate * c = 0
    BY <1>2
  <2> QED
    BY <1>3, <1>4, <2>1, FeeAssumption
<1>8. fee > 0 => rate * c <= rate * u
  BY <1>1, <1>2, <1>3, <1>6, <1>7, ProductMonotone
<1>9. fee > 0 => 10000 * fee <= rate * u
  <2>1. rate * c \in Nat /\ rate * u \in Int
    BY <1>1, <1>2, <1>3, ProductNat
  <2> QED
    BY <1>4, <1>8, <2>1, FeeAssumption
<1> QED
  BY <1>4, <1>5, <1>9, FeeAssumption DEF rate, u

\* A fee that is not ahead of a day is not ahead of a later one.
LEMMA LaterStillCovers ==
  ASSUME NEW i \in Invoices, NEW fee \in Nat, NEW today \in Nat, NEW later \in Nat,
         today <= later, fee > 0,
         10000 * fee <= Rate(i) * (today - Due[i] - GraceDays)
  PROVE  10000 * fee <= Rate(i) * (later - Due[i] - GraceDays)
<1> DEFINE rate == Rate(i)
           b == today - Due[i] - GraceDays
           c == later - Due[i] - GraceDays
<1>1. rate \in Nat /\ b \in Int /\ c \in Int /\ b <= c
  BY RateNat, ConstantTypes, FeeAssumption
<1>2. 10000 * fee <= rate * b
  OBVIOUS
<1> HIDE DEF rate, b, c
<1>3. b > 0
  <2>1. ASSUME b <= 0
        PROVE  rate * b <= 0
    <3> DEFINE n == 0 - b
    <3>1. n \in Nat /\ b = 0 - n
      BY <1>1, <2>1
    <3> HIDE DEF n
    <3>2. rate * n \in Nat /\ rate * b = 0 - rate * n
      BY <1>1, <3>1, ProductNat
    <3> QED
      BY <3>2
  <2> QED
    BY <1>1, <1>2, <2>1
<1>4. rate * b <= rate * c /\ rate * b \in Int /\ rate * c \in Int
  BY <1>1, <1>3, ProductMonotone
<1>5. 10000 * fee <= rate * c
  BY <1>2, <1>4
<1> QED
  BY <1>5 DEF rate, c

LEMMA NextRuns ==
  ASSUME FeesInv, Shape', [Next]_vars
  PROVE  RunsNotAhead' /\ now <= now' /\ now \in Nat /\ now' \in Nat
<1> USE DEF FeesInv
<1>0. Workers \subseteq Actors /\ Runners \subseteq Actors
  <2>1. Runners \subseteq Actors
    BY BillingAssumption, Zenon
  <2> QED
    BY <2>1 DEF Actors
<1>a. now \in Nat /\ now' \in Nat /\ Today \in Nat
  BY TodayNat DEF Shape, TypeOK
<1>b. \A a \in Actors : pc[a] \in JobPC => job[a] \in Job /\ job[a].day \in Nat
  BY DEF Shape, ProcessesOK, Job
<1>c. pc \in [Actors -> {"idle"} \cup PayPC \cup JobPC] /\ job \in [Actors -> Job \cup {None}]
  BY DEF Shape, TypeOK
<1>1. ASSUME now' = now,
             \A a \in Actors : pc'[a] \in JobPC =>
               \/ pc[a] \in JobPC /\ job'[a].day = job[a].day
               \/ job'[a].day = Today
      PROVE  RunsNotAhead' /\ now <= now'
  BY <1>1, <1>a DEF RunsNotAhead, Today
<1>2. CASE Tick
  <2>1. now <= now' /\ UNCHANGED <<pc, job>>
    BY <1>2, <1>a DEF Tick
  <2>2. Today <= Today' /\ Today' \in Nat
    BY <1>a, <2>1, TodayMonotone
  <2> QED
    BY <1>a, <1>b, <2>1, <2>2 DEF RunsNotAhead
<1>3. ASSUME NEW a \in Actors, Finish(a), now' = now
      PROVE  RunsNotAhead' /\ now <= now'
  BY <1>1, <1>3, <1>c DEF Finish, JobPC
<1>4. ASSUME NEW w \in Workers, NEW step \in PayPC, GoTo(w, step), UNCHANGED <<now, job>>
      PROVE  RunsNotAhead' /\ now <= now'
  BY <1>0, <1>1, <1>4, <1>c DEF GoTo, JobPC, PayPC
<1>5. ASSUME NEW w \in Workers, PaymentStep(w)
      PROVE  RunsNotAhead' /\ now <= now'
  <2> USE DEF PayPC
  <2>1. CASE ReplayStored(w) \/ ReplayRival(w) \/ AuditPayment(w)
    BY <1>0, <1>3, <2>1 DEF ReplayStored, ReplayRival, AuditPayment, Answer201
  <2>2. CASE RefuseConcurrent(w) \/ RefusePayment(w) \/ SettleDeadlock(w)
    BY <1>0, <1>3, <2>2 DEF RefuseConcurrent, RefusePayment, SettleDeadlock, AnswerError
  <2>3. CASE MissStored(w) \/ Reserve(w) \/ ReserveFails(w)
    BY <1>4, <2>3 DEF MissStored, Reserve, ReserveFails
  <2>4. CASE ReadInvoice(w) \/ InsertPayment(w)
    BY <1>4, <2>4 DEF ReadInvoice, InsertPayment
  <2>5. CASE CommitPartial(w) \/ CommitSettling(w)
    BY <1>4, <2>5 DEF CommitPartial, CommitSettling, CommitPayment
  <2> QED
    BY <1>5, <2>1, <2>2, <2>3, <2>4, <2>5 DEF PaymentStep
<1>6. ASSUME NEW w \in Workers,
             \/ \E k \in Keys, i \in Invoices, m \in PayAmounts : Receive(w, k, i, m)
             \/ \E i \in Invoices, m \in RefundAmounts : Refund(w, i, m)
             \/ AuditFails(w)
      PROVE  RunsNotAhead' /\ now <= now'
  <2>1. CASE \E k \in Keys, i \in Invoices, m \in PayAmounts : Receive(w, k, i, m)
    BY <1>4, <2>1 DEF Receive, PayPC
  <2>2. CASE \E i \in Invoices, m \in RefundAmounts : Refund(w, i, m)
    BY <1>1, <2>2 DEF Refund
  <2>3. CASE AuditFails(w)
    BY <1>0, <1>3, <2>3 DEF AuditFails, AnswerError
  <2> QED
    BY <1>6, <2>1, <2>2, <2>3
<1>7. ASSUME NEW a \in Runners, StartJobs(a)
      PROVE  RunsNotAhead' /\ now <= now'
  <2>1. /\ pc' = [pc EXCEPT ![a] = "pick"] /\ now' = now
        /\ job' = [job EXCEPT ![a] = [day |-> Today, todo |-> {i \in Invoices : Overdue(i, Today)},
                                      cur |-> None, version |-> 0]]
    BY <1>7 DEF StartJobs, GoTo
  <2>2. job'[a].day = Today /\ \A b \in Actors : b # a => job'[b] = job[b] /\ pc'[b] = pc[b]
    BY <1>0, <1>c, <2>1
  <2> QED
    BY <1>1, <2>1, <2>2
<1>8. ASSUME NEW a \in Runners, JobStep(a)
      PROVE  RunsNotAhead' /\ now <= now'
  <2>a. a \in Actors
    BY <1>0
  <2>b. \A j \in Job : /\ Released(j).day = j.day /\ Relisted(j).day = j.day
                       /\ \A i \in Invoices : Without(j, i).day = j.day /\ Picked(j, i).day = j.day
    BY DEF Job, Released, Relisted, Without, Picked
  <2>1. ASSUME NEW j, NEW step, pc[a] \in JobPC, j.day = job[a].day,
               job' = [job EXCEPT ![a] = j], pc' = [pc EXCEPT ![a] = step], now' = now
        PROVE  RunsNotAhead' /\ now <= now'
    BY <1>1, <1>c, <2>a, <2>1
  <2>2. ASSUME NEW i \in Invoices, PickInvoice(a, i)
        PROVE  RunsNotAhead' /\ now <= now'
    BY <1>b, <2>1, <2>2, <2>a, <2>b DEF PickInvoice, GoTo, JobPC
  <2>3. ASSUME NEW i \in Invoices, RefreshFee(a, i)
        PROVE  RunsNotAhead' /\ now <= now'
    BY <1>b, <2>1, <2>3, <2>a, <2>b DEF RefreshFee, SetFee, GoTo, JobPC
  <2>4. CASE MarkOverdue(a) \/ CreateSnapshot(a)
    <3>1. UNCHANGED <<now, job>> /\ pc[a] \in JobPC /\ \E step : GoTo(a, step)
      BY <2>4 DEF MarkOverdue, CreateSnapshot, JobPC
    <3> QED
      BY <1>1, <1>c, <2>a, <3>1 DEF GoTo
  <2>5. CASE ChargeInitialFee(a)
    BY <1>b, <2>1, <2>5, <2>a, <2>b DEF ChargeInitialFee, SetFee, GoTo, JobPC
  <2>6. CASE ListOverdue(a)
    BY <1>b, <2>1, <2>6, <2>a, <2>b DEF ListOverdue, GoTo, JobPC
  <2>7. CASE EndJobs(a)
    BY <1>3, <2>7, <2>a DEF EndJobs
  <2>8. CASE JobDeadlock(a)
    <3>1. CASE pc[a] = "refresh"
      BY <1>3, <2>8, <2>a, <3>1 DEF JobDeadlock
    <3>2. CASE pc[a] # "refresh"
      BY <1>b, <2>1, <2>8, <2>a, <2>b, <3>2 DEF JobDeadlock, GoTo, JobPC
    <3> QED
      BY <3>1, <3>2
  <2> QED
    BY <1>8, <2>2, <2>3, <2>4, <2>5, <2>6, <2>7, <2>8 DEF JobStep
<1>9. CASE \E a \in Actors : Crash(a)
  BY <1>3, <1>9, <1>a DEF Crash
<1>10. CASE UNCHANGED vars
  BY <1>1, <1>10, <1>a DEF vars
<1> QED
  BY <1>2, <1>5, <1>6, <1>7, <1>8, <1>9, <1>10, <1>a DEF Next

LEMMA NextFees ==
  ASSUME FeesInv, Shape', [Next]_vars
  PROVE  FeeNeverAhead'
<1> SUFFICES ASSUME NEW i \in Invoices
             PROVE  /\ invoice'[i].fee <= CapCents
                    /\ invoice'[i].fee > 0 =>
                         10000 * invoice'[i].fee <= Rate(i) * (Today' - Due[i] - GraceDays)
  BY DEF FeeNeverAhead, Rate
<1>0. Runners \subseteq Actors
  BY BillingAssumption, Zenon
<1>a. Today \in Nat /\ Today' \in Nat /\ Today <= Today'
  BY NextRuns, TodayMonotone
<1>b. invoice \in [Invoices -> Invoice] /\ invoice[i].fee \in Nat
  BY DEF FeesInv, Shape, TypeOK, Invoice
<1>1. CASE invoice'[i].fee = invoice[i].fee
  <2>1. /\ invoice[i].fee <= CapCents
        /\ invoice[i].fee > 0 =>
             10000 * invoice[i].fee <= Rate(i) * (Today - Due[i] - GraceDays)
    BY DEF FeesInv, FeeNeverAhead, Rate
  <2> DEFINE fee == invoice[i].fee
  <2> HIDE DEF fee
  <2> QED
    BY <1>1, <1>a, <1>b, <2>1, LaterStillCovers DEF fee
<1>2. ASSUME NEW a \in Runners, Charging(a)
      PROVE  \/ invoice'[i].fee = invoice[i].fee
             \/ \E day \in Nat : day <= Today /\ invoice'[i].fee = Fee(i, day)
  <2> PICK c \in Invoices : job[a] \in Job /\ pc[a] \in JobPC /\ SetFee(a, c)
    BY <1>2 DEF Charging
  <2>1. job[a].day \in Nat /\ job[a].day <= Today
    BY <1>0 DEF Job, FeesInv, RunsNotAhead
  <2>2. CASE c = i
    <3> DEFINE fee == Fee(c, job[a].day)
    <3>1. invoice' = [invoice EXCEPT ![c].fee = fee]
      BY DEF SetFee
    <3> HIDE DEF fee
    <3>2. invoice'[i].fee = fee
      BY <1>b, <2>2, <3>1 DEF Invoice
    <3> QED
      BY <2>1, <2>2, <3>2 DEF fee
  <2>3. CASE c # i
    BY <1>b, <2>3 DEF SetFee
  <2> QED
    BY <2>2, <2>3
<1>3. ASSUME NEW day \in Nat, day <= Today, invoice'[i].fee = Fee(i, day)
      PROVE  /\ invoice'[i].fee <= CapCents
             /\ invoice'[i].fee > 0 =>
                  10000 * invoice'[i].fee <= Rate(i) * (Today' - Due[i] - GraceDays)
  <2>1. day <= Today'
    BY <1>3, <1>a
  <2> QED
    BY <1>3, <1>a, <2>1, FeeOfPastDay
<1>4. ASSUME NEW w \in Workers, CommitSettling(w)
      PROVE  invoice'[i].fee = invoice[i].fee
  BY <1>4, <1>b DEF CommitSettling, Invoice
<1>5. ASSUME NEW a \in Runners, MarkOverdue(a) \/ CreateSnapshot(a)
      PROVE  invoice'[i].fee = invoice[i].fee
  BY <1>5, <1>b DEF MarkOverdue, CreateSnapshot, Invoice
<1>6. CASE UNCHANGED <<invoice, snapshots>>
  BY <1>1, <1>6
<1> QED
  BY <1>1, <1>2, <1>3, <1>4, <1>5, <1>6, InvoiceWriters DEF FeesInv

\* Runs of the job that overlap, repeat, stop over midnight or die never
\* charge more than the cap, nor than the exact daily rate has earned.
THEOREM FeesNeverAhead == Spec => []FeeNeverAhead
<1>1. Init => FeesInv
  <2>1. Init => FeeNeverAhead
    BY FeeAssumption DEF Init, FeeNeverAhead
  <2>2. Init => RunsNotAhead
    BY DEF Init, RunsNotAhead, JobPC
  <2> QED
    BY <2>1, <2>2, InitShape DEF FeesInv
<1>2. FeesInv /\ [Next]_vars => FeesInv'
  <2> SUFFICES ASSUME FeesInv, [Next]_vars PROVE FeesInv'
    OBVIOUS
  <2>1. Shape'
    BY NextShape DEF FeesInv
  <2> QED
    BY <2>1, NextRuns, NextFees DEF FeesInv
<1>3. FeesInv => FeeNeverAhead
  BY DEF FeesInv
<1> QED
  BY <1>1, <1>2, <1>3, PTL DEF Spec


-----------------------------------------------------------------------------
(* One API process, as the shipped container runs it, beside any number of  *)
(* job runs: what a payment has read about its invoice stays true until its *)
(* COMMIT.  With two processes neither theorem below holds (write skew).    *)

OneWorker == \A v, w \in Workers : v = w

Fresh(w) ==
  LET i == req[w].inv IN
  pc[w] \in {"insert", "settle"} =>
    /\ invoice[i].status # "paid"
    /\ view[w].paid = paid[i] /\ view[w].refunded = refunded[i]

PaymentsFresh == \A w \in Workers : Fresh(w)

\* A step that neither reads for a payment nor settles an invoice.
Aloof ==
  /\ UNCHANGED <<paid, refunded>>
  /\ \A i \in Invoices : invoice'[i].status = "paid" => invoice[i].status = "paid"
  /\ \A w \in Workers : pc'[w] \in {"insert", "settle"} =>
       pc[w] \in {"insert", "settle"} /\ req'[w] = req[w] /\ view'[w] = view[w]

LEMMA AloofFresh ==
  ASSUME Shape, PaymentsFresh, Aloof
  PROVE  PaymentsFresh'
<1> SUFFICES ASSUME NEW w \in Workers, pc'[w] \in {"insert", "settle"}
             PROVE  LET i == req'[w].inv IN
                    /\ invoice'[i].status # "paid"
                    /\ view'[w].paid = paid'[i] /\ view'[w].refunded = refunded'[i]
  BY DEF PaymentsFresh, Fresh
<1>1. pc[w] \in {"insert", "settle"} /\ req'[w] = req[w] /\ view'[w] = view[w]
  BY DEF Aloof
<1>2. req[w].inv \in Invoices
  BY <1>1 DEF Shape, ProcessesOK, PayPC, Request
<1> QED
  BY <1>1, <1>2 DEF PaymentsFresh, Fresh, Aloof

LEMMA FinishAloof ==
  ASSUME Shape, NEW a \in Actors, Finish(a), UNCHANGED <<paid, refunded, invoice>>
  PROVE  Aloof
  BY DEF Shape, TypeOK, Finish, Aloof, Actors

LEMMA GoToAloof ==
  ASSUME Shape, NEW a \in Actors, NEW step, GoTo(a, step),
         step \in {"insert", "settle"} => pc[a] \in {"insert", "settle"},
         UNCHANGED <<paid, refunded, view>>,
         \A w \in Workers : pc'[w] \in {"insert", "settle"} => req'[w] = req[w],
         \A i \in Invoices : invoice'[i].status = "paid" => invoice[i].status = "paid"
  PROVE  Aloof
  BY DEF Shape, TypeOK, GoTo, Aloof, Actors

LEMMA NextFresh ==
  ASSUME OneWorker, Shape, PaymentsFresh, [Next]_vars
  PROVE  PaymentsFresh'
<1> USE DEF store, Actors
<1>0. Runners \subseteq Actors
  BY BillingAssumption, Zenon
<1>a. pc \in [Actors -> {"idle"} \cup PayPC \cup JobPC]
      /\ req \in [Workers -> Request \cup {None}] /\ view \in [Workers -> View \cup {None}]
      /\ invoice \in [Invoices -> Invoice]
  BY DEF Shape, TypeOK
<1>1. CASE Tick
  BY <1>1, AloofFresh DEF Tick, Aloof
<1>2. ASSUME NEW w \in Workers, NEW k \in Keys, NEW i \in Invoices, NEW m \in PayAmounts,
             Receive(w, k, i, m)
      PROVE  PaymentsFresh'
  BY <1>2, <1>a, AloofFresh DEF Receive, GoTo, Aloof
<1>3. ASSUME NEW w \in Workers, NEW i \in Invoices, NEW m \in RefundAmounts, Refund(w, i, m)
      PROVE  PaymentsFresh'
  BY <1>3 DEF Refund, OneWorker, PaymentsFresh, Fresh
<1>4. ASSUME NEW w \in Workers, PaymentStep(w)
      PROVE  PaymentsFresh'
  <2>1. CASE ReplayStored(w) \/ ReplayRival(w) \/ AuditPayment(w)
    BY <2>1, FinishAloof, AloofFresh DEF ReplayStored, ReplayRival, AuditPayment, Answer201
  <2>2. CASE RefuseConcurrent(w) \/ RefusePayment(w) \/ SettleDeadlock(w)
    BY <2>2, FinishAloof, AloofFresh DEF RefuseConcurrent, RefusePayment, SettleDeadlock, AnswerError
  <2>3. CASE MissStored(w) \/ Reserve(w) \/ ReserveFails(w)
    BY <2>3, <1>a, GoToAloof, AloofFresh DEF MissStored, Reserve, ReserveFails, GoTo
  <2>4. CASE ReadInvoice(w)
    <3>1. /\ pc' = [pc EXCEPT ![w] = "insert"] /\ UNCHANGED <<req, invoice, paid, refunded>>
          /\ view' = [view EXCEPT ![w] = SnapshotOf(req[w].inv)]
          /\ invoice[req[w].inv].status # "paid"
      BY <2>4 DEF ReadInvoice, GoTo
    <3>2. view'[w].paid = paid[req[w].inv] /\ view'[w].refunded = refunded[req[w].inv]
      BY <1>a, <3>1 DEF SnapshotOf
    <3> QED
      BY <3>1, <3>2 DEF OneWorker, PaymentsFresh, Fresh
  <2>5. CASE InsertPayment(w)
    BY <2>5, GoToAloof, AloofFresh DEF InsertPayment
  <2>6. CASE CommitPartial(w) \/ CommitSettling(w)
    <3>1. pc'[w] = "audit"
      BY <1>a, <2>6 DEF CommitPartial, CommitSettling, CommitPayment, GoTo
    <3> QED
      BY <3>1 DEF OneWorker, PaymentsFresh, Fresh
  <2> QED
    BY <1>4, <2>1, <2>2, <2>3, <2>4, <2>5, <2>6 DEF PaymentStep
<1>5. ASSUME NEW w \in Workers, AuditFails(w)
      PROVE  PaymentsFresh'
  BY <1>5, FinishAloof, AloofFresh DEF AuditFails, AnswerError
<1>6. ASSUME NEW a \in Runners, StartJobs(a)
      PROVE  PaymentsFresh'
  BY <1>0, <1>6, GoToAloof, AloofFresh DEF StartJobs
<1>7. ASSUME NEW a \in Runners, JobStep(a)
      PROVE  PaymentsFresh'
  <2>a. a \in Actors
    BY <1>0
  <2>1. ASSUME NEW i \in Invoices, PickInvoice(a, i)
        PROVE  Aloof
    BY <2>1, <2>a, GoToAloof DEF PickInvoice
  <2>2. ASSUME Charging(a), GoTo(a, "pick") \/ GoTo(a, "refresh")
        PROVE  Aloof
    <3>1. \A i \in Invoices : invoice'[i].status = invoice[i].status
      BY <1>a, <2>2 DEF Charging, SetFee, Invoice
    <3>2. UNCHANGED <<paid, refunded, req, view>>
      BY <2>2 DEF Charging, SetFee
    <3> QED
      BY <2>2, <2>a, <3>1, <3>2, GoToAloof
  <2>3. ASSUME NEW i \in Invoices, RefreshFee(a, i)
        PROVE  Aloof
    <3>1. job[a] \in Job
      BY <2>3, <2>a DEF RefreshFee, Shape, ProcessesOK, JobPC
    <3> QED
      BY <2>2, <2>3, <3>1 DEF RefreshFee, Charging, JobPC
  <2>4. ASSUME ChargeInitialFee(a)
        PROVE  Aloof
    <3>1. job[a] \in Job /\ job[a].cur \in Invoices
      BY <2>4, <2>a DEF ChargeInitialFee, Shape, ProcessesOK, JobPC
    <3> QED
      BY <2>2, <2>4, <3>1 DEF ChargeInitialFee, Charging, JobPC
  <2>5. ASSUME MarkOverdue(a)
        PROVE  Aloof
    <3>1. \A i \in Invoices : i # job[a].cur => invoice'[i] = invoice[i]
      BY <1>a, <2>5 DEF MarkOverdue
    <3>2. job[a].cur \in Invoices
      BY <2>5, <2>a DEF MarkOverdue, Shape, ProcessesOK
    <3>3. invoice'[job[a].cur].status = "overdue"
      <4> DEFINE c == job[a].cur
                 old == invoice[c]
                 v == job[a].version + 1
      <4>1. old \in Invoice
        BY <1>a, <3>2
      <4>2. invoice' = [invoice EXCEPT ![c] = [old EXCEPT !.status = "overdue", !.version = v]]
        BY <2>5 DEF MarkOverdue
      <4> HIDE DEF old, v
      <4>3. [old EXCEPT !.status = "overdue", !.version = v].status = "overdue"
        BY <4>1 DEF Invoice
      <4> QED
        BY <1>a, <3>2, <4>2, <4>3
    <3> QED
      BY <2>5, <2>a, <3>1, <3>3, GoToAloof DEF MarkOverdue
  <2>6. ASSUME CreateSnapshot(a) \/ ListOverdue(a)
        PROVE  Aloof
    BY <2>6, <2>a, GoToAloof DEF CreateSnapshot, ListOverdue
  <2>7. ASSUME EndJobs(a)
        PROVE  Aloof
    BY <2>7, <2>a, FinishAloof DEF EndJobs
  <2>8. ASSUME JobDeadlock(a)
        PROVE  Aloof
    BY <2>8, <2>a, FinishAloof, GoToAloof DEF JobDeadlock
  <2>9. Aloof
    BY <1>7, <2>1, <2>3, <2>4, <2>5, <2>6, <2>7, <2>8 DEF JobStep
  <2> QED
    BY <2>9, AloofFresh
<1>8. ASSUME NEW a \in Actors, Crash(a)
      PROVE  PaymentsFresh'
  BY <1>8, FinishAloof, AloofFresh DEF Crash
<1>9. CASE UNCHANGED vars
  BY <1>9, AloofFresh DEF vars, Aloof
<1> QED
  BY <1>1, <1>2, <1>3, <1>4, <1>5, <1>6, <1>7, <1>8, <1>9 DEF Next

LEMMA FreshAlways ==
  ASSUME OneWorker
  PROVE  Spec => [](Shape /\ PaymentsFresh)
<1>1. Init => Shape /\ PaymentsFresh
  <2>1. Init => PaymentsFresh
    BY DEF Init, PaymentsFresh, Fresh, Actors
  <2> QED
    BY <2>1, InitShape
<1>2. Shape /\ PaymentsFresh /\ [Next]_vars => (Shape /\ PaymentsFresh)'
  BY NextShape, NextFresh
<1> QED
  BY <1>1, <1>2, PTL DEF Spec


\* With one API process a payment is never recorded on an invoice that is
\* settled at that moment (PaymentService::post refuses it after its SELECT).
THEOREM NoPaymentOnSettledAlone ==
  ASSUME OneWorker
  PROVE  Spec => NoPaymentOnSettled
<1>1. ASSUME Shape, PaymentsFresh, [Next]_vars,
             NEW i \in Invoices, paid'[i] # paid[i]
      PROVE  invoice[i].status # "paid"
  <2>1. PICK w \in Workers : Committing(w)
    BY <1>1, StepKinds DEF Quiet, Reserving
  <2>2. PICK status \in Status : CommitPayment(w, status)
    BY <2>1 DEF Committing
  <2>3. i = req[w].inv
    BY <1>1, <2>2 DEF CommitPayment, Shape, TypeOK
  <2> QED
    BY <1>1, <2>1, <2>3 DEF Committing, PaymentsFresh, Fresh
<1>2. Shape /\ PaymentsFresh /\ [Next]_vars =>
        [\A i \in Invoices : paid'[i] # paid[i] => invoice[i].status # "paid"]_vars
  BY <1>1
<1> QED
  BY <1>2, FreshAlways, PTL DEF Spec, NoPaymentOnSettled

\* With one API process an invoice turns paid only when the payments, less the
\* refunds, cover its amount (PaymentService::outstandingBalance).
THEOREM SettlingIsCoveredAlone ==
  ASSUME OneWorker
  PROVE  Spec => SettlingIsCovered
<1>1. ASSUME Shape, PaymentsFresh, [Next]_vars,
             NEW i \in Invoices, invoice[i].status # "paid", invoice'[i].status = "paid"
      PROVE  paid'[i] >= Amount[i] + refunded'[i]
  <2>a. Runners \subseteq Actors
    BY BillingAssumption, Zenon
  <2>b. invoice \in [Invoices -> Invoice] /\ paid \in [Invoices -> Nat]
        /\ refunded \in [Invoices -> Nat]
    BY <1>1 DEF Shape, TypeOK
  <2>1. ASSUME NEW a \in Runners
        PROVE  ~MarkOverdue(a) /\ ~CreateSnapshot(a) /\ ~Charging(a)
    <3>1. ASSUME MarkOverdue(a) PROVE FALSE
      <4> DEFINE c == job[a].cur
                 old == invoice[c]
                 v == job[a].version + 1
      <4>1. c \in Invoices /\ old \in Invoice
        BY <1>1, <2>a, <2>b, <3>1 DEF MarkOverdue, Shape, ProcessesOK
      <4>2. invoice' = [invoice EXCEPT ![c] = [old EXCEPT !.status = "overdue", !.version = v]]
        BY <3>1 DEF MarkOverdue
      <4> HIDE DEF old, v
      <4>3. [old EXCEPT !.status = "overdue", !.version = v].status = "overdue"
        BY <4>1 DEF Invoice
      <4> QED
        BY <1>1, <2>b, <4>1, <4>2, <4>3
    <3>2. ~CreateSnapshot(a)
      BY <1>1 DEF CreateSnapshot
    <3>3. ~Charging(a)
      BY <1>1, <2>b DEF Charging, SetFee, Invoice
    <3> QED
      BY <3>1, <3>2, <3>3
  <2>2. PICK w \in Workers : CommitSettling(w)
    BY <1>1, <2>1, InvoiceWriters
  <2>3. req[w] \in Request /\ view[w] \in View
    BY <1>1, <2>2 DEF CommitSettling, Shape, ProcessesOK, PayPC
  <2>4. req[w].inv = i
    BY <1>1, <2>2, <2>b DEF CommitSettling
  <2>5. view[w].paid = paid[i] /\ view[w].refunded = refunded[i]
    BY <1>1, <2>2, <2>4 DEF CommitSettling, PaymentsFresh, Fresh
  <2>6. view[w].paid + req[w].amount >= Amount[i] + view[w].refunded
    <3>1. Balance(w) = 0
      BY <2>2 DEF CommitSettling
    <3>2. Amount[i] \in Nat /\ view[w].fee \in Nat /\ view[w].paid \in Nat
          /\ view[w].refunded \in Nat /\ req[w].amount \in Nat
      BY <2>3, ConstantTypes DEF View, Request
    <3> QED
      BY <2>4, <3>1, <3>2 DEF Balance, Owed
  <2>7. paid'[i] = paid[i] + req[w].amount /\ refunded' = refunded
    BY <2>2, <2>4, <2>b DEF CommitSettling, CommitPayment
  <2> QED
    BY <2>5, <2>6, <2>7
<1>2. Shape /\ PaymentsFresh /\ [Next]_vars =>
        [\A i \in Invoices :
           invoice[i].status # "paid" /\ invoice'[i].status = "paid"
             => paid'[i] >= Amount[i] + refunded'[i]]_vars
  BY <1>1
<1> QED
  BY <1>2, FreshAlways, PTL DEF Spec, SettlingIsCovered

=============================================================================
