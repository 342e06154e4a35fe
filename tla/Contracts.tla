----------------------------- MODULE Contracts ------------------------------
(***************************************************************************)
(* ContractService::create: a contract, an invoice with its snapshot for   *)
(* each period of its term, one for the deposit, and the audit row, each a *)
(* statement of its own in no transaction.  Left out: amounts, scope, and  *)
(* requests that are refused before they write anything.                   *)
(***************************************************************************)
EXTENDS Profiles

CONSTANTS
  MonthLengths,   \* days of the months of the calendar, 1 the first one
  Terms           \* what is agreed: start, end, every so many months, deposit

VARIABLES
  contracts,   \* table contracts
  invoices,    \* table invoices
  snapshots    \* ids in table invoice_snapshots

Date == [month: Nat, day: Nat]
Term == [start: Date, end: Date, every: {1, 3, 12}, deposit: BOOLEAN]
Contract == [profile: Nat, term: Term]
Invoice == [contract: Nat, due: Date, kind: {"rent", "deposit"}]

ASSUME ContractsAssumption ==
  /\ MonthLengths \in Seq(Nat \ {0}) /\ MonthLengths # <<>>
  /\ Terms \subseteq Term

ledger == <<contracts, invoices, snapshots>>

ContractsInit == contracts = <<>> /\ invoices = <<>> /\ snapshots = {}

-----------------------------------------------------------------------------
(* Dates as DateTime and DateInterval have them. *)

Before(d, e) == d.month < e.month \/ (d.month = e.month /\ d.day < e.day)

DaysOf(month) == MonthLengths[((month - 1) % Len(MonthLengths)) + 1]

\* DateTime::add of whole months: a day that the month does not have runs over
\* into the next one.
Add(d, months) ==
  LET month == d.month + months IN
  IF d.day <= DaysOf(month)
    THEN [month |-> month, day |-> d.day]
    ELSE [month |-> month + 1, day |-> d.day - DaysOf(month)]

-----------------------------------------------------------------------------
(* ContractService *)

CreateContract(w, x, t) ==
  /\ Before(t.start, t.end)
  /\ contracts' = Append(contracts, [profile |-> x, term |-> t])
  /\ Begin(w, "period", [contract |-> Len(contracts) + 1, current |-> t.start,
                       count |-> 0, invoice |-> 0])
  /\ UNCHANGED <<invoices, snapshots>>

TermOf(w) == contracts[req[w].contract].term

AddInvoice(w, due, kind, next) ==
  /\ invoices' = Append(invoices, [contract |-> req[w].contract, due |-> due, kind |-> kind])
  /\ Continue(w, next, [req[w] EXCEPT !.invoice = Len(invoices) + 1, !.count = @ + 1])
  /\ UNCHANGED <<contracts, snapshots>>

\* createSnapshot
AddSnapshot(w, next, r) ==
  /\ snapshots' = snapshots \cup {req[w].invoice}
  /\ Continue(w, next, r)
  /\ UNCHANGED <<contracts, invoices>>

\* Variant: a period is charged at its end, even after that of the contract.
DueLate(current, t) == Add(current, t.every)

Due(current, t) ==
  LET due == Add(current, t.every) IN IF Before(t.end, due) THEN t.end ELSE due

\* A round of the loop of generateSchedule, up to its snapshot.
AddPeriod(w) ==
  /\ pc[w] = "period" /\ Before(req[w].current, TermOf(w).end)
  /\ AddInvoice(w, Due(req[w].current, TermOf(w)), "rent", "snapshot")

SnapshotPeriod(w) ==
  /\ pc[w] = "snapshot"
  /\ AddSnapshot(w, "period", [req[w] EXCEPT !.current = Add(@, TermOf(w).every)])

Created(r) == [event |-> "contract_created", id |-> r.contract, invoices |-> r.count]

EndSchedule(w) ==
  /\ pc[w] = "period" /\ ~Before(req[w].current, TermOf(w).end)
  /\ IF TermOf(w).deposit
       THEN Continue(w, "deposit", req[w])
       ELSE Continue(w, "audit", Created(req[w]))
  /\ UNCHANGED ledger

AddDeposit(w) ==
  /\ pc[w] = "deposit"
  /\ AddInvoice(w, TermOf(w).start, "deposit", "receipt")

SnapshotDeposit(w) ==
  /\ pc[w] = "receipt"
  /\ AddSnapshot(w, "audit", Created(req[w]))

ContractsStep(w) ==
  \/ \E x \in DOMAIN profiles, t \in Terms : CreateContract(w, x, t)
  \/ AddPeriod(w) \/ SnapshotPeriod(w) \/ EndSchedule(w)
  \/ AddDeposit(w) \/ SnapshotDeposit(w)

-----------------------------------------------------------------------------
(* Properties                                                              *)

InvoicesOf(c, kind) == {i \in DOMAIN invoices : invoices[i].contract = c /\ invoices[i].kind = kind}

Rents(c) == InvoicesOf(c, "rent")
Deposits(c) == InvoicesOf(c, "deposit")

InOrder(c) == \A i, j \in Rents(c) : i < j => Before(invoices[i].due, invoices[j].due)

\* Each is at most one period behind an earlier one, or behind the start.
NoGap(c) ==
  \A i \in Rents(c) :
    \E d \in {invoices[k].due : k \in {j \in Rents(c) : j < i}} \cup {contracts[c].term.start} :
      ~Before(Add(d, contracts[c].term.every), invoices[i].due)

WithinTerm(c) == \A i \in Rents(c) : ~Before(contracts[c].term.end, invoices[i].due)

ToTheEnd(c) == \E i \in Rents(c) : invoices[i].due = contracts[c].term.end

\* The rents of c follow each other without a gap of more than a period, from
\* its start to its end and never beyond.
Covered(c) == InOrder(c) /\ NoGap(c) /\ WithinTerm(c) /\ ToTheEnd(c)

Complete(c) ==
  /\ Covered(c)
  /\ Cardinality(Deposits(c)) = IF contracts[c].term.deposit THEN 1 ELSE 0
  /\ Rents(c) \cup Deposits(c) \subseteq snapshots

UnderWay(c) ==
  \E w \in Workers :
    pc[w] \in {"period", "snapshot", "deposit", "receipt"} /\ req[w].contract = c

\* A contract that is created has its whole schedule and its deposit, each with
\* a snapshot; it lacks some of it for good only where its request died, which
\* costs one contract each.  The log tells of complete contracts only, with as
\* many invoices as they have.
ContractsComplete ==
  /\ Cardinality({c \in DOMAIN contracts : ~Complete(c) /\ ~UnderWay(c)}) <= faults
  /\ \A k \in DOMAIN trail :
       trail[k].event = "contract_created" =>
         /\ Complete(trail[k].id)
         /\ trail[k].invoices =
              Cardinality({i \in DOMAIN invoices : invoices[i].contract = trail[k].id})
=============================================================================
