---------------------------- MODULE FinancePage ----------------------------
(* public/static/js/finance.js: the sections contracts and invoices. *)
EXTENDS Page

CONSTANT Invoices

VARIABLES
  receipts,  \* the open receipts, in the order of the document
  printed    \* what was last printed, and what the user was looking at

financeVars == <<receipts, printed>>

FinanceInit == receipts = <<>> /\ printed = [shown |-> None, paper |-> None, alone |-> TRUE]

Top == receipts[Len(receipts)]

LoadContracts(done) == AskFor("contracts", "contracts", done)
ShowContracts(n) == Show(n, "contracts") /\ UNCHANGED financeVars

\* submit(createContract): the list is not loaded again.
CreateContract ==
  /\ section = "contracts" /\ receipts = <<>>
  /\ Submit("createContract", "contracts", None)
  /\ UNCHANGED financeVars
ContractCreated(n) == Announce(n, "createContract") /\ UNCHANGED financeVars

LoadInvoices(done) == AskFor("invoices", "invoices", done)
ShowInvoices(n) == Show(n, "invoices") /\ UNCHANGED financeVars

\* Variant: the button stays enabled.
PostPaymentAgain ==
  /\ section = "invoices" /\ receipts = <<>> /\ Click
  /\ tries' = Tried("postPayment")
  /\ Request({}, <<Fetch("postPayment", "invoices", sent + 1)>>)
  /\ UNCHANGED <<area, section, list, busy, made, known, financeVars>>

\* submit(postPayment): every click makes a key of its own, so that to the
\* server another attempt is another payment.  The list is not loaded again.
PostPayment ==
  /\ section = "invoices" /\ receipts = <<>>
  /\ Submit("postPayment", "invoices", sent + 1)
  /\ UNCHANGED financeVars
PaymentPosted(n) == Announce(n, "postPayment") /\ UNCHANGED financeVars

\* The receipt opens when it comes, on top of what is open by then.
OpenReceipt(i) ==
  /\ Open("invoices") /\ receipts = <<>>
  /\ Ask(Fetch("receipt", "invoices", i))
  /\ UNCHANGED financeVars
ShowReceipt(n) ==
  /\ Tell(n, "receipt")
  /\ receipts' = IF Ok(n)
                   THEN Append([j \in DOMAIN receipts |-> [receipts[j] EXCEPT !.alone = FALSE]],
                               [invoice |-> calls[n].arg, alone |-> receipts = <<>>])
                   ELSE receipts
  /\ UNCHANGED printed
CloseReceipt ==
  /\ receipts # <<>>
  /\ receipts' = SubSeq(receipts, 1, Len(receipts) - 1)
  /\ UNCHANGED <<browser, pageVars, printed>>

\* printReceipt: the first receipt of the document, whichever is in front.
PrintReceipt ==
  /\ receipts # <<>>
  /\ printed' = [shown |-> Top.invoice, alone |-> Top.alone, paper |-> receipts[1].invoice]
  /\ UNCHANGED <<browser, pageVars, receipts>>

\* downloadExport
DownloadExport ==
  /\ section = "invoices" /\ receipts = <<>>
  /\ Ask(Fetch("export", "invoices", None))
  /\ UNCHANGED financeVars
ExportDownloaded(n) == Tell(n, "export") /\ UNCHANGED financeVars

ServeFinance(n) ==
  /\ \/ calls[n].kind \in {"createContract", "postPayment"} /\ ServeWrite(n)
     \/ calls[n].kind \in {"receipt", "export"} /\ ServeRead(n, None)
  /\ UNCHANGED financeVars

FinanceStep ==
  \/ CreateContract \/ PostPayment \/ CloseReceipt \/ PrintReceipt \/ DownloadExport
  \/ \E i \in Invoices : OpenReceipt(i)

FinanceCallback(n) ==
  \/ ShowContracts(n) \/ ContractCreated(n) \/ ShowInvoices(n) \/ PaymentPosted(n)
  \/ ShowReceipt(n) \/ ExportDownloaded(n)

\* The receipt that is printed is the one that the user looks at; another one
\* comes out only if a receipt that was slow to arrive opened over it.
PrintedIsShown == printed.alone => printed.paper = printed.shown
=============================================================================
