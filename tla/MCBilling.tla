----------------------------- MODULE MCBilling -----------------------------
(* Values for model checking Billing.  One cent is the unit of money, a fee *)
(* of one cent a day starts on the second day after the due date.          *)
EXTENDS Billing, TLC

MCAmount == [i \in Invoices |-> 2]
MCDue == [i \in Invoices |-> IF i \in Visible THEN 0 ELSE MaxTime]

\* Keys, invoices and workers are only compared.
Symmetric == Permutations(Workers) \cup Permutations(Keys)
=============================================================================
