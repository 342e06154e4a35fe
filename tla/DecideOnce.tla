----------------------------- MODULE DecideOnce -----------------------------
(***************************************************************************)
(* What the approval workflows promise: a case that was opened gets at most *)
(* one verdict, from one judge, and both stand for ever.  No clock, no     *)
(* requests, no expiry.                                                    *)
(***************************************************************************)
EXTENDS Integers, Sequences

CONSTANT Judges

VARIABLE cases   \* the verdict on each case and who gave it

Pending == [verdict |-> "open", judge |-> {}]
Verdicts == [verdict: {"yes", "no"}, judge: {{j} : j \in Judges}]

Init == cases = <<>>

Open == cases' = Append(cases, Pending)

Decide(c) ==
  /\ cases[c] = Pending
  /\ \E v \in Verdicts : cases' = [cases EXCEPT ![c] = v]

Next == Open \/ \E c \in DOMAIN cases : Decide(c)

Spec == Init /\ [][Next]_cases
=============================================================================
