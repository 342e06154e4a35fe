------------------------------ MODULE PayOnce ------------------------------
(***************************************************************************)
(* What POST /payments promises to a client that repeats an                *)
(* Idempotency-Key: the key moves money at most once, by exactly the        *)
(* amount of one recorded payment, and every acknowledgement of the key     *)
(* names that payment.  No clock, no window, no processes, no transactions. *)
(***************************************************************************)
EXTENDS Integers

CONSTANTS Keys, Invoices

VARIABLES
  posted,        \* what each key has paid: at most one entry [id, inv, amount]
  collected,     \* the money received for each invoice
  acknowledged   \* the pairs <<key, payment id>> confirmed to a client

Init ==
  /\ posted = [k \in Keys |-> {}]
  /\ collected = [i \in Invoices |-> 0]
  /\ acknowledged = {}

Fresh(id) == \A k \in Keys : \A e \in posted[k] : e.id # id

Post(k) ==
  /\ posted[k] = {}
  /\ \E e \in posted'[k] :
       /\ Fresh(e.id)
       /\ posted' = [posted EXCEPT ![k] = {e}]
       /\ collected' = [collected EXCEPT ![e.inv] = @ + e.amount]
  /\ UNCHANGED acknowledged

Acknowledge(k) ==
  /\ \E e \in posted[k] : acknowledged' = acknowledged \cup {<<k, e.id>>}
  /\ UNCHANGED <<posted, collected>>

Next == \E k \in Keys : Post(k) \/ Acknowledge(k)

Spec == Init /\ [][Next]_<<posted, collected, acknowledged>>
=============================================================================
