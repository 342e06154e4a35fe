------------------------------ MODULE Requests ------------------------------
(***************************************************************************)
(* What the registers of the portal share: API processes, each of which    *)
(* serves one request at a time, one statement after the other, in no      *)
(* transaction, and the log that a request writes last.                    *)
(***************************************************************************)
EXTENDS Integers, Sequences

CONSTANTS
  Workers,                   \* API processes
  MaxRequests, MaxFaults,    \* bounds of a model
  None

VARIABLES
  pc, req,            \* the statement each process comes to next, and what it holds
  trail,              \* table audit_logs
  received, faults

process == <<pc, req, trail, received, faults>>

RequestsInit ==
  /\ pc = [w \in Workers |-> "idle"]
  /\ req = [w \in Workers |-> None]
  /\ trail = <<>>
  /\ received = 0 /\ faults = 0

\* A request is accepted; what it read before its next statement is in r.
Begin(w, step, r) ==
  /\ pc[w] = "idle" /\ received < MaxRequests
  /\ received' = received + 1
  /\ pc' = [pc EXCEPT ![w] = step] /\ req' = [req EXCEPT ![w] = r]
  /\ UNCHANGED <<trail, faults>>

\* A request that only reads, or is refused before it writes anything.
Pass(w) == pc[w] = "idle" /\ UNCHANGED process

Continue(w, step, r) ==
  /\ pc' = [pc EXCEPT ![w] = step] /\ req' = [req EXCEPT ![w] = r]
  /\ UNCHANGED <<trail, received, faults>>

Finish(w) == Continue(w, "idle", None)

\* AuditService::log: the last statement, so what is held is the row.
WriteAudit(w) ==
  /\ pc[w] = "audit"
  /\ trail' = Append(trail, req[w])
  /\ pc' = [pc EXCEPT ![w] = "idle"] /\ req' = [req EXCEPT ![w] = None]
  /\ UNCHANGED <<received, faults>>

\* The process dies between two statements, or its next one fails.
Crash(w) ==
  /\ pc[w] # "idle" /\ faults < MaxFaults
  /\ faults' = faults + 1
  /\ pc' = [pc EXCEPT ![w] = "idle"] /\ req' = [req EXCEPT ![w] = None]
  /\ UNCHANGED <<trail, received>>
=============================================================================
