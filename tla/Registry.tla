------------------------------ MODULE Registry ------------------------------
(***************************************************************************)
(* The registers of the portal behind its API processes: verification,     *)
(* profiles and contracts.  They share the processes, which leave one      *)
(* request unfinished when they die, the profiles and the audit log.       *)
(***************************************************************************)
EXTENDS Verification, Contracts

vars == <<process, verification, registry, ledger>>

Init ==
  /\ RequestsInit
  /\ VerificationInit
  /\ ProfilesInit
  /\ ContractsInit

Next ==
  \E w \in Workers :
    \/ VerificationStep(w) /\ UNCHANGED <<registry, ledger>>
    \/ ProfilesStep(w) /\ UNCHANGED <<verification, ledger>>
    \/ ContractsStep(w) /\ UNCHANGED <<verification, registry>>
    \/ (WriteAudit(w) \/ Crash(w) \/ Pass(w)) /\ UNCHANGED <<verification, registry, ledger>>

Spec == Init /\ [][Next]_vars

=============================================================================
