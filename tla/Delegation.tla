----------------------------- MODULE Delegation -----------------------------
(***************************************************************************)
(* Access delegations between administrators: DelegationService (create,   *)
(* approve and reject), JobService::expireDelegations, and the use that     *)
(* ScopeService makes of an active delegation.  Every statement is          *)
(* autocommitted, so each is a step of its own.  A request that is refused  *)
(* before its first write changes nothing and is left out.                  *)
(***************************************************************************)
EXTENDS Integers, Sequences, FiniteSets, Scope

CONSTANTS
  Workers,      \* API processes
  Runners,      \* those that run the jobs, the scheduler among them
  Scheduler,
  Users, Admins,  \* Admins are the users with the role system_admin
  Own,          \* the scope of each account
  Proposals, Expiries, Lookups,   \* what the requests ask for
  MaxWindow,    \* MAX_EXPIRY_DAYS, in clock units
  MaxTime, MaxRequests, MaxFaults,   \* bounds of a model
  None

Status == {"pending_approval", "active", "expired", "revoked"}

Row == [grantor: Admins, grantee: Admins, scope: Scopes, created: Nat, expires: Nat,
        status: Status, approvedBy: Admins \cup {None}]
Entry == [by: Admins, id: Nat, status: Status]      \* a row of audit_logs
Proposal == [by: Users, to: Users, scope: Scopes]
Lookup == [user: Users, area: Areas]
Visit == [user: Users, area: Areas, at: Nat]

ASSUME DelegationAssumption ==
  /\ Admins \subseteq Users /\ None \notin Admins
  /\ Scheduler \in Runners /\ Scheduler \notin Workers
  /\ Own \in [Users -> Scopes] /\ Proposals \subseteq Proposal
  /\ Expiries \subseteq Nat /\ Lookups \subseteq Lookup
  /\ {MaxWindow, MaxTime, MaxRequests, MaxFaults} \subseteq Nat

VARIABLES
  now,           \* the clock of PHP and MySQL
  delegations,   \* table access_delegations; the index is the id
  audit,         \* the delegation rows of audit_logs
  visits,        \* which accesses to which areas were allowed, and when
  pc, req,       \* what each API process is doing, and with what
  received, faults

vars == <<now, delegations, audit, visits, pc, req, received, faults>>

Init ==
  /\ now = 0
  /\ delegations = <<>> /\ audit = <<>> /\ visits = {}
  /\ pc = [w \in Workers |-> "idle"]
  /\ req = [w \in Workers |-> None]
  /\ received = 0 /\ faults = 0

Begin(w, step, r) ==
  /\ pc[w] = "idle" /\ received < MaxRequests
  /\ received' = received + 1
  /\ pc' = [pc EXCEPT ![w] = step] /\ req' = [req EXCEPT ![w] = r]

Continue(w, step, r) ==
  /\ pc' = [pc EXCEPT ![w] = step] /\ req' = [req EXCEPT ![w] = r]
  /\ UNCHANGED received

Finish(w) == Continue(w, "idle", None)

-----------------------------------------------------------------------------
(* DelegationService::create *)

MayGrant(u, g) == u \in Admins /\ g \in Admins /\ g # u

Ask == [ask: {p \in Proposal : MayGrant(p.by, p.to)}, expires: Nat]

Acceptable(e) == e > now /\ e <= now + MaxWindow

AskGrant(w, p, e) ==
  /\ MayGrant(p.by, p.to) /\ Acceptable(e)
  /\ Begin(w, "insert", [ask |-> p, expires |-> e])
  /\ UNCHANGED <<now, delegations, audit, visits, faults>>

InsertDelegation(w) ==
  LET p == req[w].ask IN
  /\ pc[w] = "insert"
  /\ delegations' = Append(delegations,
       [grantor |-> p.by, grantee |-> p.to, scope |-> p.scope, created |-> now,
        expires |-> req[w].expires, status |-> "pending_approval", approvedBy |-> None])
  /\ Continue(w, "audit",
       [by |-> p.by, id |-> Len(delegations) + 1, status |-> "pending_approval"])
  /\ UNCHANGED <<now, audit, visits, faults>>

-----------------------------------------------------------------------------
(* DelegationService::approve, which also rejects *)

\* Variant: decides whatever has not been decided by this administrator.
MayDecideAgain(u, d) ==
  /\ u \in Admins /\ d \in DOMAIN delegations
  /\ delegations[d].grantor # u /\ delegations[d].approvedBy # u

MayDecide(u, d) ==
  /\ u \in Admins /\ d \in DOMAIN delegations
  /\ delegations[d].status = "pending_approval"
  /\ delegations[d].grantor # u

AskDecision(w, u, d, status) ==
  /\ MayDecide(u, d)
  /\ Begin(w, "decide", [by |-> u, id |-> d, status |-> status])
  /\ UNCHANGED <<now, delegations, audit, visits, faults>>

\* UPDATE access_delegations WHERE id: whatever its status is by now.
Decided(row, r) == [row EXCEPT !.status = r.status, !.approvedBy = r.by]

Decide(w) ==
  /\ pc[w] = "decide"
  /\ delegations' =
       [delegations EXCEPT ![req[w].id] = Decided(delegations[req[w].id], req[w])]
  /\ Continue(w, "audit", req[w])
  /\ UNCHANGED <<now, audit, visits, faults>>

\* AuditService::log, the last statement of both.
WriteAudit(w) ==
  /\ pc[w] = "audit"
  /\ audit' = Append(audit, req[w])
  /\ Finish(w)
  /\ UNCHANGED <<now, delegations, visits, faults>>

-----------------------------------------------------------------------------
(* ScopeService::canAccess, as every handler asks it *)

\* Variant: leaves the end of a delegation to the job.
InForceUntilSwept(d, u) == delegations[d].grantee = u /\ delegations[d].status = "active"

InForce(d, u) ==
  /\ delegations[d].grantee = u /\ delegations[d].status = "active"
  /\ delegations[d].expires > now

Delegated(u) ==
  {delegations[d].scope : d \in {e \in DOMAIN delegations : InForce(e, u)}}

Allow(l) == visits' = visits \cup {[user |-> l.user, area |-> l.area, at |-> now]}

AllowCounty(w, l) ==
  /\ pc[w] = "idle" /\ received < MaxRequests
  /\ received' = received + 1
  /\ CountyReach(Own[l.user], Delegated(l.user))
  /\ Allow(l)
  /\ UNCHANGED <<now, delegations, audit, pc, req, faults>>

\* The second query comes later, and looks at the clock again.
LookFurther(w, l) ==
  /\ ~CountyReach(Own[l.user], Delegated(l.user))
  /\ Begin(w, "areas", l)
  /\ UNCHANGED <<now, delegations, audit, visits, faults>>

CheckAreas(w) ==
  LET l == req[w] IN
  /\ pc[w] = "areas"
  /\ IF l.area \in EffectiveAreas(Own[l.user], Delegated(l.user))
       THEN Allow(l) ELSE UNCHANGED visits
  /\ Finish(w)
  /\ UNCHANGED <<now, delegations, audit, faults>>

-----------------------------------------------------------------------------
(* JobService::expireDelegations: one UPDATE *)

\* Variant: WHERE expires_at < now, without the status.
Overrun(row) == row.expires < now

\* Variant: one unit late.
LapsedLate(row) == row.status = "active" /\ row.expires + 1 < now

Lapsed(row) == row.status = "active" /\ row.expires < now

Swept(row) == IF Lapsed(row) THEN [row EXCEPT !.status = "expired"] ELSE row

ExpireDelegations(a) ==
  /\ a \in Workers => pc[a] = "idle"
  /\ delegations' = [d \in DOMAIN delegations |-> Swept(delegations[d])]
  /\ UNCHANGED <<now, audit, visits, pc, req, received, faults>>

-----------------------------------------------------------------------------
Tick ==
  /\ now < MaxTime
  /\ now' = now + 1
  /\ UNCHANGED <<delegations, audit, visits, pc, req, received, faults>>

\* A process dies between two statements, or the audit insert fails.
Crash(w) ==
  /\ pc[w] # "idle" /\ faults < MaxFaults
  /\ faults' = faults + 1
  /\ Finish(w)
  /\ UNCHANGED <<now, delegations, audit, visits>>

Next ==
  \/ Tick
  \/ \E w \in Workers :
       \/ \E p \in Proposals, e \in Expiries : AskGrant(w, p, e)
       \/ \E u \in Users, d \in DOMAIN delegations, status \in {"active", "revoked"} :
            AskDecision(w, u, d, status)
       \/ \E l \in Lookups : AllowCounty(w, l) \/ LookFurther(w, l)
       \/ InsertDelegation(w) \/ Decide(w) \/ WriteAudit(w) \/ CheckAreas(w)
       \/ Crash(w)
  \/ \E a \in Runners : ExpireDelegations(a)

Spec == Init /\ [][Next]_vars

\* The loop of tools/scheduler.php always comes to its next run.
FairSpec == Spec /\ WF_vars(ExpireDelegations(Scheduler))

-----------------------------------------------------------------------------
(* Properties                                                              *)

\* Tables and processes have their shape; a row that left pending_approval has
\* the name of an administrator on it.
TypeOK ==
  /\ now \in Nat /\ received \in Nat /\ faults \in Nat
  /\ delegations \in Seq({r \in Row : r.status # "pending_approval" => r.approvedBy \in Admins})
  /\ audit \in Seq(Entry)
  /\ visits \subseteq Visit
  /\ pc \in [Workers -> {"idle", "insert", "decide", "audit", "areas"}]
  /\ req \in [Workers -> {None} \cup Ask \cup Entry \cup Lookup]
  /\ \A w \in Workers :
       /\ pc[w] = "insert" => req[w] \in Ask
       /\ pc[w] = "areas" => req[w] \in Lookup
       /\ pc[w] \in {"decide", "audit"} => req[w] \in Entry

\* Whoever ever reached an area outside of his own scope did so through a
\* delegation of that area to him that a second administrator put his name to,
\* and at most MaxWindow after it was made.
AccessIsBacked ==
  \A v \in visits :
    \/ CountyReach(Own[v.user], {}) \/ v.area \in VisibleAreas(Own[v.user])
    \/ \E d \in DOMAIN delegations : LET row == delegations[d] IN
         /\ row.grantee = v.user /\ row.approvedBy \in Admins \ {row.grantor}
         /\ row.scope.level = "county" \/ v.area \in VisibleAreas(row.scope)
         /\ row.created <= v.at /\ v.at < row.expires
         /\ v.at <= row.created + MaxWindow

\* An entry of the audit log agrees with its row, but for the later expiry.
Agrees(entry) ==
  /\ entry.id \in DOMAIN delegations
  /\ LET row == delegations[entry.id] IN
       \/ entry.status = "pending_approval" /\ row.grantor = entry.by
       \/ row.status = entry.status /\ row.approvedBy = entry.by
       \/ /\ entry.status = "active" /\ row.status = "expired"
          /\ row.approvedBy = entry.by

\* The audit log never says of a delegation what is not so, nor twice that it
\* was decided, however late its entries are written.
AuditTruthful ==
  /\ \A n \in DOMAIN audit : Agrees(audit[n])
  /\ \A m, n \in DOMAIN audit :
       m # n /\ audit[m].id = audit[n].id =>
         "pending_approval" \in {audit[m].status, audit[n].status}

\* An active delegation that has run out is marked as expired, whenever and
\* however it became active.
LapsedRevoked ==
  \A d \in 1..MaxRequests :
    (d \in DOMAIN delegations /\ delegations[d].status = "active" /\ delegations[d].expires < now)
      ~> (d \in DOMAIN delegations /\ delegations[d].status = "expired")

Verdict(row) ==
  [verdict |-> CASE row.status = "pending_approval" -> "open"
                 [] row.status = "revoked" -> "no"
                 [] OTHER -> "yes",
   judge |-> {row.approvedBy} \ {None}]

Cases == INSTANCE DecideOnce WITH
  Judges <- Admins,
  cases <- [d \in DOMAIN delegations |-> Verdict(delegations[d])]

\* A delegation is decided once; that it runs out is no second decision.
DecidedOnce == Cases!Spec
=============================================================================
