---------------------------- MODULE Verification ----------------------------
(***************************************************************************)
(* Verification requests: VerificationService submit, approve and reject.  *)
(* The status, the decision row and the audit row are three statements in  *)
(* no transaction.  Left out: the evidence and the reason, and requests    *)
(* that are refused before they write anything.                            *)
(***************************************************************************)
EXTENDS Requests, FiniteSets

CONSTANTS Applicants, Reviewers   \* users; those with the role system_admin

VARIABLES
  applications,   \* table verification_requests; the index is the id
  decisions       \* table verification_decisions

Verdict == {"approved", "rejected"}
Application == [user: Applicants, status: {"pending"} \cup Verdict]
Decision == [id: Nat, by: Reviewers, verdict: Verdict]

verification == <<applications, decisions>>

VerificationInit == applications = <<>> /\ decisions = <<>>

Submit(w, u) ==
  /\ applications' = Append(applications, [user |-> u, status |-> "pending"])
  /\ Begin(w, "audit", [event |-> "verification_submitted",
                        id |-> Len(applications) + 1, by |-> u])
  /\ UNCHANGED decisions

\* Variant: a rejected application may still be approved.
MayReviewRejected(n) == applications[n].status # "approved"

\* validateTransition
MayReview(n) == applications[n].status = "pending"

AskReview(w, u, n, verdict) ==
  /\ MayReview(n)
  /\ Begin(w, "status", [id |-> n, by |-> u, verdict |-> verdict])
  /\ UNCHANGED verification

\* UPDATE verification_requests WHERE id: whatever its status is by now.
SetStatus(w) ==
  /\ pc[w] = "status"
  /\ applications' = [applications EXCEPT ![req[w].id].status = req[w].verdict]
  /\ Continue(w, "decision", req[w])
  /\ UNCHANGED decisions

ReviewEvent(r) == [event |-> r.verdict, id |-> r.id, by |-> r.by]

\* Variant: who decided is only logged.
SkipDecision(w) ==
  /\ pc[w] = "decision"
  /\ Continue(w, "audit", ReviewEvent(req[w]))
  /\ UNCHANGED verification

RecordDecision(w) ==
  /\ pc[w] = "decision"
  /\ decisions' = Append(decisions, req[w])
  /\ Continue(w, "audit", ReviewEvent(req[w]))
  /\ UNCHANGED applications

VerificationStep(w) ==
  \/ \E u \in Applicants : Submit(w, u)
  \/ \E u \in Reviewers, n \in DOMAIN applications, verdict \in Verdict :
       AskReview(w, u, n, verdict)
  \/ SetStatus(w)
  \/ RecordDecision(w)

-----------------------------------------------------------------------------
(* Properties                                                              *)

Tells(k, d) == trail[k] = ReviewEvent(d)

\* An application is decided at most once, its status is what its decision row
\* says, and every decision that the audit log tells of has its row: requests
\* that die half way never leave two different stories of one application.
DecisionsAgree ==
  /\ \A m, n \in DOMAIN decisions : decisions[m].id = decisions[n].id => m = n
  /\ \A n \in DOMAIN decisions : applications[decisions[n].id].status = decisions[n].verdict
  /\ \A k \in DOMAIN trail :
       trail[k].event \in Verdict => \E n \in DOMAIN decisions : Tells(k, decisions[n])

Unexplained(n) ==
  /\ applications[n].status # "pending"
  /\ \A k \in DOMAIN decisions : decisions[k].id # n
  /\ \A w \in Workers : ~(pc[w] = "decision" /\ req[w].id = n)

\* mine shows a rejected applicant the reason in the decision row.  A decided
\* application is without such a row only while its reviewer is at it, or
\* because a reviewer's request died: each costs at most one.
DecidedIsRecorded ==
  Cardinality({n \in DOMAIN applications : Unexplained(n)}) <= faults
=============================================================================
