-------------------------- MODULE Registry_proofs --------------------------
(***************************************************************************)
(* Theorems about Registry with one API process, for any number of users,  *)
(* profiles, contracts, requests and faults.  Verification, profiles and   *)
(* contracts have an invariant each, which the steps of the other two keep  *)
(* because the one process is at one thing at a time.                      *)
(***************************************************************************)
EXTENDS Registry, FiniteSetTheorems, TLAPS

OneWorker == \A v, w \in Workers : v = w

\* A sequence of whatever its elements are.
IsSeq(s) == s \in Seq({s[k] : k \in DOMAIN s})

Base ==
  /\ pc = [w \in Workers |-> pc[w]] /\ req = [w \in Workers |-> req[w]]
  /\ IsSeq(trail) /\ faults \in Nat
  /\ \A w \in Workers : pc[w] \in {"status", "decision"} => req[w].verdict \in Verdict

AtVerification == {"status", "decision"}
AtProfiles == {"match", "flag", "insert", "update", "merge"}
AtContracts == {"period", "snapshot", "deposit", "receipt"}

\* Some request comes from one of the steps from to one of the steps to, and
\* its audit row, if that is next, is of one of the events.
Moves(w, from, to, events) ==
  /\ UNCHANGED <<trail, faults>>
  /\ pc[w] \in from /\ pc'[w] \in to
  /\ pc'[w] = "audit" => req'[w].event \in events

-----------------------------------------------------------------------------
(* What the steps do to the request *)

LEMMA Appended ==
  ASSUME NEW s, IsSeq(s), NEW x, NEW t, t = Append(s, x)
  PROVE  /\ IsSeq(t) /\ DOMAIN t = DOMAIN s \cup {Len(s) + 1} /\ Len(s) + 1 \notin DOMAIN s
         /\ t[Len(s) + 1] = x /\ \A k \in DOMAIN s : t[k] = s[k]
         /\ Len(t) = Len(s) + 1 /\ Len(s) \in Nat /\ DOMAIN s = 1..Len(s)
<1>1. PICK S : S = {s[k] : k \in DOMAIN s} \cup {x}
  OBVIOUS
<1>2. s \in Seq(S) /\ t \in Seq(S)
  BY <1>1 DEF IsSeq
<1>3. /\ DOMAIN t = DOMAIN s \cup {Len(s) + 1} /\ Len(s) + 1 \notin DOMAIN s
      /\ t[Len(s) + 1] = x /\ \A k \in DOMAIN s : t[k] = s[k]
      /\ Len(t) = Len(s) + 1 /\ Len(s) \in Nat /\ DOMAIN s = 1..Len(s)
  BY <1>1, <1>2
<1>4. t \in Seq({t[k] : k \in DOMAIN t})
  BY <1>2
<1> QED
  BY <1>3, <1>4 DEF IsSeq

\* Fewer than at most n are at most n.
LEMMA CountFewer ==
  ASSUME NEW S, IsFiniteSet(S), NEW n \in Nat, Cardinality(S) <= n, NEW T, T \subseteq S
  PROVE  Cardinality(T) <= n
<1>1. Cardinality(T) <= Cardinality(S) /\ Cardinality(T) \in Nat /\ Cardinality(S) \in Nat
  BY FS_Subset, FS_CardinalityType
<1> QED
  BY <1>1

LEMMA CountOneMore ==
  ASSUME NEW S, IsFiniteSet(S), NEW n \in Nat, Cardinality(S) <= n, NEW x, NEW T, T \subseteq S \cup {x}
  PROVE  Cardinality(T) <= n + 1
<1>1. IsFiniteSet(S \cup {x}) /\ Cardinality(S) \in Nat
  BY FS_AddElement, FS_CardinalityType
<1>2. Cardinality(S \cup {x}) = Cardinality(S) \/ Cardinality(S \cup {x}) = Cardinality(S) + 1
  BY FS_AddElement
<1>3. Cardinality(S \cup {x}) <= n + 1
  BY <1>1, <1>2
<1> QED
  BY <1>1, <1>3, CountFewer

LEMMA VerificationMoves ==
  ASSUME Base, NEW w \in Workers, VerificationStep(w)
  PROVE  /\ Moves(w, AtVerification \cup {"idle"}, AtVerification \cup {"audit"},
                  Verdict \cup {"verification_submitted"})
         /\ Base'
<1> USE DEF AtVerification, Moves, Base
<1>1. ASSUME NEW u \in Applicants, Submit(w, u)
      PROVE  /\ Moves(w, {"idle"}, {"audit"}, {"verification_submitted"})
             /\ Base'
  BY <1>1 DEF Submit, Begin
<1>2. ASSUME NEW u, NEW n, NEW verdict \in Verdict, AskReview(w, u, n, verdict)
      PROVE  Moves(w, {"idle"}, {"status"}, {}) /\ Base'
  BY <1>2 DEF AskReview, Begin
<1>3. ASSUME SetStatus(w) PROVE Moves(w, {"status"}, {"decision"}, {}) /\ Base'
  BY <1>3 DEF SetStatus, Continue
<1>4. ASSUME RecordDecision(w)
      PROVE  Moves(w, {"decision"}, {"audit"}, Verdict) /\ Base'
  BY <1>4 DEF RecordDecision, Continue, ReviewEvent
<1> QED
  BY <1>1, <1>2, <1>3, <1>4 DEF VerificationStep

LEMMA ProfilesMoves ==
  ASSUME Base, NEW w \in Workers, ProfilesStep(w)
  PROVE  /\ Moves(w, AtProfiles \cup {"idle"}, AtProfiles \cup {"idle", "audit"}, {"entity_created"})
         /\ Base'
<1> USE DEF AtProfiles, Moves, Base
<1>1. ASSUME NEW e, CreateProfile(w, e)
      PROVE  Moves(w, {"idle"}, {"match"}, {}) /\ Base'
  BY <1>1 DEF CreateProfile, Begin
<1>2. ASSUME NEW x, NEW c, AskUpdate(w, x, c)
      PROVE  Moves(w, {"idle"}, {"update"}, {}) /\ Base'
  BY <1>2 DEF AskUpdate, Begin
<1>3. ASSUME UpdateProfile(w)
      PROVE  Moves(w, {"update"}, {"match"}, {}) /\ Base'
  BY <1>3 DEF UpdateProfile, Continue
<1>4. ASSUME FindMatches(w)
      PROVE  Moves(w, {"match"}, {"flag"}, {}) /\ Base'
  BY <1>4 DEF FindMatches, Continue
<1>5. ASSUME NEW y, NextMatch(w, y)
      PROVE  Moves(w, {"flag"}, {"flag", "insert"}, {}) /\ Base'
  BY <1>5 DEF NextMatch, Continue
<1>6. ASSUME InsertFlag(w)
      PROVE  Moves(w, {"insert"}, {"flag"}, {}) /\ Base'
  BY <1>6 DEF InsertFlag, Continue
<1>7. ASSUME EndFlags(w)
      PROVE  Moves(w, {"flag"}, {"idle", "audit"}, {"entity_created"}) /\ Base'
  BY <1>7 DEF EndFlags, Continue, Finish
<1>8. ASSUME NEW s, NEW t, NEW picks, AskMerge(w, s, t, picks)
      PROVE  Moves(w, {"idle"}, {"merge"}, {}) /\ Base'
  BY <1>8 DEF AskMerge, Begin
<1>9. ASSUME CommitMerge(w)
      PROVE  Moves(w, {"merge"}, {"idle"}, {}) /\ Base'
  BY <1>9 DEF CommitMerge, Continue, Finish
<1> QED
  BY <1>1, <1>2, <1>3, <1>4, <1>5, <1>6, <1>7, <1>8, <1>9 DEF ProfilesStep

LEMMA ContractsMoves ==
  ASSUME Base, NEW w \in Workers, ContractsStep(w)
  PROVE  /\ Moves(w, AtContracts \cup {"idle"}, AtContracts \cup {"audit"}, {"contract_created"})
         /\ Base'
<1> USE DEF AtContracts, Moves, Base
<1>1. ASSUME NEW x, NEW t, CreateContract(w, x, t)
      PROVE  Moves(w, {"idle"}, {"period"}, {}) /\ Base'
  BY <1>1 DEF CreateContract, Begin
<1>2. ASSUME AddPeriod(w)
      PROVE  Moves(w, {"period"}, {"snapshot"}, {}) /\ Base'
  BY <1>2 DEF AddPeriod, AddInvoice, Continue
<1>3. ASSUME SnapshotPeriod(w)
      PROVE  Moves(w, {"snapshot"}, {"period"}, {}) /\ Base'
  BY <1>3 DEF SnapshotPeriod, AddSnapshot, Continue
<1>4. ASSUME EndSchedule(w)
      PROVE  Moves(w, {"period"}, {"deposit", "audit"}, {"contract_created"}) /\ Base'
  BY <1>4 DEF EndSchedule, Continue, Created
<1>5. ASSUME AddDeposit(w)
      PROVE  Moves(w, {"deposit"}, {"receipt"}, {}) /\ Base'
  BY <1>5 DEF AddDeposit, AddInvoice, Continue
<1>6. ASSUME SnapshotDeposit(w)
      PROVE  Moves(w, {"receipt"}, {"audit"}, {"contract_created"}) /\ Base'
  BY <1>6 DEF SnapshotDeposit, AddSnapshot, Continue, Created
<1> QED
  BY <1>1, <1>2, <1>3, <1>4, <1>5, <1>6 DEF ContractsStep

\* The end of a request writes its audit row, loses it, or leaves no trace.
LEMMA EndMoves ==
  ASSUME Base, NEW w \in Workers, WriteAudit(w) \/ Crash(w) \/ Pass(w)
  PROVE  /\ Base'
         /\ \/ /\ pc[w] = "audit" /\ trail' = Append(trail, req[w]) /\ faults' = faults
               /\ pc'[w] = "idle"
            \/ /\ pc[w] # "idle" /\ trail' = trail /\ faults' = faults + 1
               /\ pc'[w] = "idle"
            \/ UNCHANGED <<trail, faults, pc, req>>
<1>1. CASE WriteAudit(w)
  <2>1. PICK r : r = req[w]
    OBVIOUS
  <2>2. IsSeq(trail')
    BY <1>1, <2>1, Appended DEF WriteAudit, Base
  <2>3. /\ pc[w] = "audit" /\ trail' = Append(trail, req[w]) /\ faults' = faults
        /\ pc' = [pc EXCEPT ![w] = "idle"] /\ req' = [req EXCEPT ![w] = None]
    BY <1>1 DEF WriteAudit
  <2> QED
    BY <2>2, <2>3 DEF Base
<1>2. CASE Crash(w)
  <2>1. /\ pc[w] # "idle" /\ trail' = trail /\ faults' = faults + 1
        /\ pc' = [pc EXCEPT ![w] = "idle"] /\ req' = [req EXCEPT ![w] = None]
    BY <1>2 DEF Crash
  <2>2. IsSeq(trail') /\ faults' \in Nat
    BY <2>1 DEF Base
  <2> QED
    BY <2>1, <2>2 DEF Base
<1>3. CASE Pass(w)
  BY <1>3 DEF Pass, process, Base
<1> QED
  BY <1>1, <1>2, <1>3

-----------------------------------------------------------------------------
(* Verification *)

\* What a review relies on of what it read.
ReviewSound(s, r) ==
  /\ s \in {"status", "decision"} =>
       /\ r \in Decision /\ r.id \in DOMAIN applications
       /\ \A n \in DOMAIN decisions : decisions[n].id # r.id
  /\ s = "status" => applications[r.id].status = "pending"
  /\ s = "decision" => applications[r.id].status = r.verdict
  /\ s = "audit" /\ r.event \in Verdict => \E n \in DOMAIN decisions : r = ReviewEvent(decisions[n])

VerificationInv ==
  /\ Base
  /\ applications \in Seq(Application) /\ decisions \in Seq(Decision)
  /\ \A n \in DOMAIN decisions : decisions[n].id \in DOMAIN applications
  /\ \A w \in Workers : ReviewSound(pc[w], req[w])
  /\ DecisionsAgree /\ DecidedIsRecorded

Gaps == {n \in DOMAIN applications : Unexplained(n)}

LEMMA GapsFinite ==
  ASSUME VerificationInv
  PROVE  IsFiniteSet(Gaps)
<1>1. IsFiniteSet(DOMAIN applications)
  <2>1. DOMAIN applications = 1..Len(applications) /\ Len(applications) \in Nat
    BY DEF VerificationInv
  <2> QED
    BY <2>1, FS_Interval
<1> QED
  BY <1>1, FS_Subset DEF Gaps

LEMMA NoNewGap ==
  ASSUME VerificationInv, Gaps' \subseteq Gaps, faults' = faults
  PROVE  DecidedIsRecorded'
  BY GapsFinite, CountFewer DEF DecidedIsRecorded, Gaps, VerificationInv, Base

LEMMA OneNewGap ==
  ASSUME VerificationInv, NEW x, Gaps' \subseteq Gaps \cup {x}, faults' = faults + 1
  PROVE  DecidedIsRecorded'
  BY GapsFinite, CountOneMore DEF DecidedIsRecorded, Gaps, VerificationInv, Base

LEMMA VerificationBegins == Init => VerificationInv
<1> SUFFICES ASSUME Init PROVE VerificationInv
  OBVIOUS
<1>1. applications = <<>> /\ decisions = <<>> /\ trail = <<>> /\ faults = 0
  BY DEF Init, VerificationInit, RequestsInit
<1>2. IsSeq(trail)
  BY <1>1 DEF IsSeq
<1>3. \A w \in Workers : pc[w] = "idle"
  BY DEF Init, RequestsInit
<1>4. Base
  BY <1>1, <1>2, <1>3 DEF Init, RequestsInit, Base
<1>5. DecisionsAgree
  BY <1>1 DEF DecisionsAgree
<1>6. DecidedIsRecorded
  <2>1. Gaps = {}
    BY <1>1 DEF Gaps
  <2> QED
    BY <1>1, <2>1, FS_EmptySet DEF Gaps, DecidedIsRecorded
<1> QED
  BY <1>1, <1>3, <1>4, <1>5, <1>6 DEF VerificationInv, ReviewSound

LEMMA NextSubmit ==
  ASSUME OneWorker, VerificationInv, Base', NEW w \in Workers, NEW u \in Applicants, Submit(w, u)
  PROVE  VerificationInv'
<1>1. PICK row, r : /\ row = [user |-> u, status |-> "pending"]
                    /\ r = [event |-> "verification_submitted", id |-> Len(applications) + 1, by |-> u]
  OBVIOUS
<1>2. /\ applications' = Append(applications, row) /\ row \in Application /\ row.status = "pending"
      /\ UNCHANGED <<decisions, trail, faults>> /\ pc[w] = "idle"
      /\ pc'[w] = "audit" /\ req'[w] = r /\ r.event \notin Verdict
  BY <1>1 DEF Submit, Begin, Application, Verdict, VerificationInv, Base
<1>3. /\ DOMAIN applications' = DOMAIN applications \cup {Len(applications) + 1}
      /\ applications'[Len(applications) + 1] = row
      /\ \A n \in DOMAIN applications : applications'[n] = applications[n]
      /\ applications' \in Seq(Application)
  BY <1>2 DEF VerificationInv
<1>4. \A v \in Workers : ReviewSound(pc[v], req[v])'
  BY <1>2 DEF OneWorker, ReviewSound
<1>5. DecisionsAgree'
  BY <1>2, <1>3 DEF VerificationInv, DecisionsAgree, Tells
<1>6. Gaps' \subseteq Gaps
  BY <1>2, <1>3 DEF Gaps, Unexplained, OneWorker
<1> QED
  BY <1>2, <1>3, <1>4, <1>5, <1>6, NoNewGap DEF VerificationInv

LEMMA NextAskReview ==
  ASSUME OneWorker, VerificationInv, Base', NEW w \in Workers, NEW u \in Reviewers,
         NEW n \in DOMAIN applications, NEW verdict \in Verdict, AskReview(w, u, n, verdict)
  PROVE  VerificationInv'
<1>1. PICK r : r = [id |-> n, by |-> u, verdict |-> verdict]
  OBVIOUS
<1>2. /\ UNCHANGED <<applications, decisions, trail, faults>> /\ pc[w] = "idle"
      /\ pc'[w] = "status" /\ req'[w] = r /\ r.id = n
  BY <1>1 DEF AskReview, Begin, verification, VerificationInv, Base
<1>3. n \in Nat /\ applications[n].status = "pending"
  BY DEF VerificationInv, AskReview, MayReview
<1>4. r \in Decision
  BY <1>1, <1>3 DEF Decision
<1>5. \A k \in DOMAIN decisions : decisions[k].id # n
  <2> SUFFICES ASSUME NEW k \in DOMAIN decisions PROVE decisions[k].id # n
    OBVIOUS
  <2>1. decisions[k].verdict \in Verdict /\ applications[decisions[k].id].status = decisions[k].verdict
    <3>1. decisions[k] \in Decision
      BY DEF VerificationInv
    <3> QED
      BY <3>1 DEF VerificationInv, DecisionsAgree, Decision
  <2> QED
    BY <1>3, <2>1 DEF Verdict
<1>6. \A v \in Workers : ReviewSound(pc[v], req[v])'
  BY <1>2, <1>3, <1>4, <1>5 DEF OneWorker, ReviewSound
<1>7. DecisionsAgree'
  BY <1>2 DEF VerificationInv, DecisionsAgree, Tells
<1>8. Gaps' \subseteq Gaps
  BY <1>2 DEF Gaps, Unexplained, OneWorker
<1> QED
  BY <1>2, <1>6, <1>7, <1>8, NoNewGap DEF VerificationInv

\* A status without its row is for now the reviewer's.
LEMMA NextSetStatus ==
  ASSUME OneWorker, VerificationInv, Base', NEW w \in Workers, SetStatus(w)
  PROVE  VerificationInv'
<1>1. PICK r, row : r = req[w] /\ row = [applications[r.id] EXCEPT !.status = r.verdict]
  OBVIOUS
<1>2. /\ r \in Decision /\ r.id \in DOMAIN applications
      /\ \A n \in DOMAIN decisions : decisions[n].id # r.id
  BY <1>1 DEF VerificationInv, ReviewSound, SetStatus
<1>3. row \in Application /\ row.status = r.verdict
  <2>1. applications[r.id] \in Application
    BY <1>2 DEF VerificationInv
  <2> QED
    BY <1>1, <1>2, <2>1 DEF Application, Decision
<1>4. /\ applications' = [applications EXCEPT ![r.id] = row]
      /\ UNCHANGED <<decisions, trail, faults>> /\ pc[w] = "status"
      /\ pc'[w] = "decision" /\ req'[w] = r
  BY <1>1 DEF SetStatus, Continue, VerificationInv, Base
<1>5. /\ applications' \in Seq(Application) /\ DOMAIN applications' = DOMAIN applications
      /\ applications'[r.id] = row
      /\ \A n \in DOMAIN applications \ {r.id} : applications'[n] = applications[n]
  BY <1>2, <1>3, <1>4 DEF VerificationInv
<1>6. \A v \in Workers : ReviewSound(pc[v], req[v])'
  BY <1>2, <1>3, <1>4, <1>5 DEF OneWorker, ReviewSound
<1>7. DecisionsAgree'
  BY <1>2, <1>4, <1>5 DEF VerificationInv, DecisionsAgree, Tells
<1>8. Gaps' \subseteq Gaps
  BY <1>2, <1>4, <1>5 DEF Gaps, Unexplained, OneWorker
<1> QED
  BY <1>4, <1>5, <1>6, <1>7, <1>8, NoNewGap DEF VerificationInv

LEMMA NextRecordDecision ==
  ASSUME OneWorker, VerificationInv, Base', NEW w \in Workers, RecordDecision(w)
  PROVE  VerificationInv'
<1>1. PICK r, k : r = req[w] /\ k = Len(decisions) + 1
  OBVIOUS
<1>2. /\ r \in Decision /\ r.id \in DOMAIN applications /\ applications[r.id].status = r.verdict
      /\ \A n \in DOMAIN decisions : decisions[n].id # r.id
  BY <1>1 DEF VerificationInv, ReviewSound, RecordDecision
<1>3. /\ decisions' = Append(decisions, r)
      /\ UNCHANGED <<applications, trail, faults>> /\ pc[w] = "decision"
      /\ pc'[w] = "audit" /\ req'[w] = ReviewEvent(r)
  BY <1>1 DEF RecordDecision, Continue, VerificationInv, Base
<1>4. /\ decisions' \in Seq(Decision) /\ DOMAIN decisions' = DOMAIN decisions \cup {k}
      /\ decisions'[k] = r
      /\ \A n \in DOMAIN decisions : decisions'[n] = decisions[n]
  BY <1>1, <1>2, <1>3 DEF VerificationInv
<1>5. \A v \in Workers : ReviewSound(pc[v], req[v])'
  BY <1>3, <1>4 DEF OneWorker, ReviewSound
<1>6. DecisionsAgree'
  BY <1>2, <1>3, <1>4 DEF VerificationInv, DecisionsAgree, Tells
<1>7. Gaps' \subseteq Gaps
  BY <1>1, <1>3, <1>4 DEF Gaps, Unexplained, OneWorker
<1>8. \A n \in DOMAIN decisions' : decisions'[n].id \in DOMAIN applications'
  BY <1>2, <1>3, <1>4 DEF VerificationInv
<1> QED
  BY <1>3, <1>4, <1>5, <1>6, <1>7, <1>8, NoNewGap DEF VerificationInv

\* The steps of the others: no status moves, and nobody was at a review.
LEMMA VerificationRests ==
  ASSUME OneWorker, VerificationInv, Base', NEW w \in Workers, UNCHANGED verification,
         NEW from, NEW to, NEW events, Moves(w, from, to, events),
         from \cap AtVerification = {}, to \cap AtVerification = {}, events \cap Verdict = {}
  PROVE  VerificationInv'
<1>1. /\ UNCHANGED <<applications, decisions, trail, faults>>
      /\ pc[w] \notin AtVerification /\ pc'[w] \notin AtVerification
      /\ pc'[w] = "audit" => req'[w].event \notin Verdict
  BY DEF Moves, verification
<1>2. \A v \in Workers : ReviewSound(pc[v], req[v])'
  BY <1>1 DEF OneWorker, ReviewSound, AtVerification
<1>3. DecisionsAgree'
  BY <1>1 DEF VerificationInv, DecisionsAgree, Tells
<1>4. Gaps' \subseteq Gaps
  BY <1>1 DEF Gaps, Unexplained, OneWorker, AtVerification
<1> QED
  BY <1>1, <1>2, <1>3, <1>4, NoNewGap DEF VerificationInv

LEMMA VerificationEnds ==
  ASSUME OneWorker, VerificationInv, NEW w \in Workers, WriteAudit(w) \/ Crash(w) \/ Pass(w),
         UNCHANGED verification
  PROVE  VerificationInv'
<1>1. UNCHANGED <<applications, decisions>>
  BY DEF verification
<1>2. Base'
  BY EndMoves DEF VerificationInv
<1>3. CASE pc[w] = "audit" /\ trail' = Append(trail, req[w]) /\ faults' = faults /\ pc'[w] = "idle"
  <2>1. PICK r, k : r = req[w] /\ k = Len(trail) + 1
    OBVIOUS
  <2>2. /\ DOMAIN trail' = DOMAIN trail \cup {k} /\ trail'[k] = r
        /\ \A j \in DOMAIN trail : trail'[j] = trail[j]
    <3>1. IsSeq(trail) /\ trail' = Append(trail, r)
      BY <1>3, <2>1 DEF VerificationInv, Base
    <3> QED
      BY <2>1, <3>1, Appended
  <2>3. r.event \in Verdict => \E n \in DOMAIN decisions : r = ReviewEvent(decisions[n])
    BY <1>3, <2>1 DEF VerificationInv, ReviewSound
  <2>4. DecisionsAgree'
    BY <1>1, <2>2, <2>3 DEF VerificationInv, DecisionsAgree, Tells
  <2>5. \A v \in Workers : ReviewSound(pc[v], req[v])'
    BY <1>3 DEF OneWorker, ReviewSound
  <2>6. Gaps' \subseteq Gaps
    BY <1>1, <1>3 DEF Gaps, Unexplained, OneWorker
  <2> QED
    BY <1>1, <1>2, <1>3, <2>4, <2>5, <2>6, NoNewGap DEF VerificationInv
<1>4. CASE trail' = trail /\ faults' = faults + 1 /\ pc'[w] = "idle"
  <2>1. PICK x : x = req[w].id
    OBVIOUS
  <2>2. Gaps' \subseteq Gaps \cup {x}
    BY <1>1, <1>4, <2>1 DEF Gaps, Unexplained, OneWorker
  <2>3. DecisionsAgree'
    BY <1>1, <1>4 DEF VerificationInv, DecisionsAgree, Tells
  <2>4. \A v \in Workers : ReviewSound(pc[v], req[v])'
    BY <1>4 DEF OneWorker, ReviewSound
  <2> QED
    BY <1>1, <1>2, <1>4, <2>2, <2>3, <2>4, OneNewGap DEF VerificationInv
<1>5. CASE UNCHANGED <<trail, faults, pc, req>>
  BY <1>1, <1>2, <1>5 DEF VerificationInv, DecisionsAgree, Tells, DecidedIsRecorded, Unexplained, ReviewSound
<1> QED
  BY <1>3, <1>4, <1>5, EndMoves DEF VerificationInv

LEMMA VerificationNext ==
  ASSUME OneWorker, VerificationInv, [Next]_vars
  PROVE  VerificationInv'
<1>1. ASSUME NEW w \in Workers, VerificationStep(w) PROVE VerificationInv'
  <2>1. Base'
    BY <1>1, VerificationMoves DEF VerificationInv
  <2> QED
    BY <1>1, <2>1, NextSubmit, NextAskReview, NextSetStatus, NextRecordDecision DEF VerificationStep
<1>2. ASSUME NEW w \in Workers, ProfilesStep(w), UNCHANGED verification PROVE VerificationInv'
  <2>1. /\ Base'
        /\ Moves(w, AtProfiles \cup {"idle"}, AtProfiles \cup {"idle", "audit"}, {"entity_created"})
    BY <1>2, ProfilesMoves DEF VerificationInv
  <2> QED
    BY <1>2, <2>1, VerificationRests DEF AtProfiles, AtVerification, Verdict
<1>3. ASSUME NEW w \in Workers, ContractsStep(w), UNCHANGED verification PROVE VerificationInv'
  <2>1. /\ Base'
        /\ Moves(w, AtContracts \cup {"idle"}, AtContracts \cup {"audit"}, {"contract_created"})
    BY <1>3, ContractsMoves DEF VerificationInv
  <2> QED
    BY <1>3, <2>1, VerificationRests DEF AtContracts, AtVerification, Verdict
<1>4. CASE UNCHANGED vars
  BY <1>4 DEF vars, process, verification, VerificationInv, Base, DecisionsAgree, Tells,
     DecidedIsRecorded, Unexplained, ReviewSound
<1> QED
  BY <1>1, <1>2, <1>3, <1>4, VerificationEnds DEF Next
-----------------------------------------------------------------------------
(* Profiles *)

RecheckFields == {"profile", "like", "audited", "found", "todo", "match"}

\* What a rename or a merge of x still relies on of what it read.
ProfileSound(s, r) ==
  /\ s = "update" =>
       /\ r.profile \in DOMAIN profiles /\ r.row = profiles[r.profile] /\ r.change \in Change
  /\ s \in {"match", "flag", "insert"} => DOMAIN r = RecheckFields
  /\ s = "match" =>
       /\ r.profile \in DOMAIN profiles
       /\ \A q \in Profile : Same(r.like, q) <=> Same(profiles[r.profile], q)
  /\ s \in {"flag", "insert"} =>
       \A y \in Matches(profiles[r.profile], r.profile) :
         \/ y \in r.todo \/ (s = "insert" /\ y = r.match)
         \/ Warned(r.profile, y)
         \/ \E k \in DOMAIN flags : Between(flags[k], y, r.profile) /\ ~flags[k].open
  /\ s = "insert" =>
       \A k \in DOMAIN flags : flags[k].open => Pair(flags[k]) # {r.profile, r.match}
  /\ s = "merge" =>
       /\ r.source \in DOMAIN profiles /\ r.target \in DOMAIN profiles
       /\ r.picks \in SUBSET {"name", "id", "license"}
       /\ r.from = profiles[r.source] /\ r.onto = profiles[r.target]

ProfilesInv ==
  /\ Base
  /\ profiles \in Seq(Profile) /\ IsSeq(flags) /\ IsSeq(merges)
  /\ \A n \in DOMAIN merges : merges[n].target \in DOMAIN profiles
  /\ \A k \in DOMAIN flags : DOMAIN flags[k] = {"left", "right", "open"}
  /\ \A w \in Workers : ProfileSound(pc[w], req[w])
  /\ OneOpenFlag /\ MergesTraceable

\* The end of a recheck.
LEMMA RecheckedSound ==
  ASSUME ProfilesInv
  PROVE  WarnedUnlessMerged
<1> SUFFICES ASSUME NEW w \in Workers, NEW x \in DOMAIN profiles, Rechecked(w, x),
                    NEW y \in Matches(profiles[x], x)
             PROVE  Warned(x, y) \/ \E f \in Range(flags) : Between(f, y, x) /\ ~f.open
  BY DEF WarnedUnlessMerged
<1>1. ProfileSound("flag", req[w]) /\ req[w].todo = {} /\ req[w].profile = x
  BY DEF ProfilesInv, Rechecked
<1>2. \A k \in DOMAIN flags : flags[k] \in Range(flags)
  BY DEF Range
<1> QED
  BY <1>1, <1>2 DEF ProfileSound

LEMMA ProfilesBegin == Init => ProfilesInv
<1> SUFFICES ASSUME Init PROVE ProfilesInv
  OBVIOUS
<1>1. profiles = <<>> /\ flags = <<>> /\ merges = <<>>
  BY DEF Init, ProfilesInit
<1>2. Base
  BY VerificationBegins DEF VerificationInv
<1>3. \A w \in Workers : ProfileSound(pc[w], req[w])
  BY DEF Init, RequestsInit, ProfileSound
<1>4. OneOpenFlag /\ MergesTraceable
  BY <1>1 DEF OneOpenFlag, MergesTraceable
<1> QED
  BY <1>1, <1>2, <1>3, <1>4 DEF ProfilesInv, IsSeq

\* A step that leaves the registry alone and brings the one process to s with r.
LEMMA RegistryKept ==
  ASSUME OneWorker, ProfilesInv, Base', UNCHANGED registry, NEW w \in Workers, ProfileSound(pc[w], req[w])'
  PROVE  ProfilesInv'
<1>1. UNCHANGED <<profiles, flags, merges>>
  BY DEF registry
<1>2. \A v \in Workers : ProfileSound(pc[v], req[v])'
  BY DEF OneWorker
<1>3. OneOpenFlag' /\ MergesTraceable'
  BY <1>1 DEF ProfilesInv, OneOpenFlag, MergesTraceable, LastInto, MergedInto
<1> QED
  BY <1>1, <1>2, <1>3 DEF ProfilesInv

LEMMA NextCreateProfile ==
  ASSUME OneWorker, ProfilesInv, Base', NEW w \in Workers, NEW e \in Entries, CreateProfile(w, e)
  PROVE  ProfilesInv'
<1>1. PICK x, row, r : /\ x = Len(profiles) + 1
                       /\ row = [name |-> e.name, id |-> e.id, license |-> e.license, active |-> TRUE]
                       /\ r = Recheck(x, e, TRUE)
  OBVIOUS
<1>2. /\ profiles' = Append(profiles, row) /\ UNCHANGED <<flags, merges>>
      /\ pc'[w] = "match" /\ req'[w] = r
  BY <1>1 DEF CreateProfile, Begin, ProfilesInv, Base
<1>3. e \in Entry
  BY ProfilesAssumption
<1>4. row \in Profile /\ row.name = e.name /\ row.id = e.id /\ row.license = e.license
  BY <1>1, <1>3 DEF Entry, Profile
<1>5. r.profile = x /\ r.like = e /\ DOMAIN r = RecheckFields
  BY <1>1 DEF Recheck, RecheckFields
<1>6. /\ x \notin DOMAIN profiles /\ DOMAIN profiles' = DOMAIN profiles \cup {x}
      /\ profiles'[x] = row /\ profiles' \in Seq(Profile)
      /\ \A y \in DOMAIN profiles : profiles'[y] = profiles[y]
  BY <1>1, <1>2, <1>4 DEF ProfilesInv
<1>7. ProfileSound("match", r)'
  BY <1>4, <1>5, <1>6 DEF ProfileSound, Same
<1>8. \A v \in Workers : ProfileSound(pc[v], req[v])'
  BY <1>2, <1>7 DEF OneWorker
<1>9. OneOpenFlag'
  BY <1>2 DEF ProfilesInv, OneOpenFlag
<1>10. MergesTraceable'
  <2>1. \A n : LastInto(n, x) = {}
    BY <1>6 DEF LastInto, MergedInto, ProfilesInv
  <2>2. \A n, y : LastInto(n, y)' = LastInto(n, y)
    BY <1>2 DEF LastInto, MergedInto
  <2> QED
    BY <1>2, <1>6, <2>1, <2>2 DEF ProfilesInv, MergesTraceable
<1> QED
  BY <1>2, <1>6, <1>8, <1>9, <1>10 DEF ProfilesInv

LEMMA NextAskUpdate ==
  ASSUME OneWorker, ProfilesInv, Base', NEW w \in Workers, NEW x \in DOMAIN profiles, NEW c \in Changes,
         AskUpdate(w, x, c)
  PROVE  ProfilesInv'
<1>1. PICK r : r = [profile |-> x, row |-> profiles[x], change |-> c]
  OBVIOUS
<1>2. r.profile = x /\ r.row = profiles[x] /\ r.change = c
  BY <1>1
<1>3. UNCHANGED registry /\ UNCHANGED profiles /\ pc'[w] = "update" /\ req'[w] = r
  BY <1>1 DEF AskUpdate, Begin, ProfilesInv, Base, registry
<1>4. ProfileSound(pc[w], req[w])'
  BY <1>2, <1>3, ProfilesAssumption DEF ProfileSound
<1> QED
  BY <1>3, <1>4, RegistryKept

LEMMA ChangedRow ==
  ASSUME NEW p \in Profile, NEW c \in Change
  PROVE  /\ Changed(p, c) \in Profile
         /\ Changed(p, c).id = p.id /\ Changed(p, c).license = p.license
<1>1. PICK n, a : n = Or(c.name, p.name) /\ a = Or(c.active, p.active)
  OBVIOUS
<1>2. n \in Names /\ a \in BOOLEAN
  BY <1>1 DEF Or, Change, Profile
<1>3. PICK q : q = [p EXCEPT !.name = n, !.active = a]
  OBVIOUS
<1>4. q \in Profile /\ q.id = p.id /\ q.license = p.license
  BY <1>2, <1>3 DEF Profile
<1>5. Changed(p, c) = q
  BY <1>1, <1>3 DEF Changed
<1> QED
  BY <1>4, <1>5

\* The digits of no profile change by a rename.
LEMMA NextUpdateProfile ==
  ASSUME OneWorker, ProfilesInv, Base', NEW w \in Workers, UpdateProfile(w)
  PROVE  ProfilesInv'
<1>1. PICK x, c, row : x = req[w].profile /\ c = req[w].change /\ row = Changed(profiles[x], c)
  OBVIOUS
<1>2. x \in DOMAIN profiles /\ req[w].row = profiles[x] /\ c \in Change /\ profiles[x] \in Profile
  BY <1>1 DEF ProfilesInv, ProfileSound, UpdateProfile
<1>3. row \in Profile /\ row.id = profiles[x].id /\ row.license = profiles[x].license
  BY <1>1, <1>2, ChangedRow
<1>4. PICK r : r = Recheck(x, row, FALSE)
  OBVIOUS
<1>5. r.profile = x /\ r.like = row /\ DOMAIN r = RecheckFields
  BY <1>4 DEF Recheck, RecheckFields
<1>6. /\ profiles' = [profiles EXCEPT ![x] = row] /\ UNCHANGED <<flags, merges>>
      /\ pc'[w] = "match" /\ req'[w] = r
  BY <1>1, <1>2, <1>4 DEF UpdateProfile, UpdateRow, Continue, ProfilesInv, Base
<1>7. /\ DOMAIN profiles' = DOMAIN profiles /\ profiles'[x] = row /\ profiles' \in Seq(Profile)
      /\ \A y \in DOMAIN profiles \ {x} : profiles'[y] = profiles[y]
  BY <1>2, <1>3, <1>6 DEF ProfilesInv
<1>8. ProfileSound("match", r)'
  BY <1>2, <1>5, <1>7 DEF ProfileSound, Same
<1>9. \A v \in Workers : ProfileSound(pc[v], req[v])'
  BY <1>6, <1>8 DEF OneWorker
<1>10. OneOpenFlag'
  BY <1>6 DEF ProfilesInv, OneOpenFlag
<1>11. MergesTraceable'
  <2>1. \A n, y : LastInto(n, y)' = LastInto(n, y)
    BY <1>6 DEF LastInto, MergedInto
  <2>2. \A f \in {"id", "license"}, y \in DOMAIN profiles : profiles'[y][f] = profiles[y][f]
    BY <1>3, <1>7
  <2> QED
    BY <1>6, <1>7, <2>1, <2>2 DEF ProfilesInv, MergesTraceable
<1> QED
  BY <1>6, <1>7, <1>9, <1>10, <1>11 DEF ProfilesInv

\* All that matches the row as it now is is still to be looked at.
LEMMA NextFindMatches ==
  ASSUME OneWorker, ProfilesInv, Base', NEW w \in Workers, FindMatches(w)
  PROVE  ProfilesInv'
<1>1. PICK x, found, r : /\ x = req[w].profile /\ found = Matches(req[w].like, x) /\ r = req'[w]
  OBVIOUS
<1>2. /\ x \in DOMAIN profiles /\ \A q \in Profile : Same(req[w].like, q) <=> Same(profiles[x], q)
  BY <1>1 DEF ProfilesInv, ProfileSound, FindMatches
<1>3. found = Matches(profiles[x], x)
  BY <1>1, <1>2 DEF Matches, ProfilesInv
<1>4. UNCHANGED <<registry, profiles, flags>> /\ pc'[w] = "flag"
  BY DEF FindMatches, Continue, registry, ProfilesInv, Base
<1>5. r.profile = x /\ r.todo = found /\ DOMAIN r = RecheckFields
  <2>1. r = [req[w] EXCEPT !.found = found, !.todo = found]
    BY <1>1 DEF FindMatches, Continue, ProfilesInv, Base
  <2>2. DOMAIN req[w] = RecheckFields
    BY DEF ProfilesInv, ProfileSound, FindMatches
  <2> QED
    BY <1>1, <2>1, <2>2 DEF RecheckFields
<1>6. ProfileSound(pc[w], req[w])'
  BY <1>1, <1>3, <1>4, <1>5 DEF ProfileSound, Matches
<1> QED
  BY <1>4, <1>6, RegistryKept

\* A match that is passed over has a flag: an open one, or one that a merge
\* closed and that has x on its right.
LEMMA NextNextMatch ==
  ASSUME OneWorker, ProfilesInv, Base', NEW w \in Workers, NEW y, NextMatch(w, y)
  PROVE  ProfilesInv'
<1>1. PICK old, x, r : old = req[w] /\ x = old.profile /\ r = req'[w]
  OBVIOUS
<1>2. /\ UNCHANGED <<registry, profiles, flags>>
      /\ y \in old.todo /\ DOMAIN old = RecheckFields
      /\ \A z \in Matches(profiles[x], x) :
           \/ z \in old.todo
           \/ Warned(x, z)
           \/ \E k \in DOMAIN flags : Between(flags[k], z, x) /\ ~flags[k].open
  BY <1>1 DEF NextMatch, registry, ProfilesInv, ProfileSound
<1>3. \A u, v : Warned(u, v)' = Warned(u, v)
  BY <1>2 DEF Warned
<1>4. Matches(profiles[x], x)' = Matches(profiles[x], x)
  BY <1>2 DEF Matches
<1>5. CASE Flagged(x, y)
  <2>1. r = [old EXCEPT !.todo = old.todo \ {y}] /\ pc'[w] = "flag"
    BY <1>1, <1>5 DEF NextMatch, Continue, ProfilesInv, Base
  <2>2. r.profile = x /\ r.todo = old.todo \ {y} /\ DOMAIN r = RecheckFields
    BY <1>1, <1>2, <2>1 DEF RecheckFields
  <2>3. Warned(x, y) \/ \E k \in DOMAIN flags : Between(flags[k], y, x) /\ ~flags[k].open
    BY <1>5 DEF Flagged, Warned, Between, Pair, Range
  <2>4. ProfileSound(pc[w], req[w])'
    BY <1>1, <1>2, <1>3, <1>4, <2>1, <2>2, <2>3 DEF ProfileSound
  <2> QED
    BY <1>2, <2>4, RegistryKept
<1>6. CASE ~Flagged(x, y)
  <2>1. r = [old EXCEPT !.todo = old.todo \ {y}, !.match = y] /\ pc'[w] = "insert"
    BY <1>1, <1>6 DEF NextMatch, Continue, ProfilesInv, Base
  <2>2. r.profile = x /\ r.todo = old.todo \ {y} /\ r.match = y /\ DOMAIN r = RecheckFields
    BY <1>1, <1>2, <2>1 DEF RecheckFields
  <2>3. \A k \in DOMAIN flags : flags[k].open => Pair(flags[k]) # {x, y}
    BY <1>6 DEF Flagged, Between, Pair, Range
  <2>4. ProfileSound(pc[w], req[w])'
    BY <1>1, <1>2, <1>3, <1>4, <2>1, <2>2, <2>3 DEF ProfileSound
  <2> QED
    BY <1>2, <2>4, RegistryKept
<1> QED
  BY <1>5, <1>6

LEMMA NextInsertFlag ==
  ASSUME OneWorker, ProfilesInv, Base', NEW w \in Workers, InsertFlag(w)
  PROVE  ProfilesInv'
<1>1. PICK r, x, y, f, n : /\ r = req[w] /\ x = r.profile /\ y = r.match /\ n = Len(flags) + 1
                           /\ f = [left |-> x, right |-> y, open |-> TRUE]
  OBVIOUS
<1>2. /\ flags' = Append(flags, f) /\ UNCHANGED <<profiles, merges>>
      /\ pc'[w] = "flag" /\ req'[w] = r
  BY <1>1 DEF InsertFlag, Continue, ProfilesInv, Base
<1>3. /\ IsSeq(flags') /\ DOMAIN flags' = DOMAIN flags \cup {n} /\ n \notin DOMAIN flags
      /\ flags'[n] = f /\ \A k \in DOMAIN flags : flags'[k] = flags[k]
  <2>1. IsSeq(flags) /\ flags' = Append(flags, f)
    BY <1>2 DEF ProfilesInv
  <2>2. IsSeq(flags')
    BY <2>1, Appended
  <2>3. /\ DOMAIN flags' = DOMAIN flags \cup {n} /\ n \notin DOMAIN flags
        /\ flags'[n] = f /\ \A k \in DOMAIN flags : flags'[k] = flags[k]
    BY <1>1, <2>1, Appended
  <2> QED
    BY <2>2, <2>3
<1>4. /\ DOMAIN r = RecheckFields
      /\ \A k \in DOMAIN flags : flags[k].open => Pair(flags[k]) # {x, y}
      /\ \A z \in Matches(profiles[x], x) :
           \/ z \in r.todo \/ z = y
           \/ Warned(x, z)
           \/ \E k \in DOMAIN flags : Between(flags[k], z, x) /\ ~flags[k].open
  BY <1>1 DEF ProfilesInv, ProfileSound, InsertFlag
<1>5. f.open /\ Pair(f) = {x, y} /\ DOMAIN f = {"left", "right", "open"}
  BY <1>1 DEF Pair
<1>6. Warned(x, y)' /\ \A z : Warned(x, z) => Warned(x, z)'
  BY <1>3, <1>5 DEF Warned, Range
<1>7. OneOpenFlag'
  BY <1>3, <1>4, <1>5 DEF ProfilesInv, OneOpenFlag
<1>8. Matches(profiles[x], x)' = Matches(profiles[x], x)
  BY <1>2 DEF Matches
<1>9. ProfileSound(pc[w], req[w])'
  BY <1>1, <1>2, <1>3, <1>4, <1>6, <1>8 DEF ProfileSound
<1>10. MergesTraceable'
  <2>1. \A k, z : LastInto(k, z)' = LastInto(k, z)
    BY <1>2 DEF LastInto, MergedInto
  <2> QED
    BY <1>2, <2>1 DEF ProfilesInv, MergesTraceable
<1>11. \A k \in DOMAIN flags' : DOMAIN flags'[k] = {"left", "right", "open"}
  BY <1>3, <1>5 DEF ProfilesInv
<1> QED
  BY <1>2, <1>3, <1>7, <1>9, <1>10, <1>11 DEF ProfilesInv, OneWorker

LEMMA NextEndFlags ==
  ASSUME OneWorker, ProfilesInv, Base', NEW w \in Workers, EndFlags(w)
  PROVE  ProfilesInv'
<1>1. UNCHANGED registry /\ pc'[w] \in {"audit", "idle"}
  BY DEF EndFlags, Continue, Finish, ProfilesInv, Base
<1>2. ProfileSound(pc[w], req[w])'
  BY <1>1 DEF ProfileSound
<1> QED
  BY <1>1, <1>2, RegistryKept

LEMMA NextAskMerge ==
  ASSUME OneWorker, ProfilesInv, Base', NEW w \in Workers, NEW s \in DOMAIN profiles,
         NEW t \in DOMAIN profiles, NEW picks \in Picks, AskMerge(w, s, t, picks)
  PROVE  ProfilesInv'
<1>1. PICK r : r = [source |-> s, target |-> t, picks |-> picks, from |-> profiles[s], onto |-> profiles[t]]
  OBVIOUS
<1>2. UNCHANGED registry /\ UNCHANGED profiles /\ pc'[w] = "merge" /\ req'[w] = r
  BY <1>1 DEF AskMerge, Begin, registry, ProfilesInv, Base
<1>3. /\ r.source = s /\ r.target = t /\ r.from = profiles[s] /\ r.onto = profiles[t]
      /\ r.picks = picks /\ picks \in SUBSET {"name", "id", "license"}
  BY <1>1, ProfilesAssumption
<1>4. ProfileSound(pc[w], req[w])'
  BY <1>2, <1>3 DEF ProfileSound
<1> QED
  BY <1>2, <1>4, RegistryKept

LEMMA ResolvedRow ==
  ASSUME NEW p \in Profile, NEW m, m.from \in Profile, m.picks \in SUBSET {"name", "id", "license"}
  PROVE  Resolved(p, m) \in Profile
  BY DEF Resolved, Profile

LEMMA InactiveRow ==
  ASSUME NEW p \in Profile
  PROVE  /\ [p EXCEPT !.active = FALSE] \in Profile
         /\ \A f \in {"id", "license"} : [p EXCEPT !.active = FALSE][f] = p[f]
  BY DEF Profile

\* The last merges among the first q are what they are with one more behind them.
LEMMA LastIntoGrows ==
  ASSUME NEW m, IsSeq(merges), merges' = Append(merges, m)
  PROVE  /\ \A q \in Int : \A x : q <= Len(merges) => LastInto(q, x)' = LastInto(q, x)
         /\ \A x : LastInto(Len(merges), x)' =
                     IF m.target = x THEN {Len(merges) + 1} ELSE LastInto(Len(merges), x)
<1>1. PICK n : n = Len(merges) + 1
  OBVIOUS
<1>2. /\ DOMAIN merges = 1 .. n - 1 /\ DOMAIN merges' = DOMAIN merges \cup {n} /\ n \in Nat /\ n > 0
      /\ merges'[n] = m /\ \A k \in DOMAIN merges : merges'[k] = merges[k]
      /\ Len(merges) = n - 1 /\ Len(merges') = n
  <2>1. IsSeq(merges) /\ merges' = Append(merges, m)
    OBVIOUS
  <2> QED
    BY <1>1, <2>1, Appended
<1>3. ASSUME NEW q \in Int, NEW x, q <= n - 1
      PROVE  LastInto(q, x)' = LastInto(q, x)
  <2>1. \A k \in DOMAIN merges : MergedInto(k, x)' <=> MergedInto(k, x)
    BY <1>2 DEF MergedInto
  <2>2. \A j \in DOMAIN merges' : j <= q <=> j \in DOMAIN merges /\ j <= q
    BY <1>2, <1>3
  <2>3. \A j \in DOMAIN merges : \A k \in j + 1 .. q : k \in DOMAIN merges
    BY <1>2, <1>3
  <2> QED
    BY <1>2, <2>1, <2>2, <2>3 DEF LastInto
<1>4. ASSUME NEW x, m.target = x PROVE LastInto(n, x)' = {n}
  <2>1. MergedInto(n, x)'
    BY <1>2, <1>4 DEF MergedInto
  <2>2. \A j \in DOMAIN merges' : j # n => n \in j + 1 .. n
    BY <1>2
  <2>3. n + 1 .. n = {}
    BY <1>2
  <2> QED
    BY <1>2, <2>1, <2>2, <2>3 DEF LastInto
<1>5. ASSUME NEW x, m.target # x PROVE LastInto(n, x)' = LastInto(n - 1, x)
  <2>1. ~MergedInto(n, x)' /\ \A k \in DOMAIN merges : MergedInto(k, x)' <=> MergedInto(k, x)
    BY <1>2, <1>5 DEF MergedInto
  <2>2. \A j \in DOMAIN merges : j + 1 .. n = (j + 1 .. n - 1) \cup {n}
    BY <1>2
  <2>3. \A j \in DOMAIN merges : (j + 1 .. n - 1) \subseteq DOMAIN merges /\ j <= n /\ j <= n - 1
    BY <1>2
  <2> QED
    BY <1>2, <2>1, <2>2, <2>3 DEF LastInto
<1>6. \A x : LastInto(Len(merges), x)' = LastInto(n, x)'
  BY <1>2 DEF LastInto
<1>7. \A q \in Int : \A x : q <= Len(merges) => LastInto(q, x)' = LastInto(q, x)
  BY <1>2, <1>3
<1>8. \A x : LastInto(Len(merges), x)' =
              IF m.target = x THEN {n} ELSE LastInto(n - 1, x)
  BY <1>4, <1>5, <1>6
<1> QED
  BY <1>1, <1>2, <1>7, <1>8

\* What a merge leaves on its target is what it read of it and of the source.
LEMMA NextCommitMerge ==
  ASSUME OneWorker, ProfilesInv, Base', NEW w \in Workers, CommitMerge(w)
  PROVE  ProfilesInv'
<1>1. PICK m, s, t, n : m = req[w] /\ s = m.source /\ t = m.target /\ n = Len(merges) + 1
  OBVIOUS
<1>2. /\ s \in DOMAIN profiles /\ t \in DOMAIN profiles
      /\ m.picks \in SUBSET {"name", "id", "license"}
      /\ m.from = profiles[s] /\ m.onto = profiles[t]
  BY <1>1 DEF ProfilesInv, ProfileSound, CommitMerge
<1>3. profiles \in Seq(Profile) /\ \A y \in DOMAIN profiles : profiles[y] \in Profile
  BY DEF ProfilesInv
<1>4. PICK row, mid : row = Resolved(profiles[t], m) /\ mid = [profiles EXCEPT ![t] = row]
  OBVIOUS
<1>5. row \in Profile
  BY <1>2, <1>3, <1>4, ResolvedRow
<1>6. PICK last : last = [mid[s] EXCEPT !.active = FALSE]
  OBVIOUS
<1>7. /\ mid \in Seq(Profile) /\ DOMAIN mid = DOMAIN profiles /\ mid[t] = row
      /\ \A y \in DOMAIN profiles \ {t} : mid[y] = profiles[y]
  BY <1>2, <1>3, <1>4, <1>5
<1>8. last \in Profile /\ \A f \in {"id", "license"} : last[f] = mid[s][f]
  BY <1>2, <1>6, <1>7, InactiveRow
<1>9. /\ profiles' = [mid EXCEPT ![s] = last] /\ merges' = Append(merges, m)
      /\ CloseBetween(s, t) /\ pc'[w] = "idle"
  BY <1>1, <1>4, <1>6 DEF CommitMerge, AfterMerge, Finish, Continue, ProfilesInv, Base
<1>10. /\ profiles' \in Seq(Profile) /\ DOMAIN profiles' = DOMAIN profiles
       /\ \A y \in DOMAIN profiles, f \in {"id", "license"} :
            profiles'[y][f] = IF y = t THEN row[f] ELSE profiles[y][f]
  BY <1>2, <1>7, <1>8, <1>9
<1>11. /\ IsSeq(merges') /\ DOMAIN merges' = DOMAIN merges \cup {n} /\ n \in Nat
       /\ merges'[n] = m /\ \A k \in DOMAIN merges : merges'[k] = merges[k]
       /\ DOMAIN merges = 1 .. Len(merges) /\ Len(merges) = n - 1
  <2>1. IsSeq(merges) /\ merges' = Append(merges, m)
    BY <1>9 DEF ProfilesInv
  <2>2. IsSeq(merges')
    BY <2>1, Appended
  <2>3. /\ DOMAIN merges' = DOMAIN merges \cup {n} /\ n \in Nat
        /\ merges'[n] = m /\ \A k \in DOMAIN merges : merges'[k] = merges[k]
        /\ DOMAIN merges = 1 .. Len(merges) /\ Len(merges) = n - 1
    BY <1>1, <2>1, Appended
  <2> QED
    BY <2>2, <2>3
<1>12. /\ DOMAIN flags' = DOMAIN flags /\ IsSeq(flags')
       /\ \A k \in DOMAIN flags :
            /\ DOMAIN flags'[k] = {"left", "right", "open"}
            /\ Pair(flags'[k]) = Pair(flags[k]) /\ (flags'[k].open => flags[k].open)
  <2>1. DOMAIN flags' = DOMAIN flags
    BY <1>9 DEF CloseBetween
  <2>2. IsSeq(flags')
    <3>1. flags' = [k \in DOMAIN flags |-> flags'[k]] /\ IsSeq(flags)
      BY <1>9 DEF CloseBetween, ProfilesInv
    <3> QED
      BY <2>1, <3>1 DEF IsSeq
  <2>3. ASSUME NEW k \in DOMAIN flags
        PROVE  /\ DOMAIN flags'[k] = {"left", "right", "open"}
               /\ Pair(flags'[k]) = Pair(flags[k]) /\ (flags'[k].open => flags[k].open)
    <3>1. DOMAIN flags[k] = {"left", "right", "open"}
      BY DEF ProfilesInv
    <3>2. flags'[k] = flags[k] \/ flags'[k] = [flags[k] EXCEPT !.open = FALSE]
      BY <1>9 DEF CloseBetween
    <3> QED
      BY <3>1, <3>2 DEF Pair
  <2> QED
    BY <2>1, <2>2, <2>3
<1>13. OneOpenFlag'
  BY <1>12 DEF ProfilesInv, OneOpenFlag
<1>14. MergesTraceable'
  <2>1. /\ \A q \in Int : \A x : q <= Len(merges) => LastInto(q, x)' = LastInto(q, x)
        /\ \A x : LastInto(Len(merges), x)' =
                    IF m.target = x THEN {Len(merges) + 1} ELSE LastInto(Len(merges), x)
    <3>1. IsSeq(merges) /\ merges' = Append(merges, m)
      BY <1>9 DEF ProfilesInv
    <3> QED
      BY <3>1, LastIntoGrows
  <2> SUFFICES ASSUME NEW f \in {"id", "license"}
               PROVE  /\ \A k \in DOMAIN merges' :
                           /\ \A j \in LastInto(k - 1, merges[k].target)' :
                                Resolved(merges'[j].onto, merges'[j])[f] = merges'[k].onto[f]
                           /\ \A j \in LastInto(k - 1, merges[k].source)' :
                                Resolved(merges'[j].onto, merges'[j])[f] = merges'[k].from[f]
                      /\ \A x \in DOMAIN profiles' : \A j \in LastInto(Len(merges), x)' :
                           Resolved(merges'[j].onto, merges'[j])[f] = profiles'[x][f]
    BY DEF MergesTraceable
  <2>3. \A q, x : LastInto(q, x) \subseteq DOMAIN merges
    BY DEF LastInto
  <2>4. \A x \in DOMAIN profiles : \A j \in LastInto(Len(merges), x) :
          Resolved(merges'[j].onto, merges'[j])[f] = profiles[x][f]
    BY <1>11, <2>3 DEF ProfilesInv, MergesTraceable
  <2>5. ASSUME NEW k \in DOMAIN merges
        PROVE  /\ \A j \in LastInto(k - 1, merges[k].target)' :
                    Resolved(merges'[j].onto, merges'[j])[f] = merges'[k].onto[f]
               /\ \A j \in LastInto(k - 1, merges[k].source)' :
                    Resolved(merges'[j].onto, merges'[j])[f] = merges'[k].from[f]
    <3>1. k - 1 \in Int /\ k - 1 <= Len(merges) /\ merges'[k] = merges[k]
      BY <1>11
    <3>2. /\ LastInto(k - 1, merges[k].target)' = LastInto(k - 1, merges[k].target)
          /\ LastInto(k - 1, merges[k].source)' = LastInto(k - 1, merges[k].source)
      BY <2>1, <3>1
    <3> QED
      BY <1>11, <2>3, <3>1, <3>2 DEF ProfilesInv, MergesTraceable
  <2>6. /\ \A j \in LastInto(n - 1, merges[n].target)' :
             Resolved(merges'[j].onto, merges'[j])[f] = merges'[n].onto[f]
        /\ \A j \in LastInto(n - 1, merges[n].source)' :
             Resolved(merges'[j].onto, merges'[j])[f] = merges'[n].from[f]
    <3>1. /\ LastInto(n - 1, merges[n].target)' = LastInto(n - 1, t)
          /\ LastInto(n - 1, merges[n].source)' = LastInto(n - 1, s)
      BY <1>1, <1>11, <2>1
    <3> QED
      BY <1>2, <1>11, <2>4, <3>1
  <2>7. ASSUME NEW x \in DOMAIN profiles', NEW j \in LastInto(Len(merges), x)'
        PROVE  Resolved(merges'[j].onto, merges'[j])[f] = profiles'[x][f]
    <3>1. CASE x = t
      <4>1. j = n
        BY <3>1, <1>1, <1>11, <2>1, <2>7
      <4>2. Resolved(m.onto, m)[f] = row[f]
        BY <1>2, <1>4
      <4> QED
        BY <3>1, <4>1, <4>2, <1>10, <1>11
    <3>2. CASE x # t
      BY <3>2, <1>1, <1>10, <1>11, <2>1, <2>4, <2>7
    <3> QED
      BY <3>1, <3>2
  <2> QED
    BY <1>11, <2>5, <2>6, <2>7
<1>15. \A v \in Workers : ProfileSound(pc[v], req[v])'
  BY <1>9 DEF OneWorker, ProfileSound
<1>16. \A k \in DOMAIN merges' : merges'[k].target \in DOMAIN profiles'
  BY <1>1, <1>2, <1>10, <1>11 DEF ProfilesInv
<1> QED
  BY <1>10, <1>11, <1>12, <1>13, <1>14, <1>15, <1>16 DEF ProfilesInv

LEMMA ProfilesNext ==
  ASSUME OneWorker, ProfilesInv, [Next]_vars
  PROVE  ProfilesInv'
<1>1. ASSUME NEW w \in Workers, ProfilesStep(w) PROVE ProfilesInv'
  <2>1. Base'
    BY <1>1, ProfilesMoves DEF ProfilesInv
  <2> QED
    BY <1>1, <2>1, NextCreateProfile, NextAskUpdate, NextUpdateProfile, NextFindMatches, NextNextMatch,
       NextInsertFlag, NextEndFlags, NextAskMerge, NextCommitMerge DEF ProfilesStep
<1>2. ASSUME NEW w \in Workers, VerificationStep(w), UNCHANGED registry PROVE ProfilesInv'
  <2>1. Base' /\ pc'[w] \in AtVerification \cup {"audit"}
    BY <1>2, VerificationMoves DEF ProfilesInv, Moves
  <2>2. ProfileSound(pc[w], req[w])'
    BY <2>1 DEF ProfileSound, AtVerification
  <2> QED
    BY <1>2, <2>1, <2>2, RegistryKept
<1>3. ASSUME NEW w \in Workers, ContractsStep(w), UNCHANGED registry PROVE ProfilesInv'
  <2>1. Base' /\ pc'[w] \in AtContracts \cup {"audit"}
    BY <1>3, ContractsMoves DEF ProfilesInv, Moves
  <2>2. ProfileSound(pc[w], req[w])'
    BY <2>1 DEF ProfileSound, AtContracts
  <2> QED
    BY <1>3, <2>1, <2>2, RegistryKept
<1>4. ASSUME NEW w \in Workers, WriteAudit(w) \/ Crash(w) \/ Pass(w), UNCHANGED registry PROVE ProfilesInv'
  <2>1. Base'
    BY <1>4, EndMoves DEF ProfilesInv
  <2>2. pc'[w] = "idle" \/ UNCHANGED <<pc, req>>
    BY <1>4, EndMoves DEF ProfilesInv
  <2>3. ProfileSound(pc[w], req[w])'
    <3>1. CASE pc'[w] = "idle"
      BY <3>1 DEF ProfileSound
    <3>2. CASE UNCHANGED <<pc, req>>
      BY <1>4, <3>2 DEF ProfilesInv, ProfileSound, registry, Matches, Warned
    <3> QED
      BY <2>2, <3>1, <3>2
  <2> QED
    BY <1>4, <2>1, <2>3, RegistryKept
<1>5. CASE UNCHANGED vars
  <2>1. UNCHANGED <<pc, req, trail, faults, profiles, flags, merges>>
    BY <1>5 DEF vars, process, registry
  <2>2. Base'
    BY <2>1 DEF ProfilesInv, Base
  <2>3. OneOpenFlag' /\ MergesTraceable'
    BY <2>1 DEF ProfilesInv, OneOpenFlag, MergesTraceable, LastInto, MergedInto
  <2>4. \A w \in Workers : ProfileSound(pc[w], req[w])'
    BY <2>1 DEF ProfilesInv, ProfileSound, Matches, Warned
  <2> QED
    BY <2>1, <2>2, <2>3, <2>4 DEF ProfilesInv
<1> QED
  BY <1>1, <1>2, <1>3, <1>4, <1>5 DEF Next

-----------------------------------------------------------------------------
(* Dates *)

LEMMA DateOrder ==
  ASSUME NEW d \in Date, NEW e \in Date
  PROVE  /\ Before(d, e) \/ Before(e, d) \/ d = e
         /\ ~(Before(d, e) /\ Before(e, d))
         /\ \A g \in Date : Before(d, e) /\ ~Before(g, e) => Before(d, g)
  BY DEF Date, Before

LEMMA Remainder ==
  ASSUME NEW a \in Int, NEW b \in Nat \ {0}
  PROVE  a % b \in 0 .. b - 1
  OBVIOUS

LEMMA AddLater ==
  ASSUME NEW d \in Date, NEW k \in {1, 3, 12}
  PROVE  Add(d, k) \in Date /\ Before(d, Add(d, k))
<1>1. PICK month, days : month = d.month + k /\ days = DaysOf(month)
  OBVIOUS
<1>2. month \in Nat /\ month > d.month /\ d.month \in Nat /\ d.day \in Nat
  BY <1>1 DEF Date
<1>3. days \in Nat
  <2>1. /\ MonthLengths \in Seq(Nat \ {0}) /\ Len(MonthLengths) \in Nat \ {0}
        /\ DOMAIN MonthLengths = 1 .. Len(MonthLengths)
    BY ContractsAssumption
  <2>2. (month - 1) % Len(MonthLengths) \in 0 .. Len(MonthLengths) - 1
    <3>1. PICK a, b : a = month - 1 /\ b = Len(MonthLengths)
      OBVIOUS
    <3>2. a \in Int /\ b \in Nat \ {0}
      BY <1>2, <2>1, <3>1
    <3>3. a % b \in 0 .. b - 1
      BY <3>2, Remainder
    <3> QED
      BY <3>1, <3>3
  <2>3. ((month - 1) % Len(MonthLengths)) + 1 \in DOMAIN MonthLengths
    BY <2>1, <2>2
  <2> QED
    BY <1>1, <2>1, <2>3 DEF DaysOf
<1>4. Add(d, k) = IF d.day <= days THEN [month |-> month, day |-> d.day]
                  ELSE [month |-> month + 1, day |-> d.day - days]
  BY <1>1 DEF Add
<1> QED
  BY <1>2, <1>3, <1>4 DEF Date, Before

-----------------------------------------------------------------------------
(* Contracts *)

All(c) == {i \in DOMAIN invoices : invoices[i].contract = c}

\* A date, or the end of the contract if that is earlier.
Upto(d, t) == IF Before(t.end, d) THEN t.end ELSE d

\* The rents of c lead to d.
Reached(c, d) ==
  \/ Rents(c) = {} /\ d = contracts[c].term.start
  \/ \E i \in Rents(c) : invoices[i].due = d /\ \A j \in Rents(c) : j <= i

ScheduleFields == {"contract", "current", "count", "invoice"}

\* A schedule that is being written, at every step.
Schedule(r, c) ==
  /\ r.contract = c /\ DOMAIN r = ScheduleFields /\ c \in DOMAIN contracts /\ r.current \in Date
  /\ r.count \in Nat /\ r.count = Cardinality(All(c))
  /\ InOrder(c) /\ NoGap(c) /\ WithinTerm(c)
  /\ \A k \in DOMAIN trail : trail[k].event = "contract_created" => trail[k].id # c

\* How far it is.
ScheduleSound(s, r) ==
  LET c == r.contract
      t == contracts[c].term
  IN  /\ s \in AtContracts => Schedule(r, c)
      /\ s = "period" =>
           Reached(c, Upto(r.current, t)) /\ Deposits(c) = {} /\ Rents(c) \subseteq snapshots
      /\ s = "snapshot" =>
           /\ Reached(c, Upto(Add(r.current, t.every), t)) /\ Deposits(c) = {}
           /\ Rents(c) \subseteq snapshots \cup {r.invoice}
      /\ s \in {"deposit", "receipt"} =>
           ToTheEnd(c) /\ t.deposit /\ Rents(c) \subseteq snapshots
      /\ s = "deposit" => Deposits(c) = {}
      /\ s = "receipt" => Deposits(c) = {r.invoice}

Logged(r) ==
  r.event = "contract_created" =>
    r.id \in DOMAIN contracts /\ Complete(r.id) /\ r.invoices = Cardinality(All(r.id))

Lost == {c \in DOMAIN contracts : ~Complete(c) /\ ~UnderWay(c)}

LedgerTypes ==
  /\ IsSeq(contracts) /\ invoices \in Seq(Invoice)
  /\ \A c \in DOMAIN contracts :
       contracts[c].term \in Term /\ Before(contracts[c].term.start, contracts[c].term.end)
  /\ \A i \in DOMAIN invoices : invoices[i].contract \in DOMAIN contracts

ContractsInv ==
  /\ Base /\ LedgerTypes
  /\ \A w \in Workers : ScheduleSound(pc[w], req[w])
  /\ \A w \in Workers : pc[w] = "audit" => Logged(req[w])
  /\ \A k \in DOMAIN trail : Logged(trail[k])
  /\ Cardinality(Lost) <= faults

LEMMA LogIsTrue ==
  ASSUME ContractsInv
  PROVE  ContractsComplete
  BY DEF ContractsInv, ContractsComplete, Lost, Logged, All

LEMMA LostFinite ==
  ASSUME LedgerTypes
  PROVE  IsFiniteSet(Lost)
<1>1. PICK S : S = {contracts[k] : k \in DOMAIN contracts}
  OBVIOUS
<1>2. DOMAIN contracts = 1..Len(contracts) /\ Len(contracts) \in Nat
  BY <1>1 DEF LedgerTypes, IsSeq
<1>3. IsFiniteSet(DOMAIN contracts)
  BY <1>2, FS_Interval
<1>4. Lost \subseteq DOMAIN contracts
  BY DEF Lost
<1> QED
  BY <1>3, <1>4, FS_Subset

LEMMA AllFinite ==
  ASSUME LedgerTypes, NEW c
  PROVE  IsFiniteSet(All(c)) /\ IsFiniteSet(Deposits(c))
<1>1. DOMAIN invoices = 1..Len(invoices) /\ Len(invoices) \in Nat
  BY DEF LedgerTypes
<1>2. IsFiniteSet(DOMAIN invoices)
  BY <1>1, FS_Interval
<1>3. All(c) \subseteq DOMAIN invoices /\ Deposits(c) \subseteq DOMAIN invoices
  BY DEF All, Deposits, InvoicesOf
<1> QED
  BY <1>2, <1>3, FS_Subset

\* A contract whose invoices stay what they are.
LEMMA ContractStays ==
  ASSUME NEW c, c \in DOMAIN contracts, contracts'[c] = contracts[c],
         DOMAIN invoices \subseteq DOMAIN invoices',
         \A i \in DOMAIN invoices : invoices'[i] = invoices[i],
         \A i \in DOMAIN invoices' \ DOMAIN invoices : invoices'[i].contract # c,
         snapshots \subseteq snapshots'
  PROVE  /\ All(c)' = All(c) /\ Rents(c)' = Rents(c) /\ Deposits(c)' = Deposits(c)
         /\ InOrder(c)' = InOrder(c) /\ NoGap(c)' = NoGap(c) /\ WithinTerm(c)' = WithinTerm(c)
         /\ ToTheEnd(c)' = ToTheEnd(c) /\ (Complete(c) => Complete(c)')
<1>1. All(c)' = All(c) /\ Rents(c)' = Rents(c) /\ Deposits(c)' = Deposits(c)
  BY DEF All, Rents, Deposits, InvoicesOf
<1>2. Rents(c) \subseteq DOMAIN invoices
  BY DEF Rents, InvoicesOf
<1>3. InOrder(c)' = InOrder(c) /\ WithinTerm(c)' = WithinTerm(c) /\ ToTheEnd(c)' = ToTheEnd(c)
  BY <1>1, <1>2 DEF InOrder, WithinTerm, ToTheEnd
<1>4. \A i \in Rents(c) :
        {invoices[k].due : k \in {j \in Rents(c) : j < i}}'
          = {invoices[k].due : k \in {j \in Rents(c) : j < i}}
  BY <1>1, <1>2
<1>5. NoGap(c)' = NoGap(c)
  BY <1>1, <1>2, <1>4 DEF NoGap
<1> QED
  BY <1>1, <1>3, <1>5 DEF Complete, Covered

LEMMA ContractsBegin == Init => ContractsInv
<1> SUFFICES ASSUME Init PROVE ContractsInv
  OBVIOUS
<1>1. contracts = <<>> /\ invoices = <<>> /\ trail = <<>> /\ faults = 0
  BY DEF Init, ContractsInit, RequestsInit
<1>2. Base
  BY VerificationBegins DEF VerificationInv
<1>3. LedgerTypes
  BY <1>1 DEF LedgerTypes, IsSeq
<1>4. \A w \in Workers : pc[w] = "idle"
  BY DEF Init, RequestsInit
<1>5. Lost = {}
  BY <1>1 DEF Lost
<1> QED
  BY <1>1, <1>2, <1>3, <1>4, <1>5, FS_EmptySet DEF ContractsInv, ScheduleSound, AtContracts

\* A step at the schedule of c: it goes on, or c is complete.
LEMMA ScheduleStep ==
  ASSUME OneWorker, ContractsInv, Base', LedgerTypes', NEW w \in Workers, NEW c,
         pc[w] \in AtContracts, req[w].contract = c,
         UNCHANGED <<trail, faults, contracts>>,
         DOMAIN invoices \subseteq DOMAIN invoices',
         \A i \in DOMAIN invoices : invoices'[i] = invoices[i],
         \A i \in DOMAIN invoices' \ DOMAIN invoices : invoices'[i].contract = c,
         snapshots \subseteq snapshots',
         ScheduleSound(pc[w], req[w])',
         \/ pc'[w] \in AtContracts /\ req'[w].contract = c
         \/ pc'[w] = "audit" /\ Complete(c)' /\ Logged(req[w])'
  PROVE  ContractsInv'
<1>1. \A k \in DOMAIN trail : trail[k].event = "contract_created" => trail[k].id # c
  BY DEF ContractsInv, ScheduleSound, Schedule
<1>2. \A b \in DOMAIN contracts \ {c} : All(b)' = All(b) /\ (Complete(b) => Complete(b)')
  BY ContractStays
<1>3. \A k \in DOMAIN trail' : Logged(trail[k])'
  BY <1>1, <1>2 DEF ContractsInv, Logged
<1>4. \A v \in Workers : ScheduleSound(pc[v], req[v])' /\ (pc'[v] = "audit" => Logged(req[v])')
  BY DEF OneWorker, AtContracts
<1>5. Lost' \subseteq Lost
  <2> SUFFICES ASSUME NEW b \in Lost' PROVE b \in Lost
    OBVIOUS
  <2>1. b \in DOMAIN contracts /\ ~Complete(b)' /\ ~UnderWay(b)'
    BY DEF Lost
  <2>2. b # c
    BY <2>1 DEF UnderWay, AtContracts
  <2>3. ~UnderWay(b)
    BY <2>2 DEF UnderWay, OneWorker
  <2> QED
    BY <2>1, <2>2, <2>3, <1>2 DEF Lost
<1>6. (Cardinality(Lost) <= faults)'
  BY <1>5, LostFinite, CountFewer DEF ContractsInv, Base
<1> QED
  BY <1>3, <1>4, <1>6 DEF ContractsInv

\* The invoice that a schedule adds.
LEMMA AddedInvoice ==
  ASSUME LedgerTypes, NEW c \in DOMAIN contracts, NEW due \in Date, NEW kind \in {"rent", "deposit"},
         NEW n, n = Len(invoices) + 1, contracts' = contracts,
         NEW inv, inv = [contract |-> c, due |-> due, kind |-> kind], invoices' = Append(invoices, inv)
  PROVE  /\ LedgerTypes' /\ n \in Nat /\ DOMAIN invoices' = DOMAIN invoices \cup {n}
         /\ \A i \in DOMAIN invoices : invoices'[i] = invoices[i] /\ i < n /\ i \in Nat
         /\ invoices'[n].due = due /\ invoices'[n].contract = c
         /\ All(c)' = All(c) \cup {n} /\ Cardinality(All(c)') = Cardinality(All(c)) + 1
         /\ Rents(c)' = IF kind = "rent" THEN Rents(c) \cup {n} ELSE Rents(c)
         /\ Deposits(c)' = IF kind = "deposit" THEN Deposits(c) \cup {n} ELSE Deposits(c)
<1>2. inv.contract = c /\ inv.due = due /\ inv.kind = kind
  OBVIOUS
<1>3. c \in Nat
  <2>1. PICK S : S = {contracts[k] : k \in DOMAIN contracts}
    OBVIOUS
  <2> QED
    BY <2>1 DEF LedgerTypes, IsSeq
<1>4. inv \in Invoice
  BY <1>3 DEF Invoice
<1>5. /\ n \in Nat /\ n \notin DOMAIN invoices /\ DOMAIN invoices' = DOMAIN invoices \cup {n}
      /\ invoices' \in Seq(Invoice) /\ invoices'[n] = inv
      /\ \A i \in DOMAIN invoices : invoices'[i] = invoices[i] /\ i < n /\ i \in Nat
  BY <1>4 DEF LedgerTypes
<1>6. LedgerTypes'
  BY <1>2, <1>5 DEF LedgerTypes
<1>7. All(c)' = All(c) \cup {n} /\ n \notin All(c)
  BY <1>2, <1>5 DEF All
<1>8. Cardinality(All(c)') = Cardinality(All(c)) + 1
  BY <1>7, AllFinite, FS_AddElement
<1>9. /\ Rents(c)' = IF kind = "rent" THEN Rents(c) \cup {n} ELSE Rents(c)
      /\ Deposits(c)' = IF kind = "deposit" THEN Deposits(c) \cup {n} ELSE Deposits(c)
  BY <1>2, <1>5 DEF Rents, Deposits, InvoicesOf
<1> QED
  BY <1>2, <1>5, <1>6, <1>7, <1>8, <1>9

\* One more rent keeps the order, the distance and the term.
LEMMA NewRent ==
  ASSUME LedgerTypes, NEW c \in DOMAIN contracts, NEW current \in Date, NEW due, NEW n,
         NEW t, t = contracts[c].term, due = Upto(Add(current, t.every), t),
         Before(current, t.end), Reached(c, current),
         InOrder(c), NoGap(c), WithinTerm(c),
         contracts' = contracts, DOMAIN invoices \subseteq DOMAIN invoices',
         \A i \in DOMAIN invoices : invoices'[i] = invoices[i] /\ i < n /\ i \in Nat,
         n \in Nat, invoices'[n].due = due, Rents(c)' = Rents(c) \cup {n}
  PROVE  InOrder(c)' /\ NoGap(c)' /\ WithinTerm(c)' /\ Reached(c, due)'
<1>1. t \in Term /\ t.end \in Date /\ t.start \in Date /\ t.every \in {1, 3, 12}
  BY DEF LedgerTypes, Term
<1>2. PICK next : next = Add(current, t.every)
  OBVIOUS
<1>3. next \in Date /\ Before(current, next)
  BY <1>1, <1>2, AddLater
<1>4. due \in Date /\ Before(current, due) /\ ~Before(t.end, due) /\ ~Before(next, due)
  BY <1>1, <1>2, <1>3, DateOrder DEF Upto
<1>5. \A i \in Rents(c) : /\ i \in DOMAIN invoices /\ i \in Nat /\ i < n /\ invoices'[i] = invoices[i]
                          /\ invoices[i].due \in Date
  <2> SUFFICES ASSUME NEW i \in Rents(c)
               PROVE  /\ i \in DOMAIN invoices /\ i \in Nat /\ i < n /\ invoices'[i] = invoices[i]
                      /\ invoices[i].due \in Date
    OBVIOUS
  <2>1. i \in DOMAIN invoices
    BY DEF Rents, InvoicesOf
  <2>2. invoices[i] \in Invoice
    BY <2>1 DEF LedgerTypes
  <2>3. invoices[i].due \in Date
    BY <2>2 DEF Invoice
  <2> QED
    BY <2>1, <2>3
<1>6. \A i \in Rents(c) : Before(invoices[i].due, due)
  <2> SUFFICES ASSUME NEW i \in Rents(c) PROVE Before(invoices[i].due, due)
    OBVIOUS
  <2>1. PICK l \in Rents(c) : invoices[l].due = current /\ \A j \in Rents(c) : j <= l
    BY DEF Reached
  <2>2. invoices[i].due = current \/ Before(invoices[i].due, current)
    BY <2>1, <1>5 DEF InOrder
  <2>3. ~Before(due, current)
    BY <1>4, DateOrder
  <2> QED
    BY <2>2, <2>3, <1>4, <1>5, DateOrder
<1>7. InOrder(c)'
  BY <1>5, <1>6 DEF InOrder
<1>8. WithinTerm(c)'
  BY <1>4, <1>5 DEF WithinTerm
<1>9. Reached(c, due)'
  BY <1>5 DEF Reached
<1>10. NoGap(c)'
  <2>1. ASSUME NEW i \in Rents(c)
        PROVE  \E d \in {invoices'[k].due : k \in {j \in Rents(c)' : j < i}} \cup {t.start} :
                 ~Before(Add(d, t.every), invoices'[i].due)
    <3>1. {invoices'[k].due : k \in {j \in Rents(c)' : j < i}}
            = {invoices[k].due : k \in {j \in Rents(c) : j < i}}
      BY <1>5
    <3> QED
      BY <3>1, <1>5 DEF NoGap
  <2>2. current \in {invoices'[k].due : k \in {j \in Rents(c)' : j < n}} \cup {t.start}
    BY <1>5 DEF Reached
  <2> QED
    BY <1>2, <1>4, <2>1, <2>2 DEF NoGap
<1> QED
  BY <1>7, <1>8, <1>9, <1>10

LEMMA NextCreateContract ==
  ASSUME OneWorker, ContractsInv, Base', NEW w \in Workers, NEW x, NEW t \in Terms, CreateContract(w, x, t)
  PROVE  ContractsInv'
<1>1. PICK c, row, r : /\ c = Len(contracts) + 1 /\ row = [profile |-> x, term |-> t]
                       /\ r = [contract |-> c, current |-> t.start, count |-> 0, invoice |-> 0]
  OBVIOUS
<1>2. /\ contracts' = Append(contracts, row) /\ row.term = t /\ Before(t.start, t.end)
      /\ UNCHANGED <<invoices, snapshots, trail, faults>> /\ pc[w] = "idle"
      /\ pc'[w] = "period" /\ req'[w] = r
  BY <1>1 DEF CreateContract, Begin, ContractsInv, Base
<1>3. t \in Term /\ t.start \in Date /\ t.end \in Date
  BY ContractsAssumption DEF Term
<1>4. IsSeq(contracts) /\ contracts' = Append(contracts, row)
  BY <1>2 DEF ContractsInv, LedgerTypes
<1>5. IsSeq(contracts')
  BY <1>4, Appended
<1>6. /\ DOMAIN contracts' = DOMAIN contracts \cup {c} /\ c \notin DOMAIN contracts
      /\ contracts'[c] = row /\ \A b \in DOMAIN contracts : contracts'[b] = contracts[b]
  BY <1>1, <1>4, Appended
<1>7. LedgerTypes'
  BY <1>2, <1>3, <1>5, <1>6 DEF ContractsInv, LedgerTypes
<1>8. All(c)' = {} /\ Rents(c)' = {} /\ Deposits(c)' = {}
  BY <1>2, <1>6 DEF ContractsInv, LedgerTypes, All, Rents, Deposits, InvoicesOf
<1>9. \A k \in DOMAIN trail' : trail'[k].event = "contract_created" => trail'[k].id # c
  BY <1>2, <1>6 DEF ContractsInv, Logged
<1>10. ScheduleSound(pc[w], req[w])'
  <2>1. (InOrder(c) /\ NoGap(c) /\ WithinTerm(c))'
    BY <1>8 DEF InOrder, NoGap, WithinTerm
  <2>2. r.contract = c /\ DOMAIN r = ScheduleFields /\ r.current = t.start /\ r.count = 0
    BY <1>1 DEF ScheduleFields
  <2>3. Schedule(r, c)'
    BY <1>3, <1>6, <1>8, <1>9, <2>1, <2>2, FS_EmptySet DEF Schedule
  <2>4. Upto(t.start, t) = t.start
    BY <1>2, <1>3, DateOrder DEF Upto
  <2>5. Reached(c, t.start)'
    BY <1>2, <1>6, <1>8 DEF Reached
  <2> QED
    BY <1>2, <1>6, <1>8, <2>2, <2>3, <2>4, <2>5 DEF ScheduleSound, AtContracts
<1>11. \A v \in Workers : ScheduleSound(pc[v], req[v])' /\ (pc'[v] = "audit" => Logged(req[v])')
  BY <1>2, <1>10 DEF OneWorker
<1>12. \A b \in DOMAIN contracts : All(b)' = All(b) /\ (Complete(b) => Complete(b)')
  BY <1>2, <1>6, ContractStays
<1>13. \A k \in DOMAIN trail' : Logged(trail[k])'
  BY <1>2, <1>6, <1>12 DEF ContractsInv, Logged
<1>14. Lost' \subseteq Lost
  <2> SUFFICES ASSUME NEW b \in Lost' PROVE b \in Lost
    OBVIOUS
  <2>1. b \in DOMAIN contracts' /\ ~Complete(b)' /\ ~UnderWay(b)'
    BY DEF Lost
  <2>2. b # c
    BY <1>1, <1>2, <2>1 DEF UnderWay
  <2>3. ~UnderWay(b)
    BY <1>2 DEF UnderWay, OneWorker
  <2> QED
    BY <1>6, <1>12, <2>1, <2>2, <2>3 DEF Lost
<1>15. (Cardinality(Lost) <= faults)'
  BY <1>2, <1>14, LostFinite, CountFewer DEF ContractsInv, Base
<1> QED
  BY <1>7, <1>11, <1>13, <1>15 DEF ContractsInv

\* What a step at a schedule relies on.
LEMMA AtSchedule ==
  ASSUME ContractsInv, NEW w \in Workers, pc[w] \in AtContracts, NEW r, r = req[w], NEW c, c = r.contract
  PROVE  /\ Schedule(r, c) /\ ScheduleSound(pc[w], r) /\ c \in DOMAIN contracts
         /\ contracts[c].term \in Term /\ Before(contracts[c].term.start, contracts[c].term.end)
         /\ contracts[c].term.start \in Date /\ contracts[c].term.end \in Date
         /\ contracts[c].term.every \in {1, 3, 12}
<1>1. ScheduleSound(pc[w], r)
  BY DEF ContractsInv
<1>2. Schedule(r, c)
  BY <1>1 DEF ScheduleSound
<1>3. c \in DOMAIN contracts
  BY <1>2 DEF Schedule
<1> QED
  BY <1>1, <1>2, <1>3 DEF ContractsInv, LedgerTypes, Term

LEMMA NextAddPeriod ==
  ASSUME OneWorker, ContractsInv, Base', NEW w \in Workers, AddPeriod(w)
  PROVE  ContractsInv'
<1>1. PICK r, c, t, n : r = req[w] /\ c = r.contract /\ t = contracts[c].term /\ n = Len(invoices) + 1
  OBVIOUS
<1>2. PICK q, due : q = [r EXCEPT !.invoice = n, !.count = @ + 1] /\ due = Upto(Add(r.current, t.every), t)
  OBVIOUS
<1>3. pc[w] = "period" /\ pc[w] \in AtContracts
  BY DEF AddPeriod, AtContracts
<1>4. /\ Schedule(r, c) /\ ScheduleSound("period", r) /\ c \in DOMAIN contracts
      /\ t.start \in Date /\ t.end \in Date /\ t.every \in {1, 3, 12}
  BY <1>1, <1>3, AtSchedule
<1>5. /\ Before(r.current, t.end) /\ Due(r.current, t) = due
      /\ invoices' = Append(invoices, [contract |-> c, due |-> due, kind |-> "rent"])
      /\ UNCHANGED <<contracts, snapshots, trail, faults>>
      /\ pc'[w] = "snapshot" /\ req'[w] = q
  BY <1>1, <1>2 DEF AddPeriod, AddInvoice, Continue, TermOf, Due, Upto, ContractsInv, Base
<1>6. r.current \in Date /\ Upto(r.current, t) = r.current
  BY <1>4, <1>5, DateOrder DEF Schedule, Upto
<1>7. due \in Date
  BY <1>2, <1>4, <1>6, AddLater DEF Upto
<1>8. LedgerTypes
  BY DEF ContractsInv
<1>9. /\ LedgerTypes' /\ n \in Nat /\ DOMAIN invoices' = DOMAIN invoices \cup {n}
      /\ \A i \in DOMAIN invoices : invoices'[i] = invoices[i] /\ i < n /\ i \in Nat
      /\ invoices'[n].due = due /\ invoices'[n].contract = c
      /\ Cardinality(All(c)') = Cardinality(All(c)) + 1
      /\ Rents(c)' = Rents(c) \cup {n} /\ Deposits(c)' = Deposits(c)
  <2>1. PICK kind, inv : kind = "rent" /\ inv = [contract |-> c, due |-> due, kind |-> kind]
    OBVIOUS
  <2>2. kind \in {"rent", "deposit"} /\ invoices' = Append(invoices, inv)
    BY <1>5, <2>1
  <2>3. /\ Rents(c)' = IF kind = "rent" THEN Rents(c) \cup {n} ELSE Rents(c)
        /\ Deposits(c)' = IF kind = "deposit" THEN Deposits(c) \cup {n} ELSE Deposits(c)
        /\ LedgerTypes' /\ n \in Nat /\ DOMAIN invoices' = DOMAIN invoices \cup {n}
        /\ \A i \in DOMAIN invoices : invoices'[i] = invoices[i] /\ i < n /\ i \in Nat
        /\ invoices'[n].due = due /\ invoices'[n].contract = c
        /\ Cardinality(All(c)') = Cardinality(All(c)) + 1
    BY <1>1, <1>4, <1>5, <1>7, <1>8, <2>1, <2>2, AddedInvoice
  <2> QED
    BY <2>1, <2>3
<1>10. Reached(c, r.current) /\ Deposits(c) = {} /\ Rents(c) \subseteq snapshots
  BY <1>1, <1>4, <1>6 DEF ScheduleSound
<1>11. InOrder(c)' /\ NoGap(c)' /\ WithinTerm(c)' /\ Reached(c, due)'
  BY <1>1, <1>2, <1>4, <1>5, <1>6, <1>8, <1>9, <1>10, NewRent DEF Schedule
<1>12. /\ q.contract = c /\ DOMAIN q = ScheduleFields /\ q.current = r.current
       /\ q.count = r.count + 1 /\ q.invoice = n
  BY <1>1, <1>2, <1>4 DEF Schedule, ScheduleFields
<1>13. Schedule(q, c)'
  BY <1>4, <1>5, <1>6, <1>9, <1>11, <1>12 DEF Schedule
<1>14. ScheduleSound(pc[w], req[w])'
  BY <1>1, <1>2, <1>5, <1>9, <1>10, <1>11, <1>12, <1>13 DEF ScheduleSound
<1>15. pc'[w] \in AtContracts /\ req'[w].contract = c
  BY <1>5, <1>12 DEF AtContracts
<1> QED
  BY <1>1, <1>3, <1>5, <1>9, <1>14, <1>15, ScheduleStep

LEMMA NextSnapshotPeriod ==
  ASSUME OneWorker, ContractsInv, Base', NEW w \in Workers, SnapshotPeriod(w)
  PROVE  ContractsInv'
<1>1. PICK r, c, t, q : /\ r = req[w] /\ c = r.contract /\ t = contracts[c].term
                        /\ q = [r EXCEPT !.current = Add(@, t.every)]
  OBVIOUS
<1>2. pc[w] = "snapshot" /\ pc[w] \in AtContracts
  BY DEF SnapshotPeriod, AtContracts
<1>3. Schedule(r, c) /\ ScheduleSound("snapshot", r) /\ c \in DOMAIN contracts /\ t.every \in {1, 3, 12}
  BY <1>1, <1>2, AtSchedule
<1>4. /\ snapshots' = snapshots \cup {r.invoice} /\ UNCHANGED <<contracts, invoices, trail, faults>>
      /\ pc'[w] = "period" /\ req'[w] = q
  BY <1>1 DEF SnapshotPeriod, AddSnapshot, Continue, TermOf, ContractsInv, Base
<1>5. LedgerTypes'
  BY <1>4 DEF ContractsInv, LedgerTypes
<1>6. /\ q.contract = c /\ DOMAIN q = ScheduleFields /\ q.current = Add(r.current, t.every)
      /\ q.count = r.count /\ q.invoice = r.invoice
  BY <1>1, <1>3 DEF Schedule, ScheduleFields
<1>7. q.current \in Date
  BY <1>3, <1>6, AddLater DEF Schedule
<1>8. /\ All(c)' = All(c) /\ Rents(c)' = Rents(c) /\ Deposits(c)' = Deposits(c)
      /\ InOrder(c)' = InOrder(c) /\ NoGap(c)' = NoGap(c) /\ WithinTerm(c)' = WithinTerm(c)
  BY <1>3, <1>4, ContractStays
<1>9. Schedule(q, c)'
  BY <1>3, <1>4, <1>6, <1>7, <1>8 DEF Schedule
<1>10. Reached(c, Upto(q.current, t))'
  <2>1. Reached(c, Upto(q.current, t))
    BY <1>1, <1>3, <1>6 DEF ScheduleSound
  <2> QED
    BY <1>4, <1>8, <2>1 DEF Reached
<1>11. ScheduleSound(pc[w], req[w])'
  BY <1>1, <1>3, <1>4, <1>6, <1>8, <1>9, <1>10 DEF ScheduleSound
<1>12. pc'[w] \in AtContracts /\ req'[w].contract = c
  BY <1>4, <1>6 DEF AtContracts
<1> QED
  BY <1>1, <1>2, <1>4, <1>5, <1>11, <1>12, ScheduleStep

\* The loop ends where the contract does.
LEMMA NextEndSchedule ==
  ASSUME OneWorker, ContractsInv, Base', NEW w \in Workers, EndSchedule(w)
  PROVE  ContractsInv'
<1>1. PICK r, c, t : r = req[w] /\ c = r.contract /\ t = contracts[c].term
  OBVIOUS
<1>2. pc[w] = "period" /\ pc[w] \in AtContracts
  BY DEF EndSchedule, AtContracts
<1>3. /\ Schedule(r, c) /\ ScheduleSound("period", r) /\ c \in DOMAIN contracts
      /\ t.start \in Date /\ t.end \in Date /\ Before(t.start, t.end) /\ t \in Term
  BY <1>1, <1>2, AtSchedule
<1>4. ~Before(r.current, t.end) /\ UNCHANGED <<contracts, invoices, snapshots, trail, faults>>
  BY <1>1 DEF EndSchedule, TermOf, ledger, Continue
<1>5. /\ Reached(c, Upto(r.current, t)) /\ Deposits(c) = {} /\ Rents(c) \subseteq snapshots
      /\ InOrder(c) /\ NoGap(c) /\ WithinTerm(c)
  BY <1>1, <1>3 DEF ScheduleSound, Schedule
<1>6. Upto(r.current, t) = t.end
  BY <1>3, <1>4, DateOrder DEF Schedule, Upto
<1>7. ToTheEnd(c)
  BY <1>1, <1>3, <1>5, <1>6, DateOrder DEF Reached, ToTheEnd
<1>8. LedgerTypes'
  BY <1>4 DEF ContractsInv, LedgerTypes
<1>9. /\ All(c)' = All(c) /\ Rents(c)' = Rents(c) /\ Deposits(c)' = Deposits(c)
      /\ InOrder(c)' = InOrder(c) /\ NoGap(c)' = NoGap(c) /\ WithinTerm(c)' = WithinTerm(c)
      /\ ToTheEnd(c)' = ToTheEnd(c) /\ (Complete(c) => Complete(c)')
  BY <1>3, <1>4, ContractStays
<1>10. CASE t.deposit
  <2>1. pc'[w] = "deposit" /\ req'[w] = r
    BY <1>1, <1>10 DEF EndSchedule, TermOf, Continue, ContractsInv, Base
  <2>2. Schedule(r, c)'
    BY <1>3, <1>4, <1>9 DEF Schedule
  <2>3. ScheduleSound(pc[w], req[w])'
    BY <1>1, <1>4, <1>5, <1>7, <1>9, <1>10, <2>1, <2>2 DEF ScheduleSound
  <2>4. pc'[w] \in AtContracts /\ req'[w].contract = c
    BY <1>1, <2>1 DEF AtContracts
  <2> QED
    BY <1>1, <1>2, <1>4, <1>8, <2>3, <2>4, ScheduleStep
<1>11. CASE ~t.deposit
  <2>1. /\ pc'[w] = "audit"
        /\ req'[w] = [event |-> "contract_created", id |-> c, invoices |-> r.count]
    BY <1>1, <1>11 DEF EndSchedule, TermOf, Continue, ContractsInv, Base, Created
  <2>2. Complete(c)
    BY <1>1, <1>5, <1>7, <1>11, FS_EmptySet DEF Complete, Covered
  <2>3. Complete(c)' /\ Logged(req[w])'
    BY <1>3, <1>4, <1>9, <2>1, <2>2 DEF Logged, Schedule
  <2>4. ScheduleSound(pc[w], req[w])'
    BY <2>1 DEF ScheduleSound, AtContracts
  <2> QED
    BY <1>1, <1>2, <1>4, <1>8, <2>1, <2>3, <2>4, ScheduleStep
<1> QED
  BY <1>10, <1>11

LEMMA NextAddDeposit ==
  ASSUME OneWorker, ContractsInv, Base', NEW w \in Workers, AddDeposit(w)
  PROVE  ContractsInv'
<1>1. PICK r, c, t, n, kind : /\ r = req[w] /\ c = r.contract /\ t = contracts[c].term
                              /\ n = Len(invoices) + 1 /\ kind = "deposit"
  OBVIOUS
<1>2. PICK q, inv : /\ q = [r EXCEPT !.invoice = n, !.count = @ + 1]
                    /\ inv = [contract |-> c, due |-> t.start, kind |-> kind]
  OBVIOUS
<1>3. pc[w] = "deposit" /\ pc[w] \in AtContracts
  BY DEF AddDeposit, AtContracts
<1>4. Schedule(r, c) /\ ScheduleSound("deposit", r) /\ c \in DOMAIN contracts /\ t.start \in Date
  BY <1>1, <1>3, AtSchedule
<1>5. /\ invoices' = Append(invoices, inv) /\ kind \in {"rent", "deposit"}
      /\ UNCHANGED <<contracts, snapshots, trail, faults>>
      /\ pc'[w] = "receipt" /\ req'[w] = q
  BY <1>1, <1>2 DEF AddDeposit, AddInvoice, Continue, TermOf, ContractsInv, Base
<1>6. LedgerTypes
  BY DEF ContractsInv
<1>7. /\ Rents(c)' = IF kind = "rent" THEN Rents(c) \cup {n} ELSE Rents(c)
      /\ Deposits(c)' = IF kind = "deposit" THEN Deposits(c) \cup {n} ELSE Deposits(c)
      /\ LedgerTypes' /\ n \in Nat
      /\ \A i \in DOMAIN invoices : invoices'[i] = invoices[i]
      /\ DOMAIN invoices' = DOMAIN invoices \cup {n} /\ invoices'[n].contract = c
      /\ Cardinality(All(c)') = Cardinality(All(c)) + 1
  BY <1>1, <1>2, <1>4, <1>5, <1>6, AddedInvoice
<1>8. /\ ToTheEnd(c) /\ t.deposit /\ Rents(c) \subseteq snapshots /\ Deposits(c) = {}
      /\ InOrder(c) /\ NoGap(c) /\ WithinTerm(c)
  BY <1>1, <1>4 DEF ScheduleSound, Schedule
<1>9. Rents(c)' = Rents(c) /\ Deposits(c)' = {n} /\ Rents(c) \subseteq DOMAIN invoices
  BY <1>1, <1>7, <1>8 DEF Rents, InvoicesOf
<1>10. InOrder(c)' /\ WithinTerm(c)' /\ ToTheEnd(c)'
  BY <1>5, <1>7, <1>8, <1>9 DEF InOrder, WithinTerm, ToTheEnd
<1>11. NoGap(c)'
  <2>1. \A i \in Rents(c) :
          {invoices'[k].due : k \in {j \in Rents(c)' : j < i}}
            = {invoices[k].due : k \in {j \in Rents(c) : j < i}}
    BY <1>7, <1>9
  <2> QED
    BY <1>5, <1>7, <1>8, <1>9, <2>1 DEF NoGap
<1>12. q.contract = c /\ DOMAIN q = ScheduleFields /\ q.current = r.current /\ q.count = r.count + 1 /\ q.invoice = n
  BY <1>1, <1>2, <1>4 DEF Schedule, ScheduleFields
<1>13. Schedule(q, c)'
  BY <1>4, <1>5, <1>7, <1>10, <1>11, <1>12 DEF Schedule
<1>14. ScheduleSound(pc[w], req[w])'
  BY <1>1, <1>5, <1>8, <1>9, <1>10, <1>12, <1>13 DEF ScheduleSound
<1>15. pc'[w] \in AtContracts /\ req'[w].contract = c
  BY <1>5, <1>12 DEF AtContracts
<1> QED
  BY <1>1, <1>3, <1>5, <1>7, <1>14, <1>15, ScheduleStep

LEMMA NextSnapshotDeposit ==
  ASSUME OneWorker, ContractsInv, Base', NEW w \in Workers, SnapshotDeposit(w)
  PROVE  ContractsInv'
<1>1. PICK r, c, t : r = req[w] /\ c = r.contract /\ t = contracts[c].term
  OBVIOUS
<1>2. pc[w] = "receipt" /\ pc[w] \in AtContracts
  BY DEF SnapshotDeposit, AtContracts
<1>3. Schedule(r, c) /\ ScheduleSound("receipt", r) /\ c \in DOMAIN contracts
  BY <1>1, <1>2, AtSchedule
<1>4. /\ snapshots' = snapshots \cup {r.invoice} /\ UNCHANGED <<contracts, invoices, trail, faults>>
      /\ pc'[w] = "audit"
      /\ req'[w] = [event |-> "contract_created", id |-> c, invoices |-> r.count]
  BY <1>1 DEF SnapshotDeposit, AddSnapshot, Continue, Created, ContractsInv, Base
<1>5. LedgerTypes'
  BY <1>4 DEF ContractsInv, LedgerTypes
<1>6. /\ All(c)' = All(c) /\ Rents(c)' = Rents(c) /\ Deposits(c)' = Deposits(c)
      /\ InOrder(c)' = InOrder(c) /\ NoGap(c)' = NoGap(c) /\ WithinTerm(c)' = WithinTerm(c)
      /\ ToTheEnd(c)' = ToTheEnd(c)
  BY <1>3, <1>4, ContractStays
<1>7. /\ ToTheEnd(c) /\ t.deposit /\ Rents(c) \subseteq snapshots /\ Deposits(c) = {r.invoice}
      /\ InOrder(c) /\ NoGap(c) /\ WithinTerm(c)
  BY <1>1, <1>3 DEF ScheduleSound, Schedule
<1>8. Cardinality(Deposits(c)') = 1
  BY <1>6, <1>7, FS_Singleton
<1>9. Complete(c)'
  BY <1>1, <1>4, <1>6, <1>7, <1>8 DEF Complete, Covered
<1>10. Logged(req[w])'
  BY <1>3, <1>4, <1>6, <1>9 DEF Logged, Schedule
<1>11. ScheduleSound(pc[w], req[w])'
  BY <1>4 DEF ScheduleSound, AtContracts
<1> QED
  BY <1>1, <1>2, <1>4, <1>5, <1>9, <1>10, <1>11, ScheduleStep

\* A schedule that nothing happens to.
LEMMA ScheduleKept ==
  ASSUME UNCHANGED ledger, UNCHANGED trail, NEW s, NEW r
  PROVE  ScheduleSound(s, r)' = ScheduleSound(s, r)
<1>1. contracts' = contracts /\ invoices' = invoices /\ snapshots' = snapshots /\ trail' = trail
  BY DEF ledger
<1>2. PICK c : c = r.contract
  OBVIOUS
<1>3. /\ All(c)' = All(c) /\ Rents(c)' = Rents(c) /\ Deposits(c)' = Deposits(c)
      /\ InOrder(c)' = InOrder(c) /\ NoGap(c)' = NoGap(c) /\ WithinTerm(c)' = WithinTerm(c)
      /\ ToTheEnd(c)' = ToTheEnd(c)
  BY <1>1 DEF All, Rents, Deposits, InvoicesOf, InOrder, NoGap, WithinTerm, ToTheEnd
<1>4. Schedule(r, c)' = Schedule(r, c)
  BY <1>1, <1>3 DEF Schedule
<1>5. \A d : Reached(c, d)' = Reached(c, d)
  BY <1>1, <1>3 DEF Reached
<1> QED
  BY <1>1, <1>2, <1>3, <1>4, <1>5 DEF ScheduleSound

LEMMA EverySchedule ==
  ASSUME UNCHANGED ledger, UNCHANGED <<trail, pc, req>>,
         \A v \in Workers : ScheduleSound(pc[v], req[v])
  PROVE  \A v \in Workers : ScheduleSound(pc[v], req[v])'
<1> SUFFICES ASSUME NEW v \in Workers PROVE ScheduleSound(pc[v], req[v])'
  OBVIOUS
<1>1. PICK s, r : s = pc[v] /\ r = req[v]
  OBVIOUS
<1>2. ScheduleSound(s, r)'
  BY <1>1, ScheduleKept
<1>3. pc'[v] = s /\ req'[v] = r
  BY <1>1
<1> QED
  BY <1>2, <1>3 DEF ScheduleSound

\* The ledger and what is said of it, unless a schedule is cut off.
LEMMA LedgerKept ==
  ASSUME UNCHANGED ledger
  PROVE  /\ LedgerTypes' = LedgerTypes
         /\ \A c \in DOMAIN contracts : All(c)' = All(c) /\ (Complete(c) => Complete(c)')
<1>1. contracts' = contracts /\ invoices' = invoices /\ snapshots' = snapshots
  BY DEF ledger
<1>2. LedgerTypes' = LedgerTypes
  BY <1>1 DEF LedgerTypes
<1>3. \A c \in DOMAIN contracts : All(c)' = All(c) /\ (Complete(c) => Complete(c)')
  BY <1>1, ContractStays
<1> QED
  BY <1>2, <1>3

LEMMA ContractsRest ==
  ASSUME OneWorker, ContractsInv, Base', NEW w \in Workers, UNCHANGED ledger, UNCHANGED <<trail, faults>>,
         pc[w] \notin AtContracts, pc'[w] \notin AtContracts,
         pc'[w] = "audit" => req'[w].event # "contract_created"
  PROVE  ContractsInv'
<1>1. /\ contracts' = contracts /\ LedgerTypes'
      /\ \A c \in DOMAIN contracts : All(c)' = All(c) /\ (Complete(c) => Complete(c)')
  BY LedgerKept DEF ContractsInv, ledger
<1>2. \A v \in Workers : ScheduleSound(pc[v], req[v])' /\ (pc'[v] = "audit" => Logged(req[v])')
  BY DEF OneWorker, ScheduleSound, AtContracts, Logged
<1>3. \A k \in DOMAIN trail' : Logged(trail[k])'
  BY <1>1 DEF ContractsInv, Logged
<1>4. Lost' \subseteq Lost
  BY <1>1 DEF Lost, UnderWay, OneWorker, AtContracts
<1>5. (Cardinality(Lost) <= faults)'
  BY <1>4, LostFinite, CountFewer DEF ContractsInv, Base
<1> QED
  BY <1>1, <1>2, <1>3, <1>5 DEF ContractsInv

LEMMA ContractsEnd ==
  ASSUME OneWorker, ContractsInv, NEW w \in Workers, UNCHANGED ledger,
         WriteAudit(w) \/ Crash(w) \/ Pass(w)
  PROVE  ContractsInv'
<1>1. /\ contracts' = contracts /\ LedgerTypes'
      /\ \A c \in DOMAIN contracts : All(c)' = All(c) /\ (Complete(c) => Complete(c)')
  BY LedgerKept DEF ContractsInv, ledger
<1>2. /\ Base'
      /\ \/ /\ pc[w] = "audit" /\ trail' = Append(trail, req[w]) /\ faults' = faults /\ pc'[w] = "idle"
         \/ /\ pc[w] # "idle" /\ trail' = trail /\ faults' = faults + 1 /\ pc'[w] = "idle"
         \/ UNCHANGED <<trail, faults, pc, req>>
  BY EndMoves DEF ContractsInv
<1>3. \A r : Logged(r) => Logged(r)'
  BY <1>1 DEF Logged
<1>4. CASE pc[w] = "audit" /\ trail' = Append(trail, req[w]) /\ faults' = faults /\ pc'[w] = "idle"
  <2>1. PICK r : r = req[w]
    OBVIOUS
  <2>2. IsSeq(trail) /\ trail' = Append(trail, r)
    BY <1>4, <2>1 DEF ContractsInv, Base
  <2>3. \A k \in DOMAIN trail' : trail'[k] = r \/ (k \in DOMAIN trail /\ trail'[k] = trail[k])
    BY <2>2, Appended
  <2>4. Logged(r)
    BY <1>4, <2>1 DEF ContractsInv
  <2>5. \A k \in DOMAIN trail' : Logged(trail[k])'
    BY <1>1, <2>3, <2>4 DEF ContractsInv, Logged
  <2>6. \A v \in Workers : ScheduleSound(pc[v], req[v])' /\ (pc'[v] = "audit" => Logged(req[v])')
    BY <1>4 DEF OneWorker, ScheduleSound, AtContracts
  <2>7. Lost' \subseteq Lost
    BY <1>1, <1>4 DEF Lost, UnderWay, OneWorker
  <2>8. (Cardinality(Lost) <= faults)'
    BY <1>4, <2>7, LostFinite, CountFewer DEF ContractsInv, Base
  <2> QED
    BY <1>1, <1>2, <2>5, <2>6, <2>8 DEF ContractsInv
<1>5. CASE pc[w] # "idle" /\ trail' = trail /\ faults' = faults + 1 /\ pc'[w] = "idle"
  <2>1. PICK r : r = req[w]
    OBVIOUS
  <2>2. \A v \in Workers : ScheduleSound(pc[v], req[v])' /\ (pc'[v] = "audit" => Logged(req[v])')
    BY <1>5 DEF OneWorker, ScheduleSound, AtContracts
  <2>3. \A k \in DOMAIN trail' : Logged(trail[k])'
    BY <1>1, <1>5 DEF ContractsInv, Logged
  <2>4. Lost' \subseteq Lost \cup {r.contract}
    BY <1>1, <2>1 DEF Lost, UnderWay, OneWorker
  <2>5. (Cardinality(Lost) <= faults)'
    BY <1>5, <2>4, LostFinite, CountOneMore DEF ContractsInv, Base
  <2> QED
    BY <1>1, <1>2, <2>2, <2>3, <2>5 DEF ContractsInv
<1>6. CASE UNCHANGED <<trail, faults, pc, req>>
  <2>1. \A k \in DOMAIN trail' : Logged(trail[k])'
    BY <1>1, <1>6 DEF ContractsInv, Logged
  <2>2. \A v \in Workers : pc'[v] = "audit" => Logged(req[v])'
    BY <1>1, <1>6 DEF ContractsInv, Logged
  <2>3. \A v \in Workers : ScheduleSound(pc[v], req[v])'
    BY <1>6, EverySchedule DEF ContractsInv
  <2>4. Lost' \subseteq Lost
    BY <1>1, <1>6 DEF Lost, UnderWay
  <2>5. (Cardinality(Lost) <= faults)'
    BY <1>6, <2>4, LostFinite, CountFewer DEF ContractsInv, Base
  <2> QED
    BY <1>1, <1>2, <2>1, <2>2, <2>3, <2>5 DEF ContractsInv
<1> QED
  BY <1>2, <1>4, <1>5, <1>6

LEMMA ContractsNext ==
  ASSUME OneWorker, ContractsInv, [Next]_vars
  PROVE  ContractsInv'
<1>1. ASSUME NEW w \in Workers, ContractsStep(w) PROVE ContractsInv'
  <2>1. Base'
    BY <1>1, ContractsMoves DEF ContractsInv
  <2> QED
    BY <1>1, <2>1, NextCreateContract, NextAddPeriod, NextSnapshotPeriod, NextEndSchedule, NextAddDeposit,
       NextSnapshotDeposit DEF ContractsStep
<1>2. ASSUME NEW w \in Workers, VerificationStep(w), UNCHANGED ledger PROVE ContractsInv'
  <2>1. /\ Base' /\ UNCHANGED <<trail, faults>>
        /\ pc[w] \in AtVerification \cup {"idle"} /\ pc'[w] \in AtVerification \cup {"audit"}
        /\ pc'[w] = "audit" => req'[w].event \in Verdict \cup {"verification_submitted"}
    BY <1>2, VerificationMoves DEF ContractsInv, Moves
  <2> QED
    BY <1>2, <2>1, ContractsRest DEF AtVerification, AtContracts, Verdict
<1>3. ASSUME NEW w \in Workers, ProfilesStep(w), UNCHANGED ledger PROVE ContractsInv'
  <2>1. /\ Base' /\ UNCHANGED <<trail, faults>>
        /\ pc[w] \in AtProfiles \cup {"idle"} /\ pc'[w] \in AtProfiles \cup {"idle", "audit"}
        /\ pc'[w] = "audit" => req'[w].event \in {"entity_created"}
    BY <1>3, ProfilesMoves DEF ContractsInv, Moves
  <2> QED
    BY <1>3, <2>1, ContractsRest DEF AtProfiles, AtContracts
<1>4. CASE UNCHANGED vars
  <2>1. UNCHANGED <<pc, req, trail, faults>> /\ UNCHANGED ledger
    BY <1>4 DEF vars, process
  <2>2. /\ contracts' = contracts /\ LedgerTypes'
        /\ \A c \in DOMAIN contracts : All(c)' = All(c) /\ (Complete(c) => Complete(c)')
    BY <2>1, LedgerKept DEF ContractsInv, ledger
  <2>3. Base'
    BY <2>1 DEF ContractsInv, Base
  <2>4. \A v \in Workers : ScheduleSound(pc[v], req[v])'
    BY <2>1, EverySchedule DEF ContractsInv
  <2>5. /\ \A k \in DOMAIN trail' : Logged(trail[k])'
        /\ \A v \in Workers : pc'[v] = "audit" => Logged(req[v])'
    BY <2>1, <2>2 DEF ContractsInv, Logged
  <2>6. Lost' \subseteq Lost
    BY <2>1, <2>2 DEF Lost, UnderWay
  <2>7. (Cardinality(Lost) <= faults)'
    BY <2>1, <2>6, LostFinite, CountFewer DEF ContractsInv, Base
  <2> QED
    BY <2>2, <2>3, <2>4, <2>5, <2>7 DEF ContractsInv
<1>5. ASSUME NEW w \in Workers, WriteAudit(w) \/ Crash(w) \/ Pass(w), UNCHANGED ledger PROVE ContractsInv'
  BY <1>5, ContractsEnd
<1> QED
  BY <1>1, <1>2, <1>3, <1>4, <1>5 DEF Next

-----------------------------------------------------------------------------
(* What holds at every moment *)

LEMMA VerificationAlways ==
  ASSUME OneWorker
  PROVE  Spec => []VerificationInv
<1>1. VerificationInv /\ [Next]_vars => VerificationInv'
  BY VerificationNext
<1> QED
  BY <1>1, VerificationBegins, PTL DEF Spec

LEMMA ProfilesAlways ==
  ASSUME OneWorker
  PROVE  Spec => []ProfilesInv
<1>1. ProfilesInv /\ [Next]_vars => ProfilesInv'
  BY ProfilesNext
<1> QED
  BY <1>1, ProfilesBegin, PTL DEF Spec

\* VerificationService::approve and reject of one process: an application has one
\* decision row, which is what its status and the audit log say.
THEOREM OneStoryPerApplication ==
  ASSUME OneWorker
  PROVE  Spec => []DecisionsAgree
<1>1. VerificationInv => DecisionsAgree
  BY DEF VerificationInv
<1> QED
  BY <1>1, VerificationAlways, PTL

\* Of the applications that have a status but no decision row there are never
\* more than requests that died between the two statements.
THEOREM DecisionsAreRecorded ==
  ASSUME OneWorker
  PROVE  Spec => []DecidedIsRecorded
<1>1. VerificationInv => DecidedIsRecorded
  BY DEF VerificationInv
<1> QED
  BY <1>1, VerificationAlways, PTL

\* DuplicateService::flagDuplicates of one process: no pair of profiles has two
\* open duplicate flags, whatever is created, renamed or merged.
THEOREM FlagsAreSingle ==
  ASSUME OneWorker
  PROVE  Spec => []OneOpenFlag
<1>1. ProfilesInv => OneOpenFlag
  BY DEF ProfilesInv
<1> QED
  BY <1>1, ProfilesAlways, PTL

\* EntityService::merge: the history rows explain the digits of every profile,
\* from one merge to the next and up to what the profile has today.
THEOREM HistoryExplainsDigits ==
  ASSUME OneWorker
  PROVE  Spec => []MergesTraceable
<1>1. ProfilesInv => MergesTraceable
  BY DEF ProfilesInv
<1> QED
  BY <1>1, ProfilesAlways, PTL

\* create and update end with an open flag for every profile that matches, but
\* for a pair that was flagged the same way round before and then resolved.
THEOREM MatchesAreFlagged ==
  ASSUME OneWorker
  PROVE  Spec => []WarnedUnlessMerged
<1>1. ProfilesInv => WarnedUnlessMerged
  BY RecheckedSound
<1> QED
  BY <1>1, ProfilesAlways, PTL

\* ContractService::create: a contract has rents from its start to its end with
\* no gap, the deposit that it asks for and a snapshot of each, but for one per
\* request that died on the way; and the audit log tells of no other.  This
\* holds of every calendar and of every pair of dates in order.
THEOREM SchedulesAreComplete ==
  ASSUME OneWorker
  PROVE  Spec => []ContractsComplete
<1>1. ContractsInv /\ [Next]_vars => ContractsInv'
  BY ContractsNext
<1>2. ContractsInv => ContractsComplete
  BY LogIsTrue
<1> QED
  BY <1>1, <1>2, ContractsBegin, PTL DEF Spec
=============================================================================
