-------------------------- MODULE Delegation_proofs --------------------------
(***************************************************************************)
(* Theorems about Delegation.  That access is backed by a second            *)
(* administrator and ends in time holds for any number of API processes;    *)
(* that a delegation is decided once, and the audit log true, only for one.  *)
(***************************************************************************)
EXTENDS Delegation, TLAPS

OKRow == {r \in Row : r.status # "pending_approval" => r.approvedBy \in Admins}

-----------------------------------------------------------------------------
(* Types *)

LEMMA TypeInit == Init => TypeOK
  BY DEF Init, TypeOK, Visit

\* What the sweep of the job does to a row.
LEMMA SweptRow ==
  ASSUME NEW row \in OKRow
  PROVE  /\ Swept(row) \in OKRow
         /\ Swept(row).grantor = row.grantor /\ Swept(row).grantee = row.grantee
         /\ Swept(row).scope = row.scope /\ Swept(row).created = row.created
         /\ Swept(row).expires = row.expires /\ Swept(row).approvedBy = row.approvedBy
         /\ \/ Swept(row).status = row.status
            \/ row.status = "active" /\ Swept(row).status = "expired"
<1>1. CASE Lapsed(row)
  <2>1. Swept(row) = [row EXCEPT !.status = "expired"] /\ row.status = "active"
    BY <1>1 DEF Swept, Lapsed
  <2>2. row \in Row /\ row.approvedBy \in Admins
    BY <2>1 DEF OKRow
  <2>3. PICK t : t = [row EXCEPT !.status = "expired"]
    OBVIOUS
  <2>4. /\ t \in Row /\ t.status = "expired" /\ t.approvedBy = row.approvedBy
        /\ t.grantor = row.grantor /\ t.grantee = row.grantee /\ t.scope = row.scope
        /\ t.created = row.created /\ t.expires = row.expires
    BY <2>2, <2>3 DEF Row, Status
  <2>5. Swept(row) = t
    BY Zenon, <2>1, <2>3
  <2>6. t \in OKRow
    BY <2>2, <2>4 DEF OKRow
  <2> QED
    BY <2>1, <2>4, <2>5, <2>6
<1>2. CASE ~Lapsed(row)
  BY <1>2 DEF Swept
<1> QED
  BY <1>1, <1>2

\* What a decision does to a row.
LEMMA DecidedRow ==
  ASSUME NEW row \in OKRow, NEW r \in Entry
  PROVE  /\ Decided(row, r) \in OKRow
         /\ Decided(row, r).grantor = row.grantor /\ Decided(row, r).grantee = row.grantee
         /\ Decided(row, r).scope = row.scope /\ Decided(row, r).created = row.created
         /\ Decided(row, r).expires = row.expires
         /\ Decided(row, r).approvedBy = r.by /\ Decided(row, r).status = r.status
  BY DEF OKRow, Row, Status, Entry, Decided

\* A sequence whose elements are changed one by one.
LEMMA MapRows ==
  ASSUME NEW S, NEW s \in Seq(S), NEW t, DOMAIN t = DOMAIN s,
         t = [d \in DOMAIN s |-> t[d]], \A d \in DOMAIN s : t[d] \in S
  PROVE  t \in Seq(S) /\ Len(t) = Len(s)
<1>1. Len(s) \in Nat /\ DOMAIN s = 1..Len(s)
  OBVIOUS
<1>2. t \in [1..Len(s) -> S]
  BY <1>1
<1> QED
  BY <1>1, <1>2

LEMMA TypeStep == TypeOK /\ [Next]_vars => TypeOK'
<1> SUFFICES ASSUME TypeOK, [Next]_vars
             PROVE  TypeOK'
  OBVIOUS
<1> USE DEF TypeOK
<1>1. delegations \in Seq(OKRow)
  BY DEF OKRow
<1>2. CASE Tick
  BY <1>2 DEF Tick
<1>3. ASSUME NEW w \in Workers, NEW p \in Proposals, NEW e \in Expiries, AskGrant(w, p, e)
      PROVE  TypeOK'
  <2>1. [ask |-> p, expires |-> e] \in Ask
    BY <1>3, DelegationAssumption DEF AskGrant, Ask
  <2> QED
    BY <1>3, <2>1 DEF AskGrant, Begin
<1>4. ASSUME NEW w \in Workers, NEW u \in Users, NEW d \in DOMAIN delegations,
             NEW status \in {"active", "revoked"}, AskDecision(w, u, d, status)
      PROVE  TypeOK'
  <2>1. [by |-> u, id |-> d, status |-> status] \in Entry
    BY <1>4 DEF AskDecision, MayDecide, Entry, Status
  <2> QED
    BY <1>4, <2>1 DEF AskDecision, Begin
<1>5. ASSUME NEW w \in Workers, NEW l \in Lookups, AllowCounty(w, l)
      PROVE  TypeOK'
  BY <1>5, DelegationAssumption DEF AllowCounty, Allow, Visit, Lookup
<1>6. ASSUME NEW w \in Workers, NEW l \in Lookups, LookFurther(w, l)
      PROVE  TypeOK'
  BY <1>6, DelegationAssumption DEF LookFurther, Begin
<1>7. ASSUME NEW w \in Workers, InsertDelegation(w)
      PROVE  TypeOK'
  <2> DEFINE row == [grantor |-> req[w].ask.by, grantee |-> req[w].ask.to,
                     scope |-> req[w].ask.scope, created |-> now,
                     expires |-> req[w].expires, status |-> "pending_approval",
                     approvedBy |-> None]
             entry == [by |-> req[w].ask.by, id |-> Len(delegations) + 1,
                       status |-> "pending_approval"]
  <2>1. row \in OKRow
    BY <1>7 DEF InsertDelegation, OKRow, Row, Status, Ask, MayGrant, Proposal
  <2>2. entry \in Entry
    BY <1>7, <1>1 DEF InsertDelegation, Entry, Status, Ask, MayGrant, Proposal
  <2>3. delegations' = Append(delegations, row)
    BY <1>7 DEF InsertDelegation
  <2>4. delegations' \in Seq(OKRow)
    BY <1>1, <2>1, <2>3
  <2>5. pc' = [pc EXCEPT ![w] = "audit"] /\ req' = [req EXCEPT ![w] = entry]
    BY <1>7 DEF InsertDelegation, Continue
  <2> HIDE DEF row, entry
  <2> QED
    BY <1>7, <2>2, <2>4, <2>5 DEF InsertDelegation, Continue, OKRow
<1>8. ASSUME NEW w \in Workers, Decide(w)
      PROVE  TypeOK'
  <2>1. req[w] \in Entry
    BY <1>8 DEF Decide
  <2>2. \A d \in DOMAIN delegations : delegations[d] \in OKRow
    BY <1>1
  <2>3. \A d \in DOMAIN delegations : delegations'[d] \in OKRow
    BY <1>8, <2>1, <2>2, DecidedRow DEF Decide
  <2>4. delegations' \in Seq(OKRow)
    BY <1>8, <1>1, <2>3, MapRows DEF Decide
  <2> QED
    BY <1>8, <2>1, <2>4 DEF Decide, Continue, OKRow
<1>9. ASSUME NEW w \in Workers, WriteAudit(w)
      PROVE  TypeOK'
  BY <1>9 DEF WriteAudit, Finish, Continue
<1>10. ASSUME NEW w \in Workers, CheckAreas(w)
       PROVE  TypeOK'
  BY <1>10 DEF CheckAreas, Allow, Visit, Lookup, Finish, Continue
<1>11. ASSUME NEW w \in Workers, Crash(w)
       PROVE  TypeOK'
  BY <1>11 DEF Crash, Finish, Continue
<1>12. ASSUME NEW a \in Runners, ExpireDelegations(a)
       PROVE  TypeOK'
  <2>1. \A d \in DOMAIN delegations : delegations[d] \in OKRow
    BY <1>1
  <2>2. \A d \in DOMAIN delegations : delegations'[d] \in OKRow
    BY <1>12, <2>1, SweptRow DEF ExpireDelegations
  <2>3. delegations' \in Seq(OKRow)
    BY <1>12, <1>1, <2>2, MapRows DEF ExpireDelegations
  <2> QED
    BY <1>12, <2>3 DEF ExpireDelegations, OKRow
<1>13. CASE UNCHANGED vars
  BY <1>13 DEF vars
<1> QED
  BY <1>2, <1>3, <1>4, <1>5, <1>6, <1>7, <1>8, <1>9, <1>10, <1>11, <1>12, <1>13 DEF Next

\* The tables of delegations keep their shape, for any number of processes.
THEOREM TypeCorrect == Spec => []TypeOK
<1>1. Init => TypeOK
  BY TypeInit
<1>2. TypeOK /\ [Next]_vars => TypeOK'
  BY TypeStep
<1> QED
  BY <1>1, <1>2, PTL DEF Spec

-----------------------------------------------------------------------------
(* Access is backed *)

SecondAdmin(row) == row.approvedBy \in Admins \ {row.grantor}

RowsSound ==
  \A d \in DOMAIN delegations :
    /\ delegations[d].created <= now
    /\ delegations[d].expires <= delegations[d].created + MaxWindow
    /\ delegations[d].status # "pending_approval" => SecondAdmin(delegations[d])

RequestsSound ==
  \A w \in Workers :
    /\ pc[w] = "insert" => req[w].expires <= now + MaxWindow
    /\ pc[w] = "decide" => /\ req[w].id \in DOMAIN delegations
                           /\ delegations[req[w].id].grantor # req[w].by

\* No step takes back what an access relied on.
RowsKept ==
  \A d \in DOMAIN delegations :
    /\ d \in DOMAIN delegations'
    /\ delegations'[d].grantor = delegations[d].grantor
    /\ delegations'[d].grantee = delegations[d].grantee
    /\ delegations'[d].scope = delegations[d].scope
    /\ delegations'[d].created = delegations[d].created
    /\ delegations'[d].expires = delegations[d].expires
    /\ SecondAdmin(delegations[d]) => SecondAdmin(delegations'[d])

Reaches(s, v) == s.level = "county" \/ v.area \in VisibleAreas(s)

Backs(row, v) ==
  /\ row.grantee = v.user /\ SecondAdmin(row) /\ Reaches(row.scope, v)
  /\ row.created <= v.at /\ v.at < row.expires /\ v.at <= row.created + MaxWindow

Backed(v) ==
  \/ CountyReach(Own[v.user], {}) \/ v.area \in VisibleAreas(Own[v.user])
  \/ \E d \in DOMAIN delegations : Backs(delegations[d], v)

LEMMA AccessIsBackedIs == AccessIsBacked <=> \A v \in visits : Backed(v)
  BY DEF AccessIsBacked, Backed, Backs, SecondAdmin, Reaches

LEMMA BackingStays ==
  ASSUME RowsKept, NEW v, Backed(v)
  PROVE  Backed(v)'
<1>1. CASE CountyReach(Own[v.user], {}) \/ v.area \in VisibleAreas(Own[v.user])
  BY <1>1 DEF Backed
<1>2. ASSUME NEW d \in DOMAIN delegations, Backs(delegations[d], v)
      PROVE  Backed(v)'
  <2>1. Backs(delegations'[d], v) /\ d \in DOMAIN delegations'
    BY <1>2 DEF RowsKept, Backs
  <2> QED
    BY <2>1 DEF Backed
<1> QED
  BY <1>1, <1>2 DEF Backed

\* A delegation in force backs whatever it lets through.
LEMMA InForceBacks ==
  ASSUME TypeOK, RowsSound, NEW l \in Lookup,
         NEW s \in {Own[l.user]} \cup Delegated(l.user),
         s.level = "county" \/ l.area \in VisibleAreas(s)
  PROVE  Backed([user |-> l.user, area |-> l.area, at |-> now])
<1> DEFINE v == [user |-> l.user, area |-> l.area, at |-> now]
<1>0. v.user = l.user /\ v.area = l.area /\ v.at = now
  OBVIOUS
<1> HIDE DEF v
<1>1. ASSUME s = Own[l.user]
      PROVE  Backed(v)
  BY <1>0, <1>1 DEF Backed, CountyReach
<1>2. ASSUME s \in Delegated(l.user)
      PROVE  Backed(v)
  <2>1. PICK d \in DOMAIN delegations : InForce(d, l.user) /\ s = delegations[d].scope
    BY <1>2 DEF Delegated
  <2>2. delegations[d] \in OKRow
    BY DEF TypeOK, OKRow
  <2>3. SecondAdmin(delegations[d]) /\ delegations[d].created <= now
    BY <2>1 DEF RowsSound, InForce
  <2>4. Reaches(delegations[d].scope, v)
    BY <1>0, <2>1 DEF Reaches
  <2>5. now < delegations[d].expires /\ now <= delegations[d].created + MaxWindow
    BY <2>1, <2>2, DelegationAssumption DEF RowsSound, InForce, OKRow, Row, TypeOK
  <2>6. Backs(delegations[d], v)
    BY <1>0, <2>1, <2>3, <2>4, <2>5 DEF Backs, InForce
  <2> QED
    BY <2>6 DEF Backed
<1>3. Backed(v)
  BY <1>1, <1>2
<1> QED
  BY <1>3 DEF v

LEMMA KeepRows ==
  ASSUME TypeOK, [Next]_vars, RequestsSound
  PROVE  RowsKept
<1>1. \A d \in DOMAIN delegations : delegations[d] \in OKRow
  BY DEF TypeOK, OKRow
<1>2. CASE UNCHANGED delegations
  BY <1>2 DEF RowsKept
<1>3. ASSUME NEW w \in Workers, InsertDelegation(w)
      PROVE  RowsKept
  <2>1. \A d \in DOMAIN delegations : d \in DOMAIN delegations' /\ delegations'[d] = delegations[d]
    BY <1>3 DEF InsertDelegation, TypeOK
  <2> QED
    BY <2>1 DEF RowsKept
<1>4. ASSUME NEW w \in Workers, Decide(w)
      PROVE  RowsKept
  <2>1. req[w] \in Entry /\ req[w].by \in Admins
    BY <1>4 DEF Decide, TypeOK, Entry
  <2>2. \A d \in DOMAIN delegations : /\ d \in DOMAIN delegations'
          /\ \/ delegations'[d] = delegations[d]
             \/ d = req[w].id /\ delegations'[d] = Decided(delegations[d], req[w])
    BY <1>4 DEF Decide, TypeOK
  <2>3. req[w].by # delegations[req[w].id].grantor
    BY <1>4 DEF Decide, RequestsSound
  <2> QED
    BY <1>1, <2>1, <2>2, <2>3, DecidedRow DEF RowsKept, SecondAdmin
<1>5. ASSUME NEW a \in Runners, ExpireDelegations(a)
      PROVE  RowsKept
  <2>1. \A d \in DOMAIN delegations :
          d \in DOMAIN delegations' /\ delegations'[d] = Swept(delegations[d])
    BY <1>5 DEF ExpireDelegations, TypeOK
  <2> QED
    BY <1>1, <2>1, SweptRow DEF RowsKept, SecondAdmin
<1> QED
  BY <1>2, <1>3, <1>4, <1>5 DEF Next, vars, Tick, AskGrant, AskDecision, AllowCounty,
     LookFurther, WriteAudit, CheckAreas, Crash

BackedInv == TypeOK /\ RowsSound /\ RequestsSound /\ AccessIsBacked

LEMMA ClockGrows ==
  ASSUME TypeOK, [Next]_vars
  PROVE  now \in Nat /\ now' \in Nat /\ now <= now'
<1>1. now \in Nat
  BY DEF TypeOK
<1>2. now' = now + 1 \/ now' = now
  BY DEF Next, vars, Tick, AskGrant, AskDecision, AllowCounty, LookFurther,
     InsertDelegation, Decide, WriteAudit, CheckAreas, Crash, ExpireDelegations
<1> QED
  BY <1>1, <1>2

LEMMA RowsSoundStep ==
  ASSUME TypeOK, RowsSound, RequestsSound, [Next]_vars
  PROVE  RowsSound'
<1> USE DelegationAssumption
<1>1. \A d \in DOMAIN delegations : delegations[d] \in OKRow
  BY DEF TypeOK, OKRow
<1>2. now \in Nat /\ now' \in Nat /\ now <= now'
  BY ClockGrows
<1>3. CASE UNCHANGED delegations
  BY <1>1, <1>2, <1>3 DEF RowsSound, OKRow, Row, SecondAdmin
<1>4. ASSUME NEW w \in Workers, InsertDelegation(w)
      PROVE  RowsSound'
  <2>1. now' = now /\ req[w].expires <= now + MaxWindow /\ None \notin Admins
    BY <1>4 DEF InsertDelegation, RequestsSound
  <2>2. ASSUME NEW d \in DOMAIN delegations'
        PROVE  \/ d \in DOMAIN delegations /\ delegations'[d] = delegations[d]
               \/ /\ delegations'[d].created = now
                  /\ delegations'[d].expires = req[w].expires
                  /\ delegations'[d].status = "pending_approval"
    BY <1>4, <2>2 DEF InsertDelegation, TypeOK
  <2> QED
    BY <1>1, <1>2, <2>1, <2>2 DEF RowsSound, SecondAdmin
<1>5. ASSUME DOMAIN delegations' = DOMAIN delegations, now' = now,
             \A d \in DOMAIN delegations :
               /\ delegations'[d].status = "pending_approval" \/ SecondAdmin(delegations'[d])
               /\ delegations'[d].created = delegations[d].created
               /\ delegations'[d].expires = delegations[d].expires
      PROVE  RowsSound'
  BY <1>5 DEF RowsSound, SecondAdmin
<1>6. ASSUME NEW w \in Workers, Decide(w)
      PROVE  RowsSound'
  <2>1. req[w] \in Entry /\ req[w].by \in Admins
    BY <1>6 DEF Decide, TypeOK, Entry
  <2>2. DOMAIN delegations' = DOMAIN delegations /\ now' = now
    BY <1>6 DEF Decide, TypeOK
  <2>3. ASSUME NEW d \in DOMAIN delegations
        PROVE  /\ delegations'[d].status = "pending_approval" \/ SecondAdmin(delegations'[d])
               /\ delegations'[d].created = delegations[d].created
               /\ delegations'[d].expires = delegations[d].expires
    <3>1. CASE d = req[w].id
      <4>1. delegations'[d] = Decided(delegations[d], req[w])
        BY <1>6, <3>1 DEF Decide, TypeOK
      <4>2. req[w].by # delegations[d].grantor
        BY <1>6, <3>1 DEF Decide, RequestsSound
      <4> QED
        BY <1>1, <2>1, <4>1, <4>2, DecidedRow DEF SecondAdmin
    <3>2. CASE d # req[w].id
      BY <1>6, <3>2 DEF Decide, TypeOK, RowsSound
    <3> QED
      BY <3>1, <3>2
  <2> QED
    BY <1>5, <2>2, <2>3
<1>7. ASSUME NEW a \in Runners, ExpireDelegations(a)
      PROVE  RowsSound'
  <2>1. DOMAIN delegations' = DOMAIN delegations /\ now' = now
    BY <1>7 DEF ExpireDelegations, TypeOK
  <2>2. \A d \in DOMAIN delegations : delegations'[d] = Swept(delegations[d])
    BY <1>7 DEF ExpireDelegations
  <2>3. \A d \in DOMAIN delegations :
          /\ delegations'[d].status = "pending_approval" \/ SecondAdmin(delegations'[d])
          /\ delegations'[d].created = delegations[d].created
          /\ delegations'[d].expires = delegations[d].expires
    BY <1>1, <2>2, SweptRow DEF RowsSound, SecondAdmin
  <2> QED
    BY <1>5, <2>1, <2>3
<1> QED
  BY <1>3, <1>4, <1>6, <1>7 DEF Next, vars, Tick, AskGrant, AskDecision, AllowCounty,
     LookFurther, WriteAudit, CheckAreas, Crash

LEMMA RequestsSoundStep ==
  ASSUME TypeOK, TypeOK', RequestsSound, RowsKept, [Next]_vars
  PROVE  RequestsSound'
<1> USE DelegationAssumption
<1> SUFFICES ASSUME NEW v \in Workers
             PROVE  /\ pc'[v] = "insert" => req'[v].expires <= now' + MaxWindow
                    /\ pc'[v] = "decide" => /\ req'[v].id \in DOMAIN delegations'
                                            /\ delegations'[req'[v].id].grantor # req'[v].by
  BY DEF RequestsSound
<1>1. now \in Nat /\ now' \in Nat /\ now <= now'
  BY ClockGrows
<1>2. CASE pc'[v] = pc[v] /\ req'[v] = req[v]
  <2>1. pc[v] = "insert" => req[v].expires \in Nat
    BY DEF TypeOK, Ask
  <2> QED
    BY <1>1, <1>2, <2>1 DEF RequestsSound, RowsKept
<1>3. CASE pc'[v] \notin {"insert", "decide"}
  BY <1>3
<1>4. ASSUME NEW p \in Proposals, NEW e \in Expiries, AskGrant(v, p, e)
      PROVE  req'[v].expires <= now' + MaxWindow /\ pc'[v] = "insert"
  BY <1>1, <1>4 DEF AskGrant, Acceptable, Begin, TypeOK
<1>5. ASSUME NEW u \in Users, NEW d \in DOMAIN delegations,
             NEW status \in {"active", "revoked"}, AskDecision(v, u, d, status)
      PROVE  /\ req'[v].id \in DOMAIN delegations' /\ pc'[v] = "decide"
             /\ delegations'[req'[v].id].grantor # req'[v].by
  BY <1>5 DEF AskDecision, MayDecide, Begin, TypeOK
<1>6. ASSUME NEW w \in Workers, w # v \/ pc'[v] \notin {"insert", "decide"},
             \/ \E p \in Proposals, e \in Expiries : AskGrant(w, p, e)
             \/ \E u \in Users, d \in DOMAIN delegations, status \in {"active", "revoked"} :
                  AskDecision(w, u, d, status)
             \/ \E l \in Lookups : AllowCounty(w, l) \/ LookFurther(w, l)
             \/ InsertDelegation(w) \/ Decide(w) \/ WriteAudit(w) \/ CheckAreas(w)
             \/ Crash(w)
      PROVE  pc'[v] \notin {"insert", "decide"} \/ (pc'[v] = pc[v] /\ req'[v] = req[v])
  BY <1>6 DEF AskGrant, AskDecision, AllowCounty, LookFurther, InsertDelegation, Decide,
     WriteAudit, CheckAreas, Crash, Begin, Continue, Finish, TypeOK
<1>7. ASSUME \/ \E l \in Lookups : AllowCounty(v, l) \/ LookFurther(v, l)
             \/ InsertDelegation(v) \/ Decide(v) \/ WriteAudit(v) \/ CheckAreas(v)
             \/ Crash(v)
      PROVE  pc'[v] \notin {"insert", "decide"}
  BY <1>7 DEF AllowCounty, LookFurther, InsertDelegation, Decide, WriteAudit, CheckAreas,
     Crash, Begin, Continue, Finish, TypeOK
<1>8. ASSUME Tick \/ (\E a \in Runners : ExpireDelegations(a)) \/ UNCHANGED vars
      PROVE  pc'[v] = pc[v] /\ req'[v] = req[v]
  BY <1>8 DEF Tick, ExpireDelegations, vars
<1> QED
  BY <1>2, <1>3, <1>4, <1>5, <1>6, <1>7, <1>8 DEF Next

LEMMA BackedStep == BackedInv /\ [Next]_vars => BackedInv'
<1> SUFFICES ASSUME BackedInv, [Next]_vars
             PROVE  BackedInv'
  OBVIOUS
<1>0. TypeOK /\ RowsSound /\ RequestsSound /\ \A v \in visits : Backed(v)
  BY AccessIsBackedIs DEF BackedInv
<1>1. TypeOK'
  BY <1>0, TypeStep
<1>2. RowsKept
  BY <1>0, KeepRows
<1>3. RowsSound' /\ RequestsSound'
  BY <1>0, <1>1, <1>2, RowsSoundStep, RequestsSoundStep
<1>4. \A v : Backed(v) => Backed(v)'
  BY <1>2, BackingStays
<1>5. ASSUME NEW v \in visits' \ visits
      PROVE  Backed(v)
  <2>1. ASSUME NEW w \in Workers, NEW l \in Lookups, AllowCounty(w, l)
        PROVE  Backed(v)
    <3>1. l \in Lookup /\ v = [user |-> l.user, area |-> l.area, at |-> now]
      BY <1>5, <2>1, DelegationAssumption DEF AllowCounty, Allow
    <3>2. PICK s \in {Own[l.user]} \cup Delegated(l.user) : s.level = "county"
      BY <2>1 DEF AllowCounty, CountyReach
    <3> QED
      BY <1>0, <3>1, <3>2, InForceBacks
  <2>2. ASSUME NEW w \in Workers, CheckAreas(w)
        PROVE  Backed(v)
    <3> DEFINE l == req[w]
    <3>1. l \in Lookup /\ v = [user |-> l.user, area |-> l.area, at |-> now]
      BY <1>0, <1>5, <2>2 DEF CheckAreas, Allow, TypeOK
    <3>2. l.area \in EffectiveAreas(Own[l.user], Delegated(l.user))
      BY <1>5, <2>2 DEF CheckAreas, Allow
    <3>3. PICK s \in {Own[l.user]} \cup Delegated(l.user) : l.area \in VisibleAreas(s)
      BY <3>2 DEF EffectiveAreas
    <3>4. PICK m : m = l
      OBVIOUS
    <3> HIDE DEF l
    <3> QED
      BY <1>0, <3>1, <3>3, <3>4, InForceBacks
  <2>3. ASSUME UNCHANGED visits
        PROVE  Backed(v)
    BY <1>5, <2>3
  <2> QED
    BY <2>1, <2>2, <2>3 DEF Next, vars, Tick, AskGrant, AskDecision, LookFurther,
       InsertDelegation, Decide, WriteAudit, Crash, ExpireDelegations
<1>6. \A v \in visits' : Backed(v)'
  BY <1>0, <1>4, <1>5
<1>7. AccessIsBacked'
  BY <1>6 DEF AccessIsBacked, Backed, Backs, SecondAdmin, Reaches
<1> QED
  BY <1>1, <1>3, <1>7 DEF BackedInv

\* Nobody reaches beyond his own scope but by a delegation to him with the name
\* of a second administrator on it, while it runs and within MaxWindow of its
\* making: for any number of API processes and administrators.
THEOREM EveryAccessIsBacked == Spec => []AccessIsBacked
<1>1. Init => BackedInv
  BY TypeInit DEF Init, BackedInv, RowsSound, RequestsSound, AccessIsBacked
<1>2. BackedInv /\ [Next]_vars => BackedInv'
  BY BackedStep
<1>3. BackedInv => AccessIsBacked
  BY DEF BackedInv
<1> QED
  BY <1>1, <1>2, <1>3, PTL DEF Spec

-----------------------------------------------------------------------------
(* With one API process, a delegation is decided once.  The scheduler beside *)
(* it only touches active rows.                                            *)

OneWorker == \A v, w \in Workers : v = w

\* Nobody signs a row that is still pending, and a decision on its way finds
\* the row as it was when the request looked.
DecisionsFresh ==
  /\ \A d \in DOMAIN delegations :
       delegations[d].status = "pending_approval" => delegations[d].approvedBy = None
  /\ \A w \in Workers : pc[w] = "decide" =>
       /\ req[w].id \in DOMAIN delegations
       /\ delegations[req[w].id].status = "pending_approval"
       /\ req[w].status \in {"active", "revoked"}

\* The entry that is about to be written is true, and no second decision.
EntriesToCome ==
  \A w \in Workers : pc[w] = "audit" =>
    /\ Agrees(req[w])
    /\ req[w].status # "pending_approval" =>
         \A n \in DOMAIN audit : audit[n].id = req[w].id => audit[n].status = "pending_approval"

DecisionInv == TypeOK /\ DecisionsFresh /\ EntriesToCome /\ AuditTruthful

\* What the steps do to the rows, from the point of view of a decision.
Opened(d) == d = Len(delegations) + 1 /\ delegations'[d].status = "pending_approval"
                                     /\ delegations'[d].approvedBy = None
Ended(d) == /\ delegations[d].status = "active" /\ delegations'[d].status = "expired"
            /\ delegations'[d].approvedBy = delegations[d].approvedBy
            /\ delegations'[d].grantor = delegations[d].grantor
Same(d) == delegations'[d] = delegations[d]

\* Every step of Next is one of these, as far as rows are concerned.
RowsAsBefore == DOMAIN delegations' = DOMAIN delegations
                  /\ \A d \in DOMAIN delegations : Same(d) \/ Ended(d)
RowOpened == /\ DOMAIN delegations' = DOMAIN delegations \cup {Len(delegations) + 1}
             /\ \A d \in DOMAIN delegations : Same(d)
             /\ Opened(Len(delegations) + 1)
RowDecided(r) == /\ DOMAIN delegations' = DOMAIN delegations
                 /\ \A d \in DOMAIN delegations \ {r.id} : Same(d)
                 /\ delegations'[r.id].status = r.status
                 /\ delegations'[r.id].approvedBy = r.by
                 /\ delegations'[r.id].grantor = delegations[r.id].grantor

LEMMA InsertOpens ==
  ASSUME TypeOK, NEW w \in Workers, InsertDelegation(w)
  PROVE  RowOpened /\ delegations'[Len(delegations) + 1].grantor = req[w].ask.by
  BY DEF TypeOK, InsertDelegation, RowOpened, Same, Opened

LEMMA SweepEnds ==
  ASSUME TypeOK, NEW a \in Runners, ExpireDelegations(a)
  PROVE  RowsAsBefore
<1>1. \A d \in DOMAIN delegations : delegations[d] \in OKRow
  BY DEF TypeOK, OKRow
<1>2. DOMAIN delegations' = DOMAIN delegations
  BY DEF ExpireDelegations
<1>3. \A d \in DOMAIN delegations : delegations'[d] = Swept(delegations[d])
  BY DEF ExpireDelegations
<1>4. ASSUME NEW d \in DOMAIN delegations
      PROVE  Same(d) \/ Ended(d)
  <2>1. CASE Lapsed(delegations[d])
    <3>1. PICK row \in OKRow : row = delegations[d]
      BY <1>1
    <3>2. Swept(row).status = "expired" /\ row.status = "active"
      BY <2>1, <3>1 DEF Swept, Lapsed, OKRow, Row
    <3> QED
      BY <1>3, <3>1, <3>2, SweptRow DEF Ended
  <2>2. CASE ~Lapsed(delegations[d])
    BY <1>3, <2>2 DEF Swept, Same
  <2> QED
    BY <2>1, <2>2
<1> QED
  BY <1>2, <1>4 DEF RowsAsBefore

LEMMA DecideDecides ==
  ASSUME TypeOK, DecisionsFresh, NEW w \in Workers, Decide(w)
  PROVE  RowDecided(req[w]) /\ req[w].id \in DOMAIN delegations
<1>1. req[w].id \in DOMAIN delegations
  BY DEF DecisionsFresh, Decide
<1>2. delegations[req[w].id] \in OKRow /\ req[w] \in Entry
  BY <1>1 DEF TypeOK, OKRow, Decide
<1>3. delegations'[req[w].id] = Decided(delegations[req[w].id], req[w])
  BY <1>1 DEF Decide, TypeOK
<1>4. \A d \in DOMAIN delegations \ {req[w].id} : Same(d)
  BY DEF Decide, TypeOK, Same
<1>5. DOMAIN delegations' = DOMAIN delegations
  BY DEF Decide, TypeOK
<1> QED
  BY <1>1, <1>2, <1>3, <1>4, <1>5, DecidedRow DEF RowDecided

\* An entry that agrees goes on to agree.
LEMMA AgreeingStays ==
  ASSUME TypeOK, DecisionsFresh, NEW e \in Entry, Agrees(e),
         \/ RowsAsBefore \/ RowOpened
         \/ \E w \in Workers : Decide(w)
  PROVE  Agrees(e)'
<1>1. CASE RowsAsBefore
  BY <1>1 DEF RowsAsBefore, Same, Ended, Agrees
<1>2. CASE RowOpened
  BY <1>2 DEF RowOpened, Same, Agrees
<1>3. ASSUME NEW w \in Workers, Decide(w)
      PROVE  Agrees(e)'
  <2>1. RowDecided(req[w])
    BY <1>3, DecideDecides
  <2>2. CASE e.id = req[w].id
    <3>1. delegations[e.id].status = "pending_approval" /\ delegations[e.id].approvedBy = None
      BY <1>3, <2>2 DEF DecisionsFresh, Decide, Agrees
    <3>2. e.by # None
      BY DelegationAssumption DEF Entry
    <3>3. e.status = "pending_approval" /\ delegations[e.id].grantor = e.by
      BY <3>1, <3>2 DEF Agrees
    <3> QED
      BY <2>1, <2>2, <3>3 DEF RowDecided, Agrees
  <2>3. CASE e.id # req[w].id
    BY <2>1, <2>3 DEF RowDecided, Same, Agrees
  <2> QED
    BY <2>2, <2>3
<1> QED
  BY <1>1, <1>2, <1>3

LEMMA RowsStep ==
  ASSUME TypeOK, [Next]_vars
  PROVE  RowsAsBefore \/ RowOpened \/ \E w \in Workers : Decide(w)
<1>1. ASSUME UNCHANGED delegations
      PROVE  RowsAsBefore
  BY <1>1 DEF RowsAsBefore, Same
<1> QED
  BY <1>1, InsertOpens, SweepEnds DEF Next, vars, Tick, AskGrant, AskDecision, AllowCounty,
     LookFurther, WriteAudit, CheckAreas, Crash

\* Where an API process can be after a step that is not a sweep.
Steps(w) ==
  \/ \E p \in Proposals, e \in Expiries : AskGrant(w, p, e)
  \/ \E u \in Users, d \in DOMAIN delegations, status \in {"active", "revoked"} :
       AskDecision(w, u, d, status)
  \/ \E l \in Lookups : AllowCounty(w, l) \/ LookFurther(w, l)
  \/ InsertDelegation(w) \/ Decide(w) \/ WriteAudit(w) \/ CheckAreas(w)
  \/ Crash(w)

LEMMA DecisionsFreshStep ==
  ASSUME OneWorker, TypeOK, DecisionsFresh, [Next]_vars
  PROVE  DecisionsFresh'
<1>1. \A d \in DOMAIN delegations' :
        delegations'[d].status = "pending_approval" => delegations'[d].approvedBy = None
  <2>1. CASE RowsAsBefore
    BY <2>1 DEF RowsAsBefore, Same, Ended, DecisionsFresh
  <2>2. CASE RowOpened
    BY <2>2 DEF RowOpened, Same, Opened, DecisionsFresh
  <2>3. ASSUME NEW w \in Workers, Decide(w)
        PROVE  \A d \in DOMAIN delegations' :
                 delegations'[d].status = "pending_approval" => delegations'[d].approvedBy = None
    <3>1. RowDecided(req[w]) /\ req[w].status \in {"active", "revoked"}
      BY <2>3, DecideDecides DEF DecisionsFresh, Decide
    <3> QED
      BY <3>1 DEF RowDecided, Same, DecisionsFresh
  <2> QED
    BY <2>1, <2>2, <2>3, RowsStep
<1>2. ASSUME NEW v \in Workers, pc'[v] = "decide"
      PROVE  /\ req'[v].id \in DOMAIN delegations'
             /\ delegations'[req'[v].id].status = "pending_approval"
             /\ req'[v].status \in {"active", "revoked"}
  <2>1. ASSUME NEW u \in Users, NEW d \in DOMAIN delegations,
               NEW status \in {"active", "revoked"}, AskDecision(v, u, d, status)
        PROVE  /\ req'[v].id \in DOMAIN delegations'
               /\ delegations'[req'[v].id].status = "pending_approval"
               /\ req'[v].status \in {"active", "revoked"}
    BY <2>1 DEF AskDecision, MayDecide, Begin, TypeOK
  <2>2. ASSUME UNCHANGED <<pc, req>>, RowsAsBefore
        PROVE  /\ req'[v].id \in DOMAIN delegations'
               /\ delegations'[req'[v].id].status = "pending_approval"
               /\ req'[v].status \in {"active", "revoked"}
    BY <1>2, <2>2 DEF DecisionsFresh, RowsAsBefore, Same, Ended
  <2>3. ASSUME NEW w \in Workers, Steps(w),
               ~\E u \in Users, d \in DOMAIN delegations, status \in {"active", "revoked"} :
                   AskDecision(v, u, d, status)
        PROVE  UNCHANGED <<pc, req, delegations>>
    <3>1. w = v
      BY DEF OneWorker
    <3> QED
      BY <1>2, <2>3, <3>1 DEF Steps, AskGrant, AllowCounty, LookFurther, InsertDelegation,
         Decide, WriteAudit, CheckAreas, Crash, Begin, Continue, Finish, TypeOK
  <2>4. ASSUME UNCHANGED delegations
        PROVE  RowsAsBefore
    BY <2>4 DEF RowsAsBefore, Same
  <2>5. ASSUME NEW a \in Runners, ExpireDelegations(a)
        PROVE  UNCHANGED <<pc, req>> /\ RowsAsBefore
    BY <2>5, SweepEnds DEF ExpireDelegations
  <2> QED
    BY <2>1, <2>2, <2>3, <2>4, <2>5 DEF Next, Steps, Tick, vars
<1> QED
  BY <1>1, <1>2 DEF DecisionsFresh

LEMMA EntriesToComeStep ==
  ASSUME OneWorker, TypeOK, TypeOK', DecisionsFresh, EntriesToCome, AuditTruthful, [Next]_vars
  PROVE  EntriesToCome'
<1> SUFFICES ASSUME NEW v \in Workers, pc'[v] = "audit"
             PROVE  /\ Agrees(req[v])'
                    /\ req'[v].status # "pending_approval" =>
                         \A n \in DOMAIN audit' : audit'[n].id = req'[v].id =>
                           audit'[n].status = "pending_approval"
  BY DEF EntriesToCome
<1>1. ASSUME InsertDelegation(v)
      PROVE  Agrees(req[v])' /\ req'[v].status = "pending_approval"
  <2>1. RowOpened /\ delegations'[Len(delegations) + 1].grantor = req[v].ask.by
    BY <1>1, InsertOpens
  <2>2. /\ req'[v].id = Len(delegations) + 1 /\ req'[v].by = req[v].ask.by
        /\ req'[v].status = "pending_approval"
    BY <1>1 DEF InsertDelegation, Continue, TypeOK
  <2> QED
    BY <2>1, <2>2 DEF RowOpened, Agrees
<1>2. ASSUME Decide(v)
      PROVE  /\ Agrees(req[v])'
             /\ \A n \in DOMAIN audit' : audit'[n].id = req'[v].id =>
                  audit'[n].status = "pending_approval"
  <2>1. RowDecided(req[v]) /\ req[v].id \in DOMAIN delegations
    BY <1>2, DecideDecides
  <2>2. req'[v] = req[v] /\ audit' = audit
    BY <1>2 DEF Decide, Continue, TypeOK
  <2>3. delegations[req[v].id].status = "pending_approval"
    BY <1>2 DEF DecisionsFresh, Decide
  <2>4. Agrees(req[v])'
    BY <2>1, <2>2 DEF RowDecided, Agrees
  <2>5. \A n \in DOMAIN audit : audit[n].id = req[v].id => audit[n].status = "pending_approval"
    BY <2>3 DEF AuditTruthful, Agrees
  <2> QED
    BY <2>2, <2>4, <2>5
<1>3. ASSUME pc[v] = "audit", req'[v] = req[v], audit' = audit, RowsAsBefore
      PROVE  /\ Agrees(req[v])'
             /\ req'[v].status # "pending_approval" =>
                  \A n \in DOMAIN audit' : audit'[n].id = req'[v].id =>
                    audit'[n].status = "pending_approval"
  <2>1. PICK e \in Entry : e = req[v]
    BY <1>3 DEF TypeOK
  <2>2. Agrees(e)'
    BY <1>3, <2>1, AgreeingStays DEF EntriesToCome
  <2> QED
    BY <1>3, <2>1, <2>2 DEF EntriesToCome, Agrees
<1>4. ASSUME NEW w \in Workers, Steps(w)
      PROVE  InsertDelegation(v) \/ Decide(v) \/ UNCHANGED <<pc, req, audit, delegations>>
  <2>1. w = v
    BY DEF OneWorker
  <2> QED
    BY <1>4, <2>1 DEF Steps, AskGrant, AskDecision, AllowCounty, LookFurther,
       WriteAudit, CheckAreas, Crash, Begin, Continue, Finish, TypeOK
<1>5. ASSUME NEW a \in Runners, ExpireDelegations(a)
      PROVE  UNCHANGED <<pc, req, audit>> /\ RowsAsBefore
  BY <1>5, SweepEnds DEF ExpireDelegations
<1>6. ASSUME UNCHANGED delegations
      PROVE  RowsAsBefore
  BY <1>6 DEF RowsAsBefore, Same
<1> QED
  BY <1>1, <1>2, <1>3, <1>4, <1>5, <1>6 DEF Next, Steps, Tick, vars

LEMMA AuditTruthfulStep ==
  ASSUME TypeOK, TypeOK', DecisionsFresh, EntriesToCome, AuditTruthful, [Next]_vars
  PROVE  AuditTruthful'
<1>1. \A e \in Entry : Agrees(e) => Agrees(e)'
  BY RowsStep, AgreeingStays
<1>2. \A n \in DOMAIN audit : audit[n] \in Entry
  BY DEF TypeOK
<1>3. CASE UNCHANGED audit
  BY <1>1, <1>2, <1>3 DEF AuditTruthful
<1>4. ASSUME NEW w \in Workers, WriteAudit(w)
      PROVE  AuditTruthful'
  <2>1. req[w] \in Entry /\ Agrees(req[w])
    BY <1>4 DEF WriteAudit, TypeOK, EntriesToCome
  <2>2. PICK e \in Entry : e = req[w] /\ Agrees(e)
    BY <2>1 DEF Agrees
  <2>3. Agrees(e)'
    BY <1>1, <2>2
  <2>4. audit' = Append(audit, e) /\ audit \in Seq(Entry)
    BY <1>4, <2>2 DEF WriteAudit, TypeOK
  <2>5. e.status # "pending_approval" =>
          \A n \in DOMAIN audit : audit[n].id = e.id => audit[n].status = "pending_approval"
    BY <1>4, <2>2 DEF WriteAudit, EntriesToCome
  <2>6. \A n \in DOMAIN audit' :
          \/ n \in DOMAIN audit /\ audit'[n] = audit[n]
          \/ n = Len(audit) + 1 /\ audit'[n] = e
    BY <2>4
  <2>7. \A n \in DOMAIN audit : \E f \in Entry : f = audit[n] /\ Agrees(f)'
    BY <1>1, <1>2 DEF AuditTruthful, Agrees
  <2> QED
    BY <2>3, <2>5, <2>6, <2>7 DEF AuditTruthful, Agrees
<1> QED
  BY <1>3, <1>4 DEF Next, vars, Tick, AskGrant, AskDecision, AllowCounty, LookFurther,
     InsertDelegation, Decide, CheckAreas, Crash, ExpireDelegations

LEMMA DecisionStep ==
  ASSUME OneWorker, DecisionInv, [Next]_vars
  PROVE  DecisionInv'
<1>1. TypeOK'
  BY TypeStep DEF DecisionInv
<1> QED
  BY <1>1, DecisionsFreshStep, EntriesToComeStep, AuditTruthfulStep DEF DecisionInv

LEMMA DecisionInit == Init => DecisionInv
<1> SUFFICES ASSUME Init
             PROVE  DecisionInv
  OBVIOUS
<1>1. TypeOK
  BY TypeInit
<1> QED
  BY <1>1 DEF Init, DecisionInv, DecisionsFresh, EntriesToCome, AuditTruthful

\* With one API process the audit log is true of every delegation for ever: it
\* names who made it and who decided it, and no delegation is decided twice.
THEOREM AuditIsTruthfulAlone ==
  ASSUME OneWorker
  PROVE  Spec => []AuditTruthful
<1>1. Init => DecisionInv
  BY DecisionInit
<1>2. DecisionInv /\ [Next]_vars => DecisionInv'
  BY DecisionStep
<1>3. DecisionInv => AuditTruthful
  BY DEF DecisionInv
<1> QED
  BY <1>1, <1>2, <1>3, PTL DEF Spec

-----------------------------------------------------------------------------
(* Refinement of DecideOnce *)

CasesNow == [d \in DOMAIN delegations |-> Verdict(delegations[d])]

LEMMA OpenCase ==
  ASSUME TypeOK, RowOpened
  PROVE  CasesNow' = Append(CasesNow, Cases!Pending)
<1>1. PICK n \in Nat : n = Len(delegations) /\ DOMAIN delegations = 1..n
  BY DEF TypeOK
<1>2. PICK old : old = CasesNow
  OBVIOUS
<1>3. PICK new : new = CasesNow'
  OBVIOUS
<1>4. DOMAIN delegations' = 1..(n + 1)
  BY <1>1 DEF RowOpened
<1>5. old = [d \in 1..n |-> Verdict(delegations[d])]
  BY <1>1, <1>2 DEF CasesNow
<1>6. new = [d \in 1..(n + 1) |-> Verdict(delegations'[d])]
  BY <1>3, <1>4 DEF CasesNow
<1>7. Verdict(delegations'[n + 1]) = Cases!Pending
  BY <1>1 DEF RowOpened, Opened, Verdict, Cases!Pending
<1>8. \A d \in 1..n : Verdict(delegations'[d]) = Verdict(delegations[d])
  BY <1>1 DEF RowOpened, Same
<1>9. PICK V : \A d \in 1..n : old[d] \in V
  <2> DEFINE V == {old[d] : d \in 1..n}
  <2>1. \A d \in 1..n : old[d] \in V
    OBVIOUS
  <2> QED
    BY <2>1
<1>10. old \in Seq(V) /\ Len(old) = n
  BY <1>1, <1>5, <1>9
<1>11. PICK p : p = Cases!Pending
  OBVIOUS
<1>12. new = Append(old, p)
  <2> DEFINE W == V \cup {p}
             ext == Append(old, p)
  <2>1. old \in Seq(W) /\ p \in W /\ Len(old) = n
    BY <1>1, <1>5, <1>9, <1>10
  <2> HIDE DEF W
  <2>2. /\ ext \in Seq(W) /\ Len(ext) = n + 1
        /\ \A d \in 1..n : ext[d] = old[d]
        /\ ext[n + 1] = p
    BY <2>1
  <2> HIDE DEF ext
  <2>3. ext = [d \in 1..(n + 1) |-> ext[d]]
    BY <2>2, <1>1
  <2>4. \A d \in 1..(n + 1) : ext[d] = IF d = n + 1 THEN p ELSE old[d]
    BY <2>2, <1>1
  <2>5. ext = [d \in 1..(n + 1) |-> IF d = n + 1 THEN p ELSE old[d]]
    BY <2>3, <2>4
  <2>6. \A d \in 1..(n + 1) : new[d] = IF d = n + 1 THEN p ELSE old[d]
    BY <1>1, <1>5, <1>6, <1>7, <1>8, <1>11
  <2>7. new = ext
    BY <1>6, <2>5, <2>6
  <2> QED
    BY <2>7 DEF ext
<1> QED
  BY <1>2, <1>3, <1>11, <1>12

LEMMA DecideCase ==
  ASSUME TypeOK, DecisionsFresh, NEW w \in Workers, Decide(w)
  PROVE  \E c \in DOMAIN CasesNow :
           /\ CasesNow[c] = Cases!Pending
           /\ \E v \in Cases!Verdicts : CasesNow' = [CasesNow EXCEPT ![c] = v]
<1>1. PICK c \in DOMAIN delegations : c = req[w].id
  BY DecideDecides
<1>2. RowDecided(req[w])
  BY DecideDecides
<1>3. /\ delegations[c].status = "pending_approval" /\ delegations[c].approvedBy = None
      /\ req[w].status \in {"active", "revoked"}
  BY <1>1 DEF DecisionsFresh, Decide
<1>4. req[w].by \in Admins /\ req[w].by # None
  BY DelegationAssumption DEF Decide, TypeOK, Entry
<1>5. Verdict(delegations[c]) = Cases!Pending
  BY <1>3 DEF Verdict, Cases!Pending
<1>6. PICK v : v = Verdict(delegations'[c])
  OBVIOUS
<1>7. v.judge = {req[w].by} /\ v.verdict \in {"yes", "no"} /\ v = [verdict |-> v.verdict, judge |-> v.judge]
  BY <1>1, <1>2, <1>3, <1>4, <1>6 DEF RowDecided, Verdict
<1>8. v \in Cases!Verdicts
  BY <1>4, <1>7 DEF Cases!Verdicts
<1>9. \A d \in DOMAIN delegations \ {c} : Verdict(delegations'[d]) = Verdict(delegations[d])
  BY <1>1, <1>2 DEF RowDecided, Same
<1>10. DOMAIN delegations' = DOMAIN delegations
  BY <1>2 DEF RowDecided
<1>11. CasesNow' = [CasesNow EXCEPT ![c] = v]
  BY <1>6, <1>9, <1>10 DEF CasesNow
<1>12. c \in DOMAIN CasesNow /\ CasesNow[c] = Cases!Pending
  BY <1>5 DEF CasesNow
<1> QED
  BY <1>8, <1>11, <1>12

LEMMA CasesAsBefore ==
  ASSUME RowsAsBefore
  PROVE  CasesNow' = CasesNow
<1>1. \A d \in DOMAIN delegations : Verdict(delegations'[d]) = Verdict(delegations[d])
  BY DEF RowsAsBefore, Same, Ended, Verdict
<1> QED
  BY <1>1 DEF RowsAsBefore, CasesNow

\* With one API process the workflow of delegations implements DecideOnce: a
\* delegation gets one verdict from one administrator and keeps it, also when it
\* runs out.
THEOREM DelegationsAreDecidedOnceAlone ==
  ASSUME OneWorker
  PROVE  Spec => DecidedOnce
<1>1. Init => Cases!Init
  BY DEF Init, Cases!Init
<1>2. ASSUME DecisionInv, [Next]_vars
      PROVE  Cases!Next \/ UNCHANGED CasesNow
  <2>1. CASE RowsAsBefore
    BY <2>1, CasesAsBefore
  <2>2. CASE RowOpened
    BY <1>2, <2>2, OpenCase DEF DecisionInv, Cases!Next, Cases!Open, CasesNow
  <2>3. ASSUME NEW w \in Workers, Decide(w)
        PROVE  Cases!Next
    BY <1>2, <2>3, DecideCase DEF DecisionInv, Cases!Next, Cases!Decide, CasesNow
  <2> QED
    BY <1>2, <2>1, <2>2, <2>3, RowsStep DEF DecisionInv
<1>3. DecisionInv /\ [Next]_vars => [Cases!Next]_CasesNow
  BY <1>2
<1>4. Init => DecisionInv
  BY DecisionInit
<1>5. DecisionInv /\ [Next]_vars => DecisionInv'
  BY DecisionStep
<1> QED
  BY <1>1, <1>3, <1>4, <1>5, PTL DEF Spec, DecidedOnce, Cases!Spec, CasesNow
=============================================================================
