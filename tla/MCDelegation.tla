---------------------------- MODULE MCDelegation ----------------------------
(* Values for model checking Delegation: a county with two villages in a   *)
(* township, two administrators of the county and one of a village.        *)
EXTENDS Delegation, TLC

CONSTANTS county, town, home, away, ann, bob, cyd

MCParent == (town :> county) @@ (home :> town) @@ (away :> town) @@ (county :> None)

MCOwn == [u \in Users |-> IF u = cyd THEN [level |-> "village", area |-> home]
                                     ELSE [level |-> "county", area |-> county]]

MCLookups == {[user |-> cyd, area |-> away]}

MCProposals ==
  {[by |-> ann, to |-> cyd, scope |-> [level |-> "township", area |-> town]],
   [by |-> cyd, to |-> bob, scope |-> [level |-> "village", area |-> away]],
   [by |-> bob, to |-> cyd, scope |-> [level |-> "county", area |-> county]]}
=============================================================================
