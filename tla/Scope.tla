------------------------------- MODULE Scope -------------------------------
(***************************************************************************)
(* ScopeService: which geo areas a user reaches with the scope of its own   *)
(* account and the scopes that are delegated to it.  A scope is a level and *)
(* the area it is anchored at; nothing in the code ties the level to the    *)
(* place of that area in the tree.                                         *)
(***************************************************************************)
CONSTANTS
  Areas,    \* table geo_areas
  Parent    \* its parent_id: an area, or anything else at the root

ScopeLevels == {"village", "township", "county"}
Scopes == [level: ScopeLevels, area: Areas]

Children(a) == {b \in Areas : Parent[b] = a}

VisibleAreas(s) ==
  CASE s.level = "county"   -> Areas
    [] s.level = "township" -> {s.area} \cup Children(s.area)
    [] s.level = "village"  -> {s.area}

CountyReach(own, delegated) == \E s \in {own} \cup delegated : s.level = "county"

EffectiveAreas(own, delegated) == UNION {VisibleAreas(s) : s \in {own} \cup delegated}
=============================================================================
