------------------------------ MODULE Profiles ------------------------------
(***************************************************************************)
(* Entity profiles, the flags of likely duplicates and merges:             *)
(* EntityService create, update and merge, and DuplicateService.  Left     *)
(* out: the type and the extra fields of a profile, and requests that are  *)
(* refused before they write anything.  A name stands for display_name     *)
(* together with address.                                                  *)
(***************************************************************************)
EXTENDS Requests, FiniteSets, Functions

CONSTANTS
  Names, Digits,   \* the last four digits of an ID or a license number
  Entries,         \* what is entered as a new profile
  Changes,         \* what an update changes, None what it leaves alone
  Picks            \* what a resolution_map takes from the source

VARIABLES
  profiles,   \* table entity_profiles; the index is the id
  flags,      \* table duplicate_flags
  merges      \* table profile_merge_history, with its diff_json

Profile == [name: Names, id: Digits \cup {None}, license: Digits \cup {None},
            active: BOOLEAN]
Entry == [name: Names, id: Digits \cup {None}, license: Digits \cup {None}]
Change == [name: Names \cup {None}, active: BOOLEAN \cup {None}]
Flag == [left: Nat, right: Nat, open: BOOLEAN]
Merge == [source: Nat, target: Nat, picks: SUBSET {"name", "id", "license"},
          from: Profile, onto: Profile]

ASSUME ProfilesAssumption ==
  /\ Entries \subseteq Entry /\ Changes \subseteq Change
  /\ Picks \subseteq SUBSET {"name", "id", "license"}

registry == <<profiles, flags, merges>>

ProfilesInit == profiles = <<>> /\ flags = <<>> /\ merges = <<>>

-----------------------------------------------------------------------------
(* DuplicateService *)

Same(p, q) ==
  /\ p.name = q.name
  /\ \/ p.id # None /\ p.id = q.id
     \/ p.license # None /\ p.license = q.license

\* findMatches: the active profiles with the data p, without x itself.
Matches(p, x) == {y \in DOMAIN profiles \ {x} : profiles[y].active /\ Same(p, profiles[y])}

Between(f, x, y) == f.left = x /\ f.right = y

\* Variant: only the direction in which x would be flagged.
FlaggedOneWay(x, y) == \E f \in Range(flags) : Between(f, x, y) /\ f.open

\* What the query of flagDuplicates finds: it joins its conditions to
\* (this direction AND open) OR the other direction.
Flagged(x, y) == \E f \in Range(flags) : (Between(f, x, y) /\ f.open) \/ Between(f, y, x)

\* The tail of create and update: look for profiles like p.
Recheck(x, p, audited) ==
  [profile |-> x, like |-> p, audited |-> audited, found |-> {}, todo |-> {},
   match |-> 0]

FindMatches(w) ==
  LET found == Matches(req[w].like, req[w].profile) IN
  /\ pc[w] = "match"
  /\ Continue(w, "flag", [req[w] EXCEPT !.found = found, !.todo = found])
  /\ UNCHANGED registry

NextMatch(w, y) ==
  /\ pc[w] = "flag" /\ y \in req[w].todo
  /\ IF Flagged(req[w].profile, y)
       THEN Continue(w, "flag", [req[w] EXCEPT !.todo = @ \ {y}])
       ELSE Continue(w, "insert", [req[w] EXCEPT !.todo = @ \ {y}, !.match = y])
  /\ UNCHANGED registry

InsertFlag(w) ==
  /\ pc[w] = "insert"
  /\ flags' = Append(flags, [left |-> req[w].profile, right |-> req[w].match, open |-> TRUE])
  /\ Continue(w, "flag", req[w])
  /\ UNCHANGED <<profiles, merges>>

\* create writes its audit row; update writes none.
EndFlags(w) ==
  /\ pc[w] = "flag" /\ req[w].todo = {}
  /\ IF req[w].audited
       THEN Continue(w, "audit", [event |-> "entity_created", id |-> req[w].profile])
       ELSE Finish(w)
  /\ UNCHANGED registry

-----------------------------------------------------------------------------
(* EntityService *)

CreateProfile(w, e) ==
  /\ profiles' = Append(profiles, [name |-> e.name, id |-> e.id, license |-> e.license,
                                   active |-> TRUE])
  /\ Begin(w, "match", Recheck(Len(profiles) + 1, e, TRUE))
  /\ UNCHANGED <<flags, merges>>

AskUpdate(w, x, c) ==
  /\ Begin(w, "update", [profile |-> x, row |-> profiles[x], change |-> c])
  /\ UNCHANGED registry

Or(new, old) == IF new = None THEN old ELSE new

Changed(p, c) == [p EXCEPT !.name = Or(c.name, @), !.active = Or(c.active, @)]

UpdateRow(w) ==
  profiles' = [profiles EXCEPT ![req[w].profile] = Changed(@, req[w].change)]

\* Variant: the matches of what the profile was called before.
UpdateProfileOldName(w) ==
  /\ pc[w] = "update"
  /\ UpdateRow(w)
  /\ Continue(w, "match", Recheck(req[w].profile, req[w].row, FALSE))
  /\ UNCHANGED <<flags, merges>>

\* The new name is looked for with the digits of the row as it was read.
UpdateProfile(w) ==
  /\ pc[w] = "update"
  /\ UpdateRow(w)
  /\ Continue(w, "match", Recheck(req[w].profile, Changed(req[w].row, req[w].change), FALSE))
  /\ UNCHANGED <<flags, merges>>

\* merge reads both rows before its transaction; s = t is not refused, nor is
\* an inactive profile.
AskMerge(w, s, t, picks) ==
  /\ Begin(w, "merge", [source |-> s, target |-> t, picks |-> picks,
                        from |-> profiles[s], onto |-> profiles[t]])
  /\ UNCHANGED registry

Resolved(p, m) == [f \in DOMAIN p |-> IF f \in m.picks THEN m.from[f] ELSE p[f]]

CloseBetween(x, y) ==
  flags' = [k \in DOMAIN flags |->
              IF Between(flags[k], x, y) \/ Between(flags[k], y, x)
                THEN [flags[k] EXCEPT !.open = FALSE] ELSE flags[k]]

AfterMerge(m) ==
  LET resolved == [profiles EXCEPT ![m.target] = Resolved(@, m)]
  IN  [resolved EXCEPT ![m.source].active = FALSE]

\* Variant: the picture of the target is taken after it was changed.
CommitMergePictureLate(w) ==
  /\ pc[w] = "merge"
  /\ profiles' = AfterMerge(req[w])
  /\ merges' = Append(merges, [req[w] EXCEPT !.onto = Resolved(@, req[w])])
  /\ CloseBetween(req[w].source, req[w].target)
  /\ Finish(w)

\* One transaction; merge writes no audit row.
CommitMerge(w) ==
  /\ pc[w] = "merge"
  /\ profiles' = AfterMerge(req[w])
  /\ merges' = Append(merges, req[w])
  /\ CloseBetween(req[w].source, req[w].target)
  /\ Finish(w)

ProfilesStep(w) ==
  \/ \E e \in Entries : CreateProfile(w, e)
  \/ \E x \in DOMAIN profiles, c \in Changes : AskUpdate(w, x, c)
  \/ UpdateProfile(w)
  \/ FindMatches(w)
  \/ \E y \in DOMAIN profiles : NextMatch(w, y)
  \/ InsertFlag(w)
  \/ EndFlags(w)
  \/ \E s, t \in DOMAIN profiles, picks \in Picks : AskMerge(w, s, t, picks)
  \/ CommitMerge(w)

-----------------------------------------------------------------------------
(* Properties                                                              *)

Pair(f) == {f.left, f.right}

\* Two profiles never have two open flags, whichever of them was flagged: not
\* both directions, not one more after a merge, a rename or a reactivation.
OneOpenFlag ==
  \A j, k \in DOMAIN flags :
    flags[j].open /\ flags[k].open /\ Pair(flags[j]) = Pair(flags[k]) => j = k

\* create or update of x has come to its end.
Rechecked(w, x) == pc[w] = "flag" /\ req[w].todo = {} /\ req[w].profile = x

Warned(x, y) == \E f \in Range(flags) : f.open /\ Pair(f) = {x, y}

\* What the code does: there is an open flag for every profile that matches the
\* row as it now is, but where the other one was once flagged with x on its right.
WarnedUnlessMerged ==
  \A w \in Workers, x \in DOMAIN profiles :
    Rechecked(w, x) =>
      \A y \in Matches(profiles[x], x) :
        Warned(x, y) \/ \E f \in Range(flags) : Between(f, y, x) /\ ~f.open

MergedInto(n, x) == merges[n].target = x

\* The last merge into x of the first n.
LastInto(n, x) ==
  {m \in DOMAIN merges : m <= n /\ MergedInto(m, x) /\ \A k \in m + 1 .. n : ~MergedInto(k, x)}

\* The digits of a profile are changed by merges only, so profile_merge_history
\* explains them: what one merge left on a profile is what the next one read of
\* it, as its source or as its target, and what the profile has today.
MergesTraceable ==
  \A f \in {"id", "license"} :
    /\ \A n \in DOMAIN merges :
         /\ \A m \in LastInto(n - 1, merges[n].target) :
              Resolved(merges[m].onto, merges[m])[f] = merges[n].onto[f]
         /\ \A m \in LastInto(n - 1, merges[n].source) :
              Resolved(merges[m].onto, merges[m])[f] = merges[n].from[f]
    /\ \A x \in DOMAIN profiles : \A m \in LastInto(Len(merges), x) :
         Resolved(merges[m].onto, merges[m])[f] = profiles[x][f]
=============================================================================
