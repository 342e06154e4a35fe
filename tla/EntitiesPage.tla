---------------------------- MODULE EntitiesPage ----------------------------
(***************************************************************************)
(* public/static/js/entities.js: the sections entities, my-verification    *)
(* and verifications.  Two profiles are flagged as duplicates of one       *)
(* another until they are merged.                                          *)
(***************************************************************************)
EXTENDS Page, SequencesExt

CONSTANTS Entities, Types   \* two profiles; the types of a profile

VARIABLES
  form,     \* the form of a new profile: its type, the fields it shows, and
            \* whether the type was changed while fields were on their way
  defs,     \* extraFieldDefs
  dialogs,  \* the open layers, in the order of the document
  flagged   \* server: the duplicate flag of the two profiles is open

entityVars == <<form, defs, dialogs, flagged>>

EntitiesInit ==
  /\ form \in [type : Types, fields : {None}, crossed : {FALSE}]
  /\ defs = [t \in Types |-> None]
  /\ dialogs = <<>>
  /\ flagged = TRUE

Other(e) == CHOOSE o \in Entities : o # e

-----------------------------------------------------------------------------
(* The list, a profile, a new profile *)

LoadEntities(done) == AskFor("entities", "entities", done)
ShowEntities(n) == Show(n, "entities") /\ UNCHANGED entityVars

\* viewEntity: the profile opens when it comes, on top of what is open by then.
ViewEntity(e) ==
  /\ area = "merging" /\ Open("entities") /\ dialogs = <<>>
  /\ Ask(Fetch("view", "entities", e))
  /\ UNCHANGED entityVars
ShowEntity(n) ==
  /\ Tell(n, "view")
  /\ dialogs' = IF Ok(n)
                  THEN Append(dialogs, [kind |-> "view", entity |-> calls[n].arg, merge |-> Data(n)])
                  ELSE dialogs
  /\ UNCHANGED <<form, defs, flagged>>

\* loadExtraFields
SelectType(t) ==
  /\ area = "profiles" /\ form.type # t
  /\ Click
  /\ form' = [type |-> t, fields |-> defs[t], crossed |-> \E n \in DOMAIN calls : calls[n].kind = "fields"]
  /\ Request({}, IF defs[t] = None THEN <<Fetch("fields", "entities", t)>> ELSE <<>>)
  /\ UNCHANGED <<pageVars, defs, dialogs, flagged>>

\* Variant: kept for the type that is selected when the reply comes.
ShowFieldsHere(n) ==
  /\ Tell(n, "fields")
  /\ defs' = IF Ok(n) THEN [defs EXCEPT ![form.type] = Data(n)] ELSE defs
  /\ form' = [form EXCEPT !.fields = IF Ok(n) THEN Data(n) ELSE None]
  /\ UNCHANGED <<dialogs, flagged>>

\* Its callback shows the fields whatever type is selected by then.
ShowFields(n) ==
  /\ Tell(n, "fields")
  /\ defs' = IF Ok(n) THEN [defs EXCEPT ![calls[n].arg] = Data(n)] ELSE defs
  /\ form' = [form EXCEPT !.fields = IF Ok(n) THEN Data(n) ELSE None]
  /\ UNCHANGED <<dialogs, flagged>>

\* submit(createEntity): the list is not loaded again.
CreateEntity ==
  /\ area = "profiles"
  /\ Submit("createEntity", "entities", [type |-> form.type, fields |-> form.fields])
  /\ UNCHANGED entityVars
EntityCreated(n) == Announce(n, "createEntity") /\ UNCHANGED entityVars

-----------------------------------------------------------------------------
(* The guided merge *)

IsMerge(d) == d.kind = "merge"
MergeDialogs == {i \in DOMAIN dialogs : IsMerge(dialogs[i])}

\* openMergeWorkspace, from the profile in front; the link can be clicked again.
OpenMerge ==
  /\ dialogs # <<>> /\ Last(dialogs).kind = "view" /\ Last(dialogs).merge
  /\ Ask(Fetch("flags", "entities", Last(dialogs).entity))
  /\ UNCHANGED entityVars

\* The flags have come: both profiles are loaded (as one call).
LoadPair(n) ==
  /\ Finish(n, "flags")
  /\ Request({n}, IF Ok(n) /\ Data(n) THEN <<Fetch("pair", "entities", calls[n].arg)>> ELSE <<>>)
  /\ UNCHANGED <<list, known, entityVars>>

\* showMergeDialog: the ids in it are looked up in the whole document, so that
\* the buttons of the first dialog get the listeners of every later one; radio
\* buttons of the same name take the choice from each other.
ShowMerge(n) ==
  LET source == calls[n].arg
      listener == [source |-> source, target |-> Other(source), dialog |-> n]
      new == [kind |-> "merge", number |-> n, source |-> source, target |-> Other(source),
              chosen |-> TRUE, off |-> FALSE, done |-> FALSE, alone |-> MergeDialogs = {}, hears |-> <<>>]
      open == [i \in DOMAIN dialogs |->
                 IF IsMerge(dialogs[i])
                   THEN [dialogs[i] EXCEPT !.chosen = FALSE, !.alone = FALSE] ELSE dialogs[i]]
      all == Append(open, new)
      first == SelectInSeq(all, IsMerge)
  IN
  /\ Tell(n, "pair")
  /\ dialogs' = IF Ok(n)
                  THEN [all EXCEPT ![first].hears = Append(@, listener)]
                  ELSE dialogs
  /\ UNCHANGED <<form, defs, flagged>>

Pair(listener) == [source |-> listener.source, target |-> listener.target]
MergeCall(d, i, pair) ==
  Fetch("merge", "entities",
        [pair |-> pair, shown |-> Pair(d), alone |-> d.alone,
         whole |-> \E j \in DOMAIN dialogs : IsMerge(dialogs[j]) /\ dialogs[j].chosen,
         dialog |-> d.hears[i].dialog, button |-> d.number])

\* Variant: source and target change places.
ExecuteMergeSwapped ==
  /\ dialogs # <<>> /\ IsMerge(Last(dialogs)) /\ ~Last(dialogs).off
  /\ Click
  /\ LET d == Last(dialogs)
         swapped(l) == [source |-> l.target, target |-> l.source]
     IN /\ Request({}, [i \in DOMAIN d.hears |-> MergeCall(d, i, swapped(d.hears[i]))])
        /\ dialogs' = [dialogs EXCEPT ![Len(dialogs)].off = d.hears # <<>>]
  /\ UNCHANGED <<pageVars, form, defs, flagged>>

\* A click on the merge button in front: executeMerge of each of its listeners.
\* The choices are those of the whole document.
ExecuteMerge ==
  /\ dialogs # <<>> /\ IsMerge(Last(dialogs)) /\ ~Last(dialogs).off
  /\ Click
  /\ LET d == Last(dialogs) IN
     /\ Request({}, [i \in DOMAIN d.hears |-> MergeCall(d, i, Pair(d.hears[i]))])
     /\ dialogs' = [dialogs EXCEPT ![Len(dialogs)].off = d.hears # <<>>]
  /\ UNCHANGED <<pageVars, form, defs, flagged>>

\* Its callback fails if no merge dialog is left: then nothing is loaded.
Merged(n) ==
  /\ calls[n].kind = "merge" /\ Answered(n)
  /\ dialogs' = [i \in DOMAIN dialogs |->
                   IF IsMerge(dialogs[i])
                     THEN [dialogs[i] EXCEPT !.off = @ /\ dialogs[i].number # calls[n].arg.button,
                                             !.done = @ \/ (Ok(n) /\ dialogs[i].number = calls[n].arg.dialog)]
                     ELSE dialogs[i]]
  /\ IF MergeDialogs = {} THEN Tell(n, "merge") ELSE Reload(n, "merge", "entities", "entities")
  /\ UNCHANGED <<form, defs, flagged>>

\* The corner of a dialog or its cancel button, or the two seconds after a merge.
CloseDialog(i) ==
  /\ i # Len(dialogs) => IsMerge(dialogs[i]) /\ dialogs[i].done
  /\ dialogs' = RemoveAt(dialogs, i)
  /\ UNCHANGED <<browser, pageVars, form, defs, flagged>>

-----------------------------------------------------------------------------
(* Verification *)

LoadMyVerification(done) == AskFor("mine", "mine", done)
ShowMyVerification(n) == Show(n, "mine") /\ UNCHANGED entityVars

\* submit(submitVerification), without or with a scan.
SubmitVerification(scan) ==
  /\ section = "mine"
  /\ Submit("submitVerification", "mine", scan)
  /\ UNCHANGED entityVars

\* The scan is sent by a fetch of its own, and no one catches its failure.
Uncaught(n) == calls[n].arg /\ calls[n].reply.status = 0

VerificationSubmitted(n) ==
  /\ calls[n].kind = "submitVerification" /\ Answered(n) /\ ~Uncaught(n)
  /\ Reload(n, "submitVerification", "mine", "mine")
  /\ UNCHANGED entityVars
ScanFailed(n) ==
  /\ calls[n].kind = "submitVerification" /\ Answered(n) /\ Uncaught(n)
  /\ Request({n}, <<>>)
  /\ UNCHANGED <<clicks, faults, pageVars, entityVars>>

LoadVerifications(done) == AskFor("verifications", "verifications", done)
ShowVerifications(n) == Show(n, "verifications") /\ UNCHANGED entityVars

\* approveVerif and rejectVerif, confirmed in a dialog of their own.
ApproveVerif ==
  /\ Open("verifications")
  /\ Ask(Fetch("approveVerif", "verifications", None))
  /\ UNCHANGED entityVars
VerifApproved(n) ==
  Reload(n, "approveVerif", "verifications", "verifications") /\ UNCHANGED entityVars
RejectVerif ==
  /\ Open("verifications")
  /\ Ask(Fetch("rejectVerif", "verifications", None))
  /\ UNCHANGED entityVars
VerifRejected(n) ==
  Reload(n, "rejectVerif", "verifications", "verifications") /\ UNCHANGED entityVars

-----------------------------------------------------------------------------

ServeEntities(n) ==
  \/ /\ calls[n].kind \in {"createEntity", "submitVerification", "approveVerif", "rejectVerif"}
     /\ ServeWrite(n) /\ UNCHANGED entityVars
  \/ calls[n].kind = "merge" /\ ServeWrite(n) /\ flagged' = FALSE /\ UNCHANGED <<form, defs, dialogs>>
  \/ calls[n].kind \in {"view", "flags"} /\ ServeRead(n, flagged) /\ UNCHANGED entityVars
  \/ calls[n].kind = "fields" /\ ServeRead(n, calls[n].arg) /\ UNCHANGED entityVars
  \/ calls[n].kind = "pair" /\ ServeRead(n, None) /\ UNCHANGED entityVars

EntitiesStep ==
  \/ \E e \in Entities : ViewEntity(e)
  \/ \E t \in Types : SelectType(t)
  \/ CreateEntity \/ OpenMerge \/ ExecuteMerge \/ \E i \in DOMAIN dialogs : CloseDialog(i)
  \/ \E scan \in BOOLEAN : SubmitVerification(scan)
  \/ ApproveVerif \/ RejectVerif

EntitiesCallback(n) ==
  \/ ShowEntities(n) \/ ShowEntity(n) \/ ShowFields(n) \/ EntityCreated(n)
  \/ LoadPair(n) \/ ShowMerge(n) \/ Merged(n)
  \/ ShowMyVerification(n) \/ VerificationSubmitted(n) \/ ScanFailed(n)
  \/ ShowVerifications(n) \/ VerifApproved(n) \/ VerifRejected(n)

-----------------------------------------------------------------------------
(* Properties                                                              *)

Merges == {calls[n].arg : n \in {n \in DOMAIN calls : calls[n].kind = "merge"}}

\* It is, with a choice for every field, unless the dialog was open together
\* with another one.
MergesAsShown == \A m \in Merges : m.alone => m.pair = m.shown /\ m.whole

\* The definitions are kept with the type they belong to, and the form shows
\* those of its type unless the type was changed while others were on their way.
FieldsFit ==
  /\ \A t \in Types : defs[t] \in {None, t}
  /\ ~form.crossed => form.fields \in {None, form.type}
=============================================================================
