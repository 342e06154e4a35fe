--------------------------- MODULE Portal_proofs ---------------------------
(***************************************************************************)
(* Theorems about Portal, for any number of clicks, faults, conversations, *)
(* texts, types and invoices.  One invariant says what the calls carry     *)
(* (CallsSound); on top of it stand those of the buttons (ButtonsSound),   *)
(* of the lists (ListsSound), of the form of a profile (FormSound), of the *)
(* merge dialogs (DialogsSound) and of the receipts (ReceiptsSound).       *)
(***************************************************************************)
EXTENDS Portal, FiniteSetTheorems, SequenceTheorems,
        WellFoundedInduction, TLAPS

\* A function of the fields f, and a sequence.
HasShape(r, f) == r = [x \in f |-> r[x]]
Sequential(s) == Len(s) \in Nat /\ s = [i \in 1 .. Len(s) |-> s[i]]

CallFields == {"kind", "of", "arg", "reply"}

\* The calls whose callback enables a button.
Submits ==
  {"createEntity", "submitVerification", "saveRiskRule", "createContract",
   "postPayment", "runJobs", "createDelegation"}

\* The loads of lists.
Loads == (UNION {Menu[a] : a \in DOMAIN Menu}) \cup {"messages"}

\* The table that a call changes, and the list that shows it.
Home ==
  [createEntity |-> "entities", createContract |-> "contracts", postPayment |-> "invoices",
   submitVerification |-> "mine", approveVerif |-> "verifications",
   rejectVerif |-> "verifications", merge |-> "entities", newConv |-> "conversations",
   saveRiskRule |-> "rules", deleteRiskRule |-> "rules",
   approveDelegation |-> "delegations", createDelegation |-> "delegations"]

Fine(c) == c.reply # None /\ c.reply.status = 200

\* What a call carries was fit to be sent, and a reply is about what was asked.
CallSound(c) ==
  /\ HasShape(c, CallFields)
  /\ c.kind \in DOMAIN Home => c.of = Home[c.kind]
  /\ c.kind = "fields" => c.arg \in Types /\ (Fine(c) => c.reply.data = c.arg)
  /\ c.kind = "preflight" /\ Fine(c) /\ c.arg.text \in Forbidden => c.reply.data = "block"
  /\ c.kind = "read" /\ Fine(c) /\ c.arg.text \in Forbidden => c.reply.data = "failed"
  /\ c.kind = "send" /\ c.arg.text \in Forbidden => c.arg.verdict = "failed"
  /\ c.kind = "merge" /\ c.arg.alone => c.arg.pair = c.arg.shown /\ c.arg.whole

CallsSound ==
  /\ sent \in Nat
  /\ calls = [n \in DOMAIN calls |-> calls[n]]
  /\ \A n \in DOMAIN calls : n \in 1 .. sent /\ CallSound(calls[n])

-----------------------------------------------------------------------------
(* The invariants of the sections *)

FaultsSound ==
  /\ faults \in Nat
  /\ \A n \in DOMAIN calls : Answered(n) /\ calls[n].reply.status = 0 => faults > 0

\* A button has at most one call, and is disabled as long as it has one.
BusySound ==
  /\ \A m, n \in DOMAIN calls : calls[n].kind \in Submits /\ calls[m].kind = calls[n].kind => m = n
  /\ \A n \in DOMAIN calls : calls[n].kind \in Submits => calls[n].kind \in busy
  /\ busy \subseteq Submits
  /\ \A k \in busy : \/ \E n \in DOMAIN calls : calls[n].kind = k
                     \/ k = "submitVerification" /\ faults > 0

\* Each time that k was done could not be told, or is about to be.
TrySound(k) ==
  /\ tries[k].done \in Nat /\ tries[k].untold \in Nat
  /\ \/ tries[k].done <= tries[k].untold
     \/ /\ tries[k].done = tries[k].untold + 1
        /\ \E n \in DOMAIN calls : calls[n].kind = k /\ Ok(n)

TriesSound == DOMAIN tries \subseteq Submits /\ \A k \in DOMAIN tries : TrySound(k)

ButtonsSound == FaultsSound /\ BusySound /\ TriesSound

\* Of what a list should have.
Subject(l) == IF l = "messages" THEN conv ELSE l

\* Rows of a table, with all that was reported; those of list l may miss what was
\* announced since.
UpToDate(l, rows) ==
  /\ rows.of \in Tables /\ rows.version \in Nat
  /\ rows.version >= known[rows.of] \/ (l \in Announced /\ list[l].behind)

TablesSound ==
  /\ area \in DOMAIN Menu /\ section \in Menu[area]
  /\ made \in [Tables -> Nat] /\ known \in [Tables -> Nat]
  /\ \A t \in Tables : known[t] <= made[t]
  /\ \A n \in DOMAIN calls : calls[n].kind \in Submits => calls[n].of \in Tables
  /\ \A n \in DOMAIN calls :
       (calls[n].kind \in DOMAIN Home \/ calls[n].kind \in {"send", "recall"})
         /\ calls[n].of \in Tables /\ Ok(n)
       => Data(n) \in Nat /\ Data(n) <= made[calls[n].of]

\* The messages that are shown or on their way are of a conversation, and one
\* is open.
ConvSound ==
  /\ conv \in Convs \cup {None}
  /\ \A n \in DOMAIN calls :
       calls[n].kind \in {"messages", "preflight", "read", "send", "recall"} =>
         /\ area = "messaging" /\ conv \in Convs
         /\ calls[n].kind \in {"messages", "send", "recall"} => calls[n].of \in Convs
         /\ calls[n].kind = "messages" /\ Ok(n) => Data(n).of \in Convs
  /\ area = "messaging" /\ list["messages"].rows # None
       => conv \in Convs /\ list["messages"].rows.of \in Convs

RowsSound ==
  /\ list = [l \in Lists |-> list[l]]
  /\ \A l \in Lists :
       /\ HasShape(list[l], {"asked", "shown", "rows", "behind"})
       /\ list[l].asked \in 0 .. sent /\ list[l].shown \in 0 .. sent
       /\ list[l].rows # None /\ list[l].shown = list[l].asked
          => list[l].rows.of = Subject(l) /\ UpToDate(l, list[l].rows)
  /\ \A n \in DOMAIN calls : calls[n].kind \in Lists =>
       /\ calls[n].of \in Tables
       /\ n = list[calls[n].kind].asked =>
            /\ calls[n].of = Subject(calls[n].kind)
            /\ Ok(n) => Data(n).of = calls[n].of /\ UpToDate(calls[n].kind, Data(n))

ListsSound == TablesSound /\ ConvSound /\ RowsSound

FormSound ==
  /\ HasShape(form, {"type", "fields", "crossed"}) /\ form.type \in Types
  /\ defs = [t \in Types |-> defs[t]] /\ FieldsFit
  /\ ~form.crossed =>
       \A n \in DOMAIN calls : calls[n].kind = "fields" => calls[n].arg = form.type

MergeFields == {"kind", "number", "source", "target", "chosen", "off", "done", "alone", "hears"}

\* A merge dialog that was never open with another one hears only itself.
DialogsSound ==
  /\ Sequential(dialogs)
  /\ \A i \in MergeDialogs : LET d == dialogs[i] IN
       /\ HasShape(d, MergeFields) /\ Sequential(d.hears)
       /\ d.alone =>
            /\ MergeDialogs = {i} /\ d.chosen
            /\ \A h \in DOMAIN d.hears : Pair(d.hears[h]) = Pair(d)

ReceiptsSound ==
  /\ Sequential(receipts)
  /\ \A j \in DOMAIN receipts :
       /\ HasShape(receipts[j], {"invoice", "alone"})
       /\ receipts[j].alone => Len(receipts) = 1
  /\ PrintedIsShown

PortalInv ==
  CallsSound /\ ButtonsSound /\ ListsSound /\ FormSound /\ DialogsSound /\ ReceiptsSound

-----------------------------------------------------------------------------
(* Sections *)

LEMMA MenuFacts ==
  /\ \A a \in DOMAIN Menu : "messages" \notin Menu[a] /\ Menu[a] \subseteq Loads
  /\ \A a \in DOMAIN Menu : "conversations" \in Menu[a] => a = "messaging"
  /\ "messages" \in Loads /\ "conversations" \in Menu["messaging"]
<1>1. DOMAIN Menu = {"profiles", "merging", "verification", "messaging", "rules", "finance",
                     "delegations", "system"}
  BY DEF Menu
<1>2. \A a \in DOMAIN Menu : "messages" \notin Menu[a]
  BY DEF Menu
<1>3. \A a \in DOMAIN Menu : "conversations" \in Menu[a] => a = "messaging"
  BY DEF Menu
<1>4. "conversations" \in Menu["messaging"]
  BY DEF Menu
<1> QED
  BY <1>2, <1>3, <1>4 DEF Loads

LEMMA ListFacts ==
  ASSUME area \in DOMAIN Menu
  PROVE  /\ Lists \subseteq Loads
         /\ \A l \in Lists : l # "messages" => l \in Menu[area] /\ l \in Tables /\ l \notin Convs
         /\ "messages" \in Lists <=> area = "messaging"
         /\ area = "messaging" => Convs \subseteq Tables
  BY MenuFacts, PageAssumption DEF Lists, Tables

LEMMA LoadsListed ==
  Loads = {"entities", "mine", "verifications", "conversations", "messages", "rules", "audit",
           "contracts", "invoices", "delegations", "jobs", "config", "health"}
<1>1. DOMAIN Menu = {"profiles", "merging", "verification", "messaging", "rules", "finance",
                     "delegations", "system"}
  BY DEF Menu
<1>2. \A x : x \in Loads <=> x = "messages" \/ \E a \in DOMAIN Menu : x \in Menu[a]
  BY DEF Loads
<1>3. \A x : x \in Loads <=> x \in {"entities", "mine", "verifications", "conversations",
           "messages", "rules", "audit", "contracts", "invoices", "delegations", "jobs",
           "config", "health"}
  BY <1>1, <1>2 DEF Menu
<1> QED
  BY <1>3

-----------------------------------------------------------------------------
(* Calls *)

LEMMA FetchFacts ==
  ASSUME NEW kind, NEW of, NEW arg
  PROVE  LET c == Fetch(kind, of, arg) IN
         /\ HasShape(c, CallFields) /\ c.kind = kind /\ c.of = of /\ c.arg = arg /\ c.reply = None
  BY DEF Fetch, HasShape, CallFields

LEMMA ReplyFacts ==
  ASSUME NEW status, NEW data
  PROVE  Reply(status, data).status = status /\ Reply(status, data).data = data
  BY DEF Reply

LEMMA Singletons ==
  ASSUME NEW c
  PROVE  /\ Sequential(<<>>) /\ Sequential(<<c>>) /\ Len(<<>>) = 0 /\ Len(<<c>>) = 1
         /\ <<c>>[1] = c
  BY DEF Sequential

\* The calls of done have ended, and those of the set new have left.
Leave(done, new) ==
  /\ sent' \in Nat /\ sent' >= sent
  /\ calls' = [n \in DOMAIN calls' |-> calls'[n]]
  /\ DOMAIN calls \ done \subseteq DOMAIN calls'
  /\ \A n \in DOMAIN calls' :
       /\ n \in 1 .. sent'
       /\ \/ n \in DOMAIN calls \ done /\ calls'[n] = calls[n]
          \/ n > sent /\ calls'[n] \in new

LEMMA RequestMany ==
  ASSUME CallsSound, NEW done, NEW new, Sequential(new), Request(done, new)
  PROVE  Leave(done, {new[i] : i \in 1 .. Len(new)})
<1>1. Len(new) \in Nat /\ sent \in Nat /\ sent' = sent + Len(new)
  BY DEF Request, Sequential, CallsSound
<1>2. DOMAIN calls' = (DOMAIN calls \ done) \cup (sent + 1 .. sent + Len(new))
  BY DEF Request
<1>3. \A n \in DOMAIN calls' : calls'[n] = IF n > sent THEN new[n - sent] ELSE calls[n]
  BY DEF Request
<1>4. calls' = [n \in DOMAIN calls' |-> calls'[n]]
  BY DEF Request
<1>5. \A n \in DOMAIN calls : n \in 1 .. sent
  BY DEF CallsSound
<1>6. ASSUME NEW n \in DOMAIN calls'
      PROVE  /\ n \in 1 .. sent'
             /\ \/ n \in DOMAIN calls \ done /\ calls'[n] = calls[n]
                \/ n > sent /\ calls'[n] \in {new[i] : i \in 1 .. Len(new)}
  <2>1. CASE n \in sent + 1 .. sent + Len(new)
    <3>1. n > sent /\ n \in 1 .. sent' /\ n - sent \in 1 .. Len(new)
      BY <1>1, <2>1
    <3> QED
      BY <1>3, <3>1
  <2>2. CASE n \in DOMAIN calls \ done
    <3>1. n \in 1 .. sent' /\ ~(n > sent)
      BY <1>1, <1>5, <2>2
    <3> QED
      BY <1>3, <2>2, <3>1
  <2> QED
    BY <1>2, <2>1, <2>2
<1> QED
  BY <1>1, <1>2, <1>4, <1>6 DEF Leave

LEMMA RequestNone ==
  ASSUME CallsSound, NEW done, Request(done, <<>>)
  PROVE  sent' = sent /\ Leave(done, {})
<1>1. PICK new : new = <<>>
  OBVIOUS
<1>2. Sequential(new) /\ Len(new) = 0
  BY <1>1, Singletons
<1>3. Leave(done, {new[i] : i \in 1 .. Len(new)})
  BY <1>1, <1>2, RequestMany
<1>4. {new[i] : i \in 1 .. Len(new)} = {}
  BY <1>2
<1>5. sent' = sent
  BY <1>1, <1>2 DEF Request, CallsSound
<1> QED
  BY <1>3, <1>4, <1>5

LEMMA RequestOne ==
  ASSUME CallsSound, NEW done, NEW c, Request(done, <<c>>)
  PROVE  /\ sent' = sent + 1 /\ sent' \in DOMAIN calls' /\ calls'[sent'] = c
         /\ Leave(done, {c})
<1>1. PICK new : new = <<c>>
  OBVIOUS
<1>2. Sequential(new) /\ Len(new) = 1 /\ new[1] = c
  BY <1>1, Singletons
<1>3. Leave(done, {new[i] : i \in 1 .. Len(new)})
  BY <1>1, <1>2, RequestMany
<1>4. {new[i] : i \in 1 .. Len(new)} = {c}
  BY <1>2
<1>5. sent \in Nat /\ sent' = sent + 1
  BY <1>1, <1>2 DEF Request, CallsSound
<1>6. sent' \in DOMAIN calls' /\ calls'[sent'] = new[1]
  BY <1>1, <1>2, <1>5 DEF Request
<1> QED
  BY <1>2, <1>3, <1>4, <1>5, <1>6

LEMMA AnswerFacts ==
  ASSUME CallsSound, NEW n \in DOMAIN calls, NEW reply, Answer(n, reply)
  PROVE  /\ sent' = sent /\ DOMAIN calls' = DOMAIN calls
         /\ calls' = [m \in DOMAIN calls' |-> calls'[m]]
         /\ \A m \in DOMAIN calls : m # n => calls'[m] = calls[m]
         /\ LET c == calls'[n] IN
            /\ HasShape(c, CallFields) /\ c.kind = calls[n].kind /\ c.of = calls[n].of
            /\ c.arg = calls[n].arg /\ c.reply = reply
<1>1. /\ sent' = sent /\ DOMAIN calls' = DOMAIN calls
      /\ calls' = [m \in DOMAIN calls' |-> calls'[m]]
      /\ \A m \in DOMAIN calls : m # n => calls'[m] = calls[m]
  BY DEF Answer
<1>2. PICK c : c = [calls[n] EXCEPT !.reply = reply]
  OBVIOUS
<1>3. calls'[n] = c
  BY <1>2 DEF Answer, CallsSound
<1>4. HasShape(calls[n], CallFields) /\ DOMAIN calls[n] = CallFields
  BY DEF CallsSound, CallSound, HasShape
<1>5. c = [x \in CallFields |-> IF x = "reply" THEN reply ELSE calls[n][x]]
  BY <1>2, <1>4 DEF HasShape, CallFields
<1>6. /\ HasShape(c, CallFields) /\ c.kind = calls[n].kind /\ c.of = calls[n].of
      /\ c.arg = calls[n].arg /\ c.reply = reply
  BY <1>5 DEF HasShape, CallFields
<1> QED
  BY <1>1, <1>3, <1>6

\* What a reply may say of the call c.
ReplySound(c, reply) ==
  reply.status = 200 =>
    /\ c.kind = "fields" => reply.data = c.arg
    /\ c.kind = "preflight" /\ c.arg.text \in Forbidden => reply.data = "block"
    /\ c.kind = "read" /\ c.arg.text \in Forbidden => reply.data = "failed"

LEMMA SoundLeaves ==
  ASSUME CallsSound, NEW done, NEW new, Leave(done, new), \A c \in new : CallSound(c)
  PROVE  CallsSound'
<1>1. \A n \in DOMAIN calls' : n \in 1 .. sent' /\ CallSound(calls'[n])
  BY DEF Leave, CallsSound
<1> QED
  BY <1>1 DEF Leave, CallsSound

LEMMA SoundEnd ==
  ASSUME CallsSound, NEW done, Request(done, <<>>)
  PROVE  CallsSound'
<1>1. Leave(done, {})
  BY RequestNone
<1>2. \A c \in {} : CallSound(c)
  OBVIOUS
<1> QED
  BY <1>1, <1>2, SoundLeaves

LEMMA SoundCall ==
  ASSUME CallsSound, NEW done, \E c : CallSound(c) /\ Request(done, <<c>>)
  PROVE  CallsSound'
<1>1. PICK c : CallSound(c) /\ Request(done, <<c>>)
  OBVIOUS
<1>2. Leave(done, {c})
  BY <1>1, RequestOne
<1>3. \A d \in {c} : CallSound(d)
  BY <1>1
<1> QED
  BY <1>2, <1>3, SoundLeaves

LEMMA SoundFetch ==
  ASSUME NEW kind, NEW of, NEW arg,
         kind \in DOMAIN Home => of = Home[kind],
         kind = "fields" => arg \in Types,
         kind = "send" /\ arg.text \in Forbidden => arg.verdict = "failed",
         kind = "merge" /\ arg.alone => arg.pair = arg.shown /\ arg.whole
  PROVE  CallSound(Fetch(kind, of, arg))
<1>1. PICK c : c = Fetch(kind, of, arg)
  OBVIOUS
<1>2. HasShape(c, CallFields) /\ c.kind = kind /\ c.of = of /\ c.arg = arg /\ c.reply = None
  BY <1>1, FetchFacts
<1>3. CallSound(c)
  BY <1>2 DEF CallSound, Fine
<1> QED
  BY <1>1, <1>3

LEMMA SoundAnswer ==
  ASSUME CallsSound, NEW n \in DOMAIN calls,
         \E reply : ReplySound(calls[n], reply) /\ Answer(n, reply)
  PROVE  CallsSound'
<1>1. PICK reply : ReplySound(calls[n], reply) /\ Answer(n, reply)
  OBVIOUS
<1>2. PICK c : c = calls'[n]
  OBVIOUS
<1>3. /\ sent' = sent /\ DOMAIN calls' = DOMAIN calls
      /\ calls' = [m \in DOMAIN calls' |-> calls'[m]]
      /\ \A m \in DOMAIN calls : m # n => calls'[m] = calls[m]
      /\ HasShape(c, CallFields) /\ c.kind = calls[n].kind /\ c.of = calls[n].of
      /\ c.arg = calls[n].arg /\ c.reply = reply
  BY <1>1, <1>2, AnswerFacts
<1>4. CallSound(c)
  BY <1>1, <1>3 DEF CallsSound, CallSound, ReplySound, Fine
<1> QED
  BY <1>2, <1>3, <1>4 DEF CallsSound

\* Some request for data, for a list, or to change something.
Asking(done) ==
  \E k, table, arg :
    /\ k \notin {"fields", "send", "merge"}
    /\ k \in DOMAIN Home => table = Home[k]
    /\ Request(done, <<Fetch(k, table, arg)>>)

LEMMA SoundAsk ==
  ASSUME CallsSound, NEW done, Asking(done)
  PROVE  CallsSound'
<1>1. PICK k, table, arg :
        /\ k \notin {"fields", "send", "merge"}
        /\ k \in DOMAIN Home => table = Home[k]
        /\ Request(done, <<Fetch(k, table, arg)>>)
  BY DEF Asking
<1>2. CallSound(Fetch(k, table, arg))
  BY <1>1, SoundFetch
<1> QED
  BY <1>1, <1>2, SoundCall

Loading(done) == \E l, table : l \in Loads /\ AskFor(l, table, done)

LEMMA SoundLoad ==
  ASSUME CallsSound, NEW done, Loading(done)
  PROVE  CallsSound'
<1>0. PICK l, table : l \in Loads /\ AskFor(l, table, done)
  BY DEF Loading
<1>1. l \notin {"fields", "send", "merge"} /\ l \notin DOMAIN Home
  BY <1>0, LoadsListed DEF Home
<1>2. Request(done, <<Fetch(l, table, None)>>)
  BY <1>0 DEF AskFor
<1>3. Asking(done)
  BY <1>1, <1>2 DEF Asking
<1> QED
  BY <1>3, SoundAsk

LEMMA SoundReload ==
  ASSUME CallsSound, NEW n, \E k, l, table : l \in Loads /\ Reload(n, k, l, table)
  PROVE  CallsSound'
<1>0. PICK k, l, table : l \in Loads /\ Reload(n, k, l, table)
  OBVIOUS
<1>1. CASE AskFor(l, table, {n})
  BY <1>0, <1>1, SoundLoad DEF Loading
<1>2. CASE Request({n}, <<>>)
  BY <1>2, SoundEnd
<1> QED
  BY <1>0, <1>1, <1>2 DEF Reload

LEMMA SoundTell ==
  ASSUME CallsSound, NEW n, \E k : Tell(n, k) \/ Announce(n, k) \/ Show(n, k)
  PROVE  CallsSound'
<1>1. Request({n}, <<>>)
  BY DEF Tell, Announce, Show
<1> QED
  BY <1>1, SoundEnd

LEMMA EntitiesSteps ==
  ASSUME CallsSound, FormSound, DialogsSound, EntitiesStep
  PROVE  CallsSound'
<1>1. ASSUME NEW e \in Entities, ViewEntity(e) PROVE CallsSound'
  <2>1. Asking({})
    BY <1>1 DEF ViewEntity, Ask, Asking, Home
  <2> QED
    BY <2>1, SoundAsk
<1>2. ASSUME NEW t \in Types, SelectType(t) PROVE CallsSound'
  <2>1. CallSound(Fetch("fields", "entities", t))
    BY SoundFetch DEF Home
  <2>2. Request({}, <<>>) \/ Request({}, <<Fetch("fields", "entities", t)>>)
    BY <1>2 DEF SelectType
  <2> QED
    BY <2>1, <2>2, SoundCall, SoundEnd
<1>3. CASE CreateEntity
  <2>1. Asking({})
    BY <1>3 DEF CreateEntity, Submit, Asking, Home
  <2> QED
    BY <2>1, SoundAsk
<1>4. CASE OpenMerge
  <2>1. Asking({})
    BY <1>4 DEF OpenMerge, Ask, Asking, Home
  <2> QED
    BY <2>1, SoundAsk
<1>5. CASE ExecuteMerge
  <2> PICK new, d, top :
        /\ d = Last(dialogs) /\ top = Len(dialogs)
        /\ new = [i \in DOMAIN d.hears |-> MergeCall(d, i, Pair(d.hears[i]))]
        /\ Request({}, new)
    BY <1>5 DEF ExecuteMerge
  <2>1. top \in MergeDialogs /\ dialogs[top] = d
    <3>1. dialogs # <<>> /\ IsMerge(dialogs[top]) /\ dialogs[top] = d
      BY <1>5 DEF ExecuteMerge, Last
    <3>2. top \in Nat /\ dialogs = [i \in 1 .. top |-> dialogs[i]]
      BY DEF DialogsSound, Sequential
    <3>3. top # 0
      BY <3>1, <3>2
    <3> QED
      BY <3>1, <3>2, <3>3 DEF MergeDialogs
  <2>2. Sequential(d.hears) /\ (d.alone => d.chosen /\ \A h \in DOMAIN d.hears : Pair(d.hears[h]) = Pair(d))
    BY <2>1 DEF DialogsSound
  <2>3. Sequential(new)
    BY <2>2 DEF Sequential
  <2>4. ASSUME NEW i \in 1 .. Len(new)
        PROVE  CallSound(new[i])
    <3>1. i \in DOMAIN d.hears
      BY <2>2, <2>3 DEF Sequential
    <3> DEFINE arg == [pair |-> Pair(d.hears[i]), shown |-> Pair(d), alone |-> d.alone,
         whole |-> \E j \in DOMAIN dialogs : IsMerge(dialogs[j]) /\ dialogs[j].chosen,
         dialog |-> d.hears[i].dialog, button |-> d.number]
    <3>2. new[i] = Fetch("merge", "entities", arg)
      BY <3>1 DEF MergeCall
    <3>3. arg.alone => arg.pair = arg.shown /\ arg.whole
      BY <2>1, <2>2, <3>1 DEF MergeDialogs
    <3> HIDE DEF arg
    <3> QED
      BY <3>2, <3>3, SoundFetch DEF Home
  <2>5. Leave({}, {new[i] : i \in 1 .. Len(new)})
    BY <2>3, RequestMany
  <2> QED
    BY <2>4, <2>5, SoundLeaves
<1>6. ASSUME NEW i \in DOMAIN dialogs, CloseDialog(i) PROVE CallsSound'
  BY <1>6 DEF CloseDialog, browser, CallsSound
<1>7. ASSUME NEW scan \in BOOLEAN, SubmitVerification(scan) PROVE CallsSound'
  <2>1. Asking({})
    BY <1>7 DEF SubmitVerification, Submit, Asking, Home
  <2> QED
    BY <2>1, SoundAsk
<1>8. CASE ApproveVerif \/ RejectVerif
  <2>1. Asking({})
    BY <1>8 DEF ApproveVerif, RejectVerif, Ask, Asking, Home
  <2> QED
    BY <2>1, SoundAsk
<1> QED
  BY <1>1, <1>2, <1>3, <1>4, <1>5, <1>6, <1>7, <1>8 DEF EntitiesStep

LEMMA EntitiesCallbacks ==
  ASSUME CallsSound, NEW n \in DOMAIN calls, EntitiesCallback(n)
  PROVE  CallsSound'
<1>1. CASE \/ ShowEntities(n) \/ ShowEntity(n) \/ ShowFields(n) \/ EntityCreated(n) \/ ShowMerge(n)
           \/ ShowMyVerification(n) \/ ShowVerifications(n)
  <2>1. \E k : Tell(n, k) \/ Announce(n, k) \/ Show(n, k)
    BY <1>1 DEF ShowEntities, ShowEntity, ShowFields, EntityCreated, ShowMerge,
                ShowMyVerification, ShowVerifications
  <2> QED
    BY <2>1, SoundTell
<1>2. CASE LoadPair(n)
  <2>1. PICK pair : pair = Fetch("pair", "entities", calls[n].arg)
    OBVIOUS
  <2>2. Request({n}, <<>>) \/ Request({n}, <<pair>>)
    BY <1>2, <2>1 DEF LoadPair
  <2>3. CallSound(pair)
    BY <2>1, SoundFetch DEF Home
  <2> QED
    BY <2>2, <2>3, SoundCall, SoundEnd
<1>3. CASE Merged(n) \/ VerificationSubmitted(n) \/ VerifApproved(n) \/ VerifRejected(n)
  <2>1. \/ Tell(n, "merge")
        \/ \E k, l, table : l \in Loads /\ Reload(n, k, l, table)
    BY <1>3, LoadsListed DEF Merged, VerificationSubmitted, VerifApproved, VerifRejected
  <2> QED
    BY <2>1, SoundTell, SoundReload
<1>4. CASE ScanFailed(n)
  BY <1>4, SoundEnd DEF ScanFailed
<1> QED
  BY <1>1, <1>2, <1>3, <1>4 DEF EntitiesCallback

LEMMA MessagingSteps ==
  ASSUME CallsSound, MessagingStep
  PROVE  CallsSound'
<1>1. ASSUME NEW c \in Convs, OpenConv(c) PROVE CallsSound'
  <2>1. Loading({})
    BY <1>1, MenuFacts DEF OpenConv, LoadMessages, Loading
  <2> QED
    BY <2>1, SoundLoad
<1>2. CASE NewConv \/ Check \/ Send \/ RecallMsg
  <2>1. Asking({})
    BY <1>2 DEF NewConv, Check, Send, RecallMsg, Ask, Asking, Home
  <2> QED
    BY <2>1, SoundAsk
<1>3. CASE ReportMsg \/ SaveRiskRule \/ DeleteRiskRule
  <2>1. Asking({})
    BY <1>3 DEF ReportMsg, SaveRiskRule, DeleteRiskRule, Ask, Submit, Asking, Home
  <2> QED
    BY <2>1, SoundAsk
<1>4. CASE Write \/ OpenReport \/ CancelReport \/ AddRiskRule \/ EditRiskRule
  BY <1>4 DEF Write, OpenReport, CancelReport, AddRiskRule, EditRiskRule, browser, CallsSound
<1> QED
  BY <1>1, <1>2, <1>3, <1>4 DEF MessagingStep

\* A text that was found to be forbidden goes no further.
LEMMA SoundPost ==
  ASSUME NEW m, NEW verdict, m.text \in Forbidden => verdict = "failed"
  PROVE  CallSound(Posted(m, verdict))
<1>1. PICK arg : arg = [text |-> m.text, verdict |-> verdict]
  OBVIOUS
<1>2. arg.text \in Forbidden => arg.verdict = "failed"
  BY <1>1
<1> QED
  BY <1>1, <1>2, SoundFetch DEF Posted, Home

LEMMA SoundReading ==
  ASSUME NEW of, NEW m, NEW verdict, m.text \in Forbidden => verdict = "failed"
  PROVE  CallSound([Fetch("read", of, m) EXCEPT !.reply = Reply(200, verdict)])
<1>1. PICK f : f = Fetch("read", of, m)
  OBVIOUS
<1>2. PICK c : c = [f EXCEPT !.reply = Reply(200, verdict)]
  OBVIOUS
<1>3. HasShape(f, CallFields) /\ f.kind = "read" /\ f.of = of /\ f.arg = m
  BY <1>1, FetchFacts
<1>4. c = [x \in CallFields |-> IF x = "reply" THEN Reply(200, verdict) ELSE f[x]]
  BY <1>2, <1>3 DEF HasShape, CallFields
<1>5. HasShape(c, CallFields) /\ c.kind = "read" /\ c.arg = m /\ c.reply = Reply(200, verdict)
  BY <1>3, <1>4 DEF HasShape, CallFields
<1>6. CallSound(c)
  BY <1>5, ReplyFacts DEF CallSound, Home
<1> QED
  BY <1>1, <1>2, <1>6

LEMMA MessagingCallbacks ==
  ASSUME CallsSound, NEW n \in DOMAIN calls, MessagingCallback(n)
  PROVE  CallsSound'
<1>1. CASE \/ ShowConversations(n) \/ ShowMessages(n) \/ Checked(n) \/ Reported(n)
           \/ ShowRiskRules(n) \/ ShowAuditLogs(n)
  <2>1. \E k : Tell(n, k) \/ Announce(n, k) \/ Show(n, k)
    BY <1>1 DEF ShowConversations, ShowMessages, Checked, Reported, ShowRiskRules, ShowAuditLogs
  <2> QED
    BY <2>1, SoundTell
<1>2. CASE \/ ConvCreated(n) \/ Sent(n) \/ Recalled(n) \/ RiskRuleSaved(n) \/ RiskRuleDeleted(n)
  <2>1. \E k, l, table : l \in Loads /\ Reload(n, k, l, table)
    BY <1>2, LoadsListed DEF ConvCreated, Sent, Recalled, RiskRuleSaved, RiskRuleDeleted
  <2> QED
    BY <2>1, SoundReload
<1>3. CASE SubmitMessage(n)
  <2> PICK m, verdict, post, reading :
        /\ m = calls[n].arg /\ verdict = IF Ok(n) THEN Data(n) ELSE "failed"
        /\ post = Posted(m, verdict)
        /\ reading = [Fetch("read", conv, m) EXCEPT !.reply = Reply(200, verdict)]
    OBVIOUS
  <2>1. calls[n].kind = "preflight" /\ CallSound(calls[n])
    BY <1>3 DEF SubmitMessage, Finish, CallsSound
  <2>2. Verdict(n) # "block" /\ m.text \in Forbidden => verdict = "failed"
    BY <2>1 DEF CallSound, Verdict, Ok, Data, Fine
  <2>3. \/ Request({n}, <<>>)
        \/ Verdict(n) # "block" /\ (Request({n}, <<post>>) \/ Request({n}, <<reading>>))
    BY <1>3 DEF SubmitMessage
  <2>4. Verdict(n) # "block" => CallSound(post) /\ CallSound(reading)
    BY <2>2, SoundPost, SoundReading
  <2> QED
    BY <2>3, <2>4, SoundCall, SoundEnd
<1>4. CASE FileRead(n)
  <2> PICK post : post = Posted(calls[n].arg, Data(n))
    OBVIOUS
  <2>1. calls[n].kind = "read" /\ CallSound(calls[n])
    BY <1>4 DEF FileRead, Finish, CallsSound
  <2>2. Ok(n) /\ calls[n].arg.text \in Forbidden => Data(n) = "failed"
    BY <2>1 DEF CallSound, Ok, Data, Fine
  <2>3. \/ Request({n}, <<>>)
        \/ Ok(n) /\ Request({n}, <<post>>)
    BY <1>4 DEF FileRead
  <2>4. Ok(n) => CallSound(post)
    BY <2>2, SoundPost
  <2> QED
    BY <2>3, <2>4, SoundCall, SoundEnd
<1> QED
  BY <1>1, <1>2, <1>3, <1>4 DEF MessagingCallback

LEMMA FinanceSteps ==
  ASSUME CallsSound, FinanceStep \/ \E n \in DOMAIN calls : FinanceCallback(n)
  PROVE  CallsSound'
<1>1. CASE CreateContract \/ PostPayment \/ DownloadExport \/ \E i \in Invoices : OpenReceipt(i)
  <2>1. Asking({})
    BY <1>1 DEF CreateContract, PostPayment, DownloadExport, OpenReceipt, Ask, Submit, Asking, Home
  <2> QED
    BY <2>1, SoundAsk
<1>2. CASE CloseReceipt \/ PrintReceipt
  BY <1>2 DEF CloseReceipt, PrintReceipt, browser, CallsSound
<1>3. ASSUME NEW n \in DOMAIN calls, FinanceCallback(n) PROVE CallsSound'
  <2>1. \E k : Tell(n, k) \/ Announce(n, k) \/ Show(n, k)
    BY <1>3 DEF FinanceCallback, ShowContracts, ContractCreated, ShowInvoices, PaymentPosted,
                ShowReceipt, ExportDownloaded
  <2> QED
    BY <2>1, SoundTell
<1> QED
  BY <1>1, <1>2, <1>3 DEF FinanceStep

LEMMA AdminSteps ==
  ASSUME CallsSound, AdminStep \/ \E n \in DOMAIN calls : AdminCallback(n)
  PROVE  CallsSound'
<1>1. CASE AdminStep
  <2>1. Asking({})
    BY <1>1 DEF AdminStep, RunJobs, ApproveDelegation, CreateDelegation, Ask, Submit, Asking, Home
  <2> QED
    BY <2>1, SoundAsk
<1>2. ASSUME NEW n \in DOMAIN calls, AdminCallback(n) PROVE CallsSound'
  <2>1. \/ \E k : Tell(n, k) \/ Show(n, k)
        \/ \E k, l, table : l \in Loads /\ Reload(n, k, l, table)
    BY <1>2, LoadsListed
    DEF AdminCallback, ShowAdminJobs, JobsRun, ShowAdminConfig, ShowDelegations,
        DelegationApproved, DelegationCreated, ShowHealthDetail, UpdateHealthUI
  <2> QED
    BY <2>1, SoundTell, SoundReload
<1> QED
  BY <1>1, <1>2

LEMMA Navigating ==
  ASSUME NEW l \in Menu[area], Navigate(l)
  PROVE  l \in Loads /\ AskFor(l, l, {})
<1>1. AskFor(l, l, {})
  BY DEF Navigate, LoadSection, LoadEntities, LoadMyVerification, LoadVerifications, LoadMessaging,
         LoadRiskRules, LoadAuditLogs, LoadContracts, LoadInvoices, LoadDelegations, LoadAdminJobs,
         LoadAdminConfig, RefreshHealthDetail
<1>2. l \in Loads
  BY LoadsListed DEF Navigate, LoadSection
<1> QED
  BY <1>1, <1>2

\* The server's replies, and those of a broken connection.
LEMMA Replies ==
  ASSUME area \in DOMAIN Menu, NEW n \in DOMAIN calls,
         Serve(n) \/ Refuse(n) \/ FailLate(n) \/ Lose(n)
  PROVE  \E reply : ReplySound(calls[n], reply) /\ Answer(n, reply)
<1>1. ASSUME NEW status, NEW data, status \in {0, 400, 500}, Answer(n, Reply(status, data))
      PROVE  \E reply : ReplySound(calls[n], reply) /\ Answer(n, reply)
  <2>1. ReplySound(calls[n], Reply(status, data))
    BY <1>1, ReplyFacts DEF ReplySound
  <2> QED
    BY <1>1, <2>1
<1>2. ASSUME NEW data, calls[n].kind \notin {"fields", "preflight", "read"}, Answer(n, Reply(200, data))
      PROVE  \E reply : ReplySound(calls[n], reply) /\ Answer(n, reply)
  <2>1. ReplySound(calls[n], Reply(200, data))
    BY <1>2, ReplyFacts DEF ReplySound
  <2> QED
    BY <1>2, <2>1
<1>3. CASE Refuse(n) \/ FailLate(n) \/ Lose(n)
  BY <1>1, <1>3 DEF Refuse, FailLate, Lose, NetworkError
<1>4. CASE ServeList(n)
  <2>1. calls[n].kind \in Loads
    BY <1>4, ListFacts DEF ServeList
  <2> QED
    BY <1>2, <1>4, <2>1, LoadsListed DEF ServeList
<1>5. CASE ServeEntities(n)
  <2>1. CASE calls[n].kind = "fields" /\ ServeRead(n, calls[n].arg)
    <3>1. ReplySound(calls[n], Reply(200, calls[n].arg))
      BY <2>1, ReplyFacts DEF ReplySound
    <3> QED
      BY <2>1, <3>1 DEF ServeRead
  <2> QED
    BY <1>2, <1>5, <2>1 DEF ServeEntities, ServeRead, ServeWrite
<1>6. CASE ServeMessaging(n)
  <2>1. ASSUME calls[n].kind = "preflight",
               ServeRead(n, IF calls[n].arg.text \in Forbidden THEN "block" ELSE "allow")
        PROVE  \E reply : ReplySound(calls[n], reply) /\ Answer(n, reply)
    <3>1. ReplySound(calls[n], Reply(200, IF calls[n].arg.text \in Forbidden THEN "block" ELSE "allow"))
      BY <2>1, ReplyFacts DEF ReplySound
    <3> QED
      BY <2>1, <3>1 DEF ServeRead
  <2> QED
    BY <1>1, <1>2, <1>6, <2>1 DEF ServeMessaging, ServeRead, ServeWrite
<1>7. CASE ServeFinance(n) \/ ServeAdmin(n)
  BY <1>2, <1>7 DEF ServeFinance, ServeAdmin, ServeRead, ServeWrite
<1> QED
  BY <1>3, <1>4, <1>5, <1>6, <1>7 DEF Serve

LEMMA NextCalls ==
  ASSUME CallsSound, TablesSound, FormSound, DialogsSound, [Next]_vars
  PROVE  CallsSound'
<1>1. CASE UserStep
  <2>1. ASSUME NEW l \in Menu[area], Navigate(l) PROVE CallsSound'
    BY <2>1, Navigating, SoundLoad DEF Loading
  <2> QED
    BY <1>1, <2>1, EntitiesSteps, MessagingSteps, FinanceSteps, AdminSteps DEF UserStep
<1>2. ASSUME NEW n \in DOMAIN calls, Callback(n) PROVE CallsSound'
  BY <1>2, EntitiesCallbacks, MessagingCallbacks, FinanceSteps, AdminSteps DEF Callback
<1>3. ASSUME NEW n \in DOMAIN calls, Serve(n) \/ Refuse(n) \/ FailLate(n) \/ Lose(n)
      PROVE  CallsSound'
  <2>1. \E reply : ReplySound(calls[n], reply) /\ Answer(n, reply)
    BY <1>3, Replies DEF TablesSound
  <2> QED
    BY <2>1, SoundAnswer
<1>4. CASE UNCHANGED vars
  BY <1>4 DEF vars, browser, CallsSound
<1> QED
  BY <1>1, <1>2, <1>3, <1>4 DEF Next

-----------------------------------------------------------------------------
(* What a step does to the calls, the buttons and the lists *)

ConvCalls == {"preflight", "read", "send", "recall"}

\* A call that no button waits for and that is no list.
Fits(c) ==
  /\ c.kind \notin Submits \cup Loads
  /\ c.reply = None \/ (c.kind = "read" /\ c.reply.status = 200)
  /\ c.kind \in ConvCalls => area = "messaging" /\ conv \in Convs
  /\ c.kind \in {"send", "recall"} => c.of \in Convs
  /\ c.kind = "fields" => c.arg = form'.type

Goes(done) == \E new : Leave(done, new) /\ \A c \in new : Fits(c)

Local == UNCHANGED <<browser, pageVars, conv>>
Asks == Goes({}) /\ UNCHANGED <<faults, pageVars, conv>>
Submitting ==
  /\ \E k, table, arg : k \in Submits /\ table \in Tables /\ Submit(k, table, arg)
  /\ UNCHANGED conv

Opening ==
  \E l \in Lists, table \in Tables :
    /\ AskFor(l, table, {}) /\ section' \in Menu[area]
    /\ l = "messages" => table = conv' /\ conv' \in Convs
    /\ l # "messages" => table = l /\ conv' = conv
    /\ UNCHANGED <<faults, area, busy, made, known, tries>>

Showing(n) == (\E l \in Loads : Show(n, l)) /\ UNCHANGED conv
Telling(n) == (\E k : Finish(n, k)) /\ Goes({n}) /\ UNCHANGED <<list, known, conv>>

\* The callback of a change to table Home[k], whose list stays as it is.
Announcing(n) ==
  /\ \E k \in DOMAIN Home : Home[k] \in Announced /\ Announce(n, k)
  /\ UNCHANGED conv

\* The callback of a change to table Home[k], or to a conversation.
Reloading(n) ==
  /\ \E k, l : /\ Reload(n, k, l, Subject(l))
               /\ \/ k \in DOMAIN Home /\ l = Home[k]
                  \/ k \in {"send", "recall"} /\ l = "messages"
  /\ UNCHANGED conv

Breaking(n) ==
  /\ calls[n].kind = "submitVerification" /\ Answered(n) /\ calls[n].reply.status = 0
  /\ Request({n}, <<>>) /\ UNCHANGED <<faults, pageVars, conv>>

\* The server answers.
Listing(n) == ~Answered(n) /\ ServeList(n) /\ UNCHANGED conv
Changes == Submits \cup DOMAIN Home \cup {"send", "recall"}
Reading(n) ==
  /\ ~Answered(n) /\ calls[n].kind \notin Changes \cup Loads
  /\ \E data : ServeRead(n, data)
  /\ UNCHANGED conv
Changing(n) == ~Answered(n) /\ calls[n].kind \notin Loads /\ ServeWrite(n) /\ UNCHANGED conv
Refusing(n) ==
  /\ ~Answered(n) /\ Answer(n, Reply(400, None))
  /\ faults' \in {faults, faults + 1} /\ UNCHANGED <<pageVars, conv>>
Failing(n) == FailLate(n) /\ UNCHANGED conv
Losing(n) == Lose(n) /\ UNCHANGED conv

CallbackKind(n) == Showing(n) \/ Telling(n) \/ Announcing(n) \/ Reloading(n) \/ Breaking(n)
ServerKind(n) ==
  Listing(n) \/ Reading(n) \/ Changing(n) \/ Refusing(n) \/ Failing(n) \/ Losing(n)
UserKind == Local \/ Asks \/ Submitting \/ Opening

LEMMA HomeListed ==
  DOMAIN Home = {"createEntity", "createContract", "postPayment", "submitVerification",
                 "approveVerif", "rejectVerif", "merge", "newConv", "saveRiskRule",
                 "deleteRiskRule", "approveDelegation", "createDelegation"}
  BY DEF Home

LEMMA GoesNone ==
  ASSUME CallsSound, NEW done, Request(done, <<>>)
  PROVE  Goes(done)
  BY RequestNone DEF Goes

LEMMA GoesOne ==
  ASSUME CallsSound, NEW done, \E c : Fits(c) /\ Request(done, <<c>>)
  PROVE  Goes(done)
<1>1. PICK c : Fits(c) /\ Request(done, <<c>>)
  OBVIOUS
<1>2. Leave(done, {c})
  BY <1>1, RequestOne
<1>3. \A d \in {c} : Fits(d)
  BY <1>1
<1> QED
  BY <1>2, <1>3 DEF Goes

\* The requests that need no more than to be sent.
LEMMA FitsFetch ==
  ASSUME NEW kind, NEW of, NEW arg, kind \notin Submits \cup Loads,
         kind \in ConvCalls => area = "messaging" /\ conv \in Convs,
         kind \in {"send", "recall"} => of \in Convs,
         kind = "fields" => arg = form'.type
  PROVE  Fits(Fetch(kind, of, arg))
<1>1. PICK c : c = Fetch(kind, of, arg)
  OBVIOUS
<1>2. c.kind = kind /\ c.of = of /\ c.arg = arg /\ c.reply = None
  BY <1>1, FetchFacts
<1>3. Fits(c)
  BY <1>2 DEF Fits
<1> QED
  BY <1>1, <1>3

LEMMA AskKind ==
  ASSUME CallsSound,
         \E kind, of, arg :
           /\ kind \notin Submits \cup Loads /\ kind # "fields"
           /\ kind \in ConvCalls => area = "messaging" /\ conv \in Convs
           /\ kind \in {"send", "recall"} => of \in Convs
           /\ Ask(Fetch(kind, of, arg)),
         UNCHANGED conv
  PROVE  Asks
<1>1. PICK kind, of, arg :
           /\ kind \notin Submits \cup Loads /\ kind # "fields"
           /\ kind \in ConvCalls => area = "messaging" /\ conv \in Convs
           /\ kind \in {"send", "recall"} => of \in Convs
           /\ Ask(Fetch(kind, of, arg))
  OBVIOUS
<1>2. Fits(Fetch(kind, of, arg))
  BY <1>1, FitsFetch
<1>3. Request({}, <<Fetch(kind, of, arg)>>) /\ UNCHANGED <<faults, pageVars>>
  BY <1>1 DEF Ask, Click
<1>4. Goes({})
  BY <1>2, <1>3, GoesOne
<1> QED
  BY <1>3, <1>4 DEF Asks

\* The section that is shown is a table.
LEMMA SectionTable ==
  ASSUME ListsSound
  PROVE  section \in Tables
  BY DEF ListsSound, TablesSound, Tables

LEMMA EntitiesKinds ==
  ASSUME CallsSound, ListsSound, DialogsSound, EntitiesStep, UNCHANGED NotEntities
  PROVE  UserKind
<1>0. UNCHANGED conv
  BY DEF NotEntities, messagingVars
<1>1. CASE (\E e \in Entities : ViewEntity(e)) \/ OpenMerge \/ ApproveVerif \/ RejectVerif
  <2>1. Asks
    BY <1>0, <1>1, AskKind, LoadsListed
    DEF ViewEntity, OpenMerge, ApproveVerif, RejectVerif, Submits, ConvCalls
  <2> QED
    BY <2>1 DEF UserKind
<1>2. ASSUME NEW t \in Types, SelectType(t) PROVE UserKind
  <2>1. form'.type = t /\ UNCHANGED <<faults, pageVars>>
    BY <1>2 DEF SelectType, Click
  <2>2. Fits(Fetch("fields", "entities", t))
    BY <2>1, FitsFetch, LoadsListed DEF Submits, ConvCalls
  <2>3. Request({}, <<>>) \/ Request({}, <<Fetch("fields", "entities", t)>>)
    BY <1>2 DEF SelectType
  <2>4. Goes({})
    BY <2>2, <2>3, GoesNone, GoesOne
  <2> QED
    BY <1>0, <2>1, <2>4 DEF UserKind, Asks
<1>3. CASE CreateEntity \/ \E scan \in BOOLEAN : SubmitVerification(scan)
  <2>1. area = "profiles" => "entities" \in Tables
    BY DEF Tables, Menu
  <2> QED
    BY <1>0, <1>3, <2>1, SectionTable
    DEF CreateEntity, SubmitVerification, UserKind, Submitting, Submits
<1>4. CASE ExecuteMerge
  <2> PICK new, d :
        /\ d = Last(dialogs)
        /\ new = [i \in DOMAIN d.hears |-> MergeCall(d, i, Pair(d.hears[i]))]
        /\ Request({}, new) /\ UNCHANGED <<faults, pageVars>>
    BY <1>4 DEF ExecuteMerge, Click
  <2>1. Sequential(d.hears)
    <3>1. dialogs # <<>> /\ d = dialogs[Len(dialogs)] /\ IsMerge(d)
      BY <1>4 DEF ExecuteMerge, Last
    <3>2. Len(dialogs) \in Nat /\ dialogs = [i \in 1 .. Len(dialogs) |-> dialogs[i]]
      BY DEF DialogsSound, Sequential
    <3>3. Len(dialogs) \in MergeDialogs
      BY <3>1, <3>2 DEF MergeDialogs
    <3> QED
      BY <3>1, <3>3 DEF DialogsSound
  <2>2. Sequential(new)
    BY <2>1 DEF Sequential
  <2>3. ASSUME NEW i \in 1 .. Len(new) PROVE Fits(new[i])
    <3>1. PICK arg : new[i] = Fetch("merge", "entities", arg)
      BY <2>1, <2>2 DEF Sequential, MergeCall
    <3> QED
      BY <3>1, FitsFetch, LoadsListed DEF Submits, ConvCalls
  <2>4. Leave({}, {new[i] : i \in 1 .. Len(new)})
    BY <2>2, RequestMany
  <2>5. Goes({})
    BY <2>3, <2>4 DEF Goes
  <2> QED
    BY <1>0, <2>5 DEF UserKind, Asks
<1>5. ASSUME NEW i \in DOMAIN dialogs, CloseDialog(i) PROVE UserKind
  BY <1>0, <1>5 DEF CloseDialog, UserKind, Local
<1> QED
  BY <1>1, <1>2, <1>3, <1>4, <1>5 DEF EntitiesStep

LEMMA MessagingKinds ==
  ASSUME CallsSound, ListsSound, MessagingStep, UNCHANGED NotMessaging
  PROVE  UserKind
<1>0. section = "conversations" => area = "messaging"
  BY MenuFacts DEF ListsSound, TablesSound
<1>1. ASSUME NEW c \in Convs, OpenConv(c) PROVE UserKind
  <2>1. section = "conversations"
    BY <1>1 DEF OpenConv, Writing
  <2>2. "messages" \in Lists /\ c \in Tables /\ section \in Menu[area]
    BY <1>0, <2>1, ListFacts DEF ListsSound, TablesSound
  <2>3. Opening
    BY <1>1, <2>2 DEF OpenConv, LoadMessages, Opening, Click
  <2> QED
    BY <2>3 DEF UserKind
<1>2. CASE NewConv \/ Check \/ ReportMsg \/ DeleteRiskRule
  <2>1. Asks
    BY <1>2, AskKind, LoadsListed
    DEF NewConv, Check, ReportMsg, DeleteRiskRule, Submits, ConvCalls, messagingVars
  <2> QED
    BY <2>1 DEF UserKind
<1>3. CASE Send
  <2>1. conv \in Convs
    BY <1>3 DEF Send, ListsSound, ConvSound
  <2> QED
    BY <1>0, <1>3, <2>1, AskKind, LoadsListed DEF Send, Writing, Submits, ConvCalls, messagingVars, UserKind
<1>4. CASE RecallMsg
  <2>1. area = "messaging" /\ conv \in Convs /\ list["messages"].rows.of \in Convs
    BY <1>0, <1>4 DEF RecallMsg, MessagesShown, Writing, ListsSound, ConvSound
  <2>2. Asks
    BY <1>4, <2>1, AskKind, LoadsListed DEF RecallMsg, Submits, ConvCalls, messagingVars
  <2> QED
    BY <2>2 DEF UserKind
<1>5. CASE SaveRiskRule
  BY <1>5, SectionTable DEF SaveRiskRule, UserKind, Submitting, Submits, messagingVars
<1>6. CASE Write \/ OpenReport \/ CancelReport \/ AddRiskRule \/ EditRiskRule
  BY <1>6 DEF Write, OpenReport, CancelReport, AddRiskRule, EditRiskRule, UserKind, Local
<1> QED
  BY <1>1, <1>2, <1>3, <1>4, <1>5, <1>6 DEF MessagingStep

LEMMA FinanceKinds ==
  ASSUME CallsSound, ListsSound, FinanceStep, UNCHANGED NotFinance
  PROVE  UserKind
<1>0. UNCHANGED conv
  BY DEF NotFinance, messagingVars
<1>1. CASE DownloadExport \/ \E i \in Invoices : OpenReceipt(i)
  <2>1. Asks
    BY <1>0, <1>1, AskKind, LoadsListed DEF DownloadExport, OpenReceipt, Submits, ConvCalls
  <2> QED
    BY <2>1 DEF UserKind
<1>2. CASE CreateContract \/ PostPayment
  BY <1>0, <1>2, SectionTable DEF CreateContract, PostPayment, UserKind, Submitting, Submits
<1>3. CASE CloseReceipt \/ PrintReceipt
  BY <1>0, <1>3 DEF CloseReceipt, PrintReceipt, UserKind, Local
<1> QED
  BY <1>1, <1>2, <1>3 DEF FinanceStep

LEMMA AdminKinds ==
  ASSUME CallsSound, ListsSound, AdminStep, UNCHANGED NotAdmin
  PROVE  UserKind
<1>0. UNCHANGED conv
  BY DEF NotAdmin, messagingVars
<1>1. CASE ApproveDelegation
  <2>1. Asks
    BY <1>0, <1>1, AskKind, LoadsListed DEF ApproveDelegation, Submits, ConvCalls
  <2> QED
    BY <2>1 DEF UserKind
<1>2. CASE RunJobs \/ CreateDelegation
  BY <1>0, <1>2, SectionTable DEF RunJobs, CreateDelegation, UserKind, Submitting, Submits
<1> QED
  BY <1>1, <1>2 DEF AdminStep

LEMMA NavigateKind ==
  ASSUME ListsSound, NEW l \in Menu[area], Navigate(l)
  PROVE  UserKind
<1>1. l \in Lists /\ l \in Tables /\ l # "messages" /\ area \in DOMAIN Menu
  BY MenuFacts DEF ListsSound, TablesSound, Lists, Tables
<1>2. AskFor(l, l, {})
  BY Navigating
<1>3. /\ section' = l /\ UNCHANGED <<conv, faults, area, busy, made, known, tries>>
  BY DEF Navigate, Click, NotPage, NotAdmin, messagingVars
<1>4. Opening
  BY <1>1, <1>2, <1>3 DEF Opening
<1> QED
  BY <1>4 DEF UserKind

\* The callbacks that only tell what came back.
LEMMA TellKind ==
  ASSUME CallsSound, NEW n, \E k : Tell(n, k), UNCHANGED conv
  PROVE  Telling(n)
<1>1. Goes({n})
  BY GoesNone DEF Tell
<1> QED
  BY <1>1 DEF Telling, Tell

LEMMA EntitiesCallbackKinds ==
  ASSUME CallsSound, NEW n \in DOMAIN calls, EntitiesCallback(n), UNCHANGED NotEntities
  PROVE  CallbackKind(n)
<1>0. UNCHANGED conv
  BY DEF NotEntities, messagingVars
<1>1. CASE ShowEntities(n) \/ ShowMyVerification(n) \/ ShowVerifications(n)
  BY <1>0, <1>1, LoadsListed
  DEF ShowEntities, ShowMyVerification, ShowVerifications, CallbackKind, Showing
<1>2. CASE ShowEntity(n) \/ ShowFields(n) \/ ShowMerge(n)
  <2>1. \E k : Tell(n, k)
    BY <1>2 DEF ShowEntity, ShowFields, ShowMerge
  <2> QED
    BY <1>0, <2>1, TellKind DEF CallbackKind
<1>3. CASE LoadPair(n)
  <2>1. PICK pair : pair = Fetch("pair", "entities", calls[n].arg)
    OBVIOUS
  <2>2. Request({n}, <<>>) \/ Request({n}, <<pair>>)
    BY <1>3, <2>1 DEF LoadPair
  <2>3. Fits(pair)
    BY <2>1, FitsFetch, LoadsListed DEF Submits, ConvCalls
  <2>4. Goes({n})
    BY <2>2, <2>3, GoesNone, GoesOne
  <2> QED
    BY <1>0, <1>3, <2>4 DEF LoadPair, CallbackKind, Telling
<1>4. CASE Merged(n) \/ VerificationSubmitted(n) \/ VerifApproved(n) \/ VerifRejected(n)
  <2>1. \/ Tell(n, "merge")
        \/ \E k, l : Reload(n, k, l, Subject(l)) /\ k \in DOMAIN Home /\ l = Home[k]
    BY <1>4 DEF Merged, VerificationSubmitted, VerifApproved, VerifRejected, Home, Subject
  <2> QED
    BY <1>0, <2>1, TellKind DEF CallbackKind, Reloading
<1>5. CASE ScanFailed(n)
  BY <1>0, <1>5 DEF ScanFailed, Uncaught, CallbackKind, Breaking
<1>6. CASE EntityCreated(n)
  BY <1>0, <1>6 DEF EntityCreated, CallbackKind, Announcing, Announced, Home
<1> QED
  BY <1>1, <1>2, <1>3, <1>4, <1>5, <1>6 DEF EntitiesCallback

LEMMA MessagingCallbackKinds ==
  ASSUME CallsSound, ListsSound, NEW n \in DOMAIN calls, MessagingCallback(n), UNCHANGED NotMessaging
  PROVE  CallbackKind(n)
<1>0. UNCHANGED conv
  BY DEF MessagingCallback, ShowConversations, ShowMessages, ConvCreated, Checked, SubmitMessage,
         FileRead, Sent, Recalled, Reported, ShowRiskRules, RiskRuleSaved, RiskRuleDeleted,
         ShowAuditLogs, messagingVars
<1>1. CASE ShowConversations(n) \/ ShowMessages(n) \/ ShowRiskRules(n) \/ ShowAuditLogs(n)
  BY <1>0, <1>1, LoadsListed
  DEF ShowConversations, ShowMessages, ShowRiskRules, ShowAuditLogs, CallbackKind, Showing
<1>2. CASE Checked(n) \/ Reported(n)
  <2>1. \E k : Tell(n, k)
    BY <1>2 DEF Checked, Reported
  <2> QED
    BY <1>0, <2>1, TellKind DEF CallbackKind
<1>3. CASE ConvCreated(n) \/ RiskRuleSaved(n) \/ RiskRuleDeleted(n)
  <2>1. \E k, l : Reload(n, k, l, Subject(l)) /\ k \in DOMAIN Home /\ l = Home[k]
    BY <1>3 DEF ConvCreated, RiskRuleSaved, RiskRuleDeleted, Home, Subject
  <2> QED
    BY <1>0, <2>1 DEF CallbackKind, Reloading
<1>4. CASE Sent(n) \/ Recalled(n)
  <2>1. \E k : k \in {"send", "recall"} /\ Reload(n, k, "messages", Subject("messages"))
    BY <1>4 DEF Sent, Recalled, Subject
  <2> QED
    BY <1>0, <2>1 DEF CallbackKind, Reloading
<1>5. ASSUME calls[n].kind \in {"preflight", "read"}
      PROVE  area = "messaging" /\ conv \in Convs
  BY <1>5 DEF ListsSound, ConvSound
<1>6. ASSUME NEW m, NEW verdict, calls[n].kind \in {"preflight", "read"}
      PROVE  Fits(Posted(m, verdict))
  BY <1>5, <1>6, FitsFetch, LoadsListed DEF Posted, Submits, ConvCalls
<1>7. CASE SubmitMessage(n)
  <2> PICK m, verdict, post, reading :
        /\ post = Posted(m, verdict)
        /\ reading = [Fetch("read", conv, m) EXCEPT !.reply = Reply(200, verdict)]
        /\ m = calls[n].arg /\ verdict = IF Ok(n) THEN Data(n) ELSE "failed"
    OBVIOUS
  <2>1. calls[n].kind = "preflight"
    BY <1>7 DEF SubmitMessage, Finish
  <2>2. Fits(reading)
    <3>1. PICK f, r : f = Fetch("read", conv, m) /\ r = Reply(200, verdict)
      OBVIOUS
    <3>2. HasShape(f, CallFields) /\ f.kind = "read"
      BY <3>1, FetchFacts
    <3>3. reading = [x \in CallFields |-> IF x = "reply" THEN r ELSE f[x]]
      BY <3>1, <3>2 DEF HasShape, CallFields
    <3>4. reading.kind = "read" /\ reading.reply.status = 200
      BY <3>1, <3>2, <3>3, ReplyFacts DEF CallFields
    <3> QED
      BY <1>5, <2>1, <3>4, LoadsListed DEF Fits, Submits, ConvCalls
  <2>3. Fits(post)
    BY <1>6, <2>1
  <2>4. Request({n}, <<>>) \/ Request({n}, <<post>>) \/ Request({n}, <<reading>>)
    BY <1>7 DEF SubmitMessage
  <2>5. Goes({n})
    BY <2>2, <2>3, <2>4, GoesNone, GoesOne
  <2> QED
    BY <1>0, <1>7, <2>5 DEF SubmitMessage, CallbackKind, Telling
<1>8. CASE FileRead(n)
  <2> PICK post : post = Posted(calls[n].arg, Data(n))
    OBVIOUS
  <2>1. Fits(post)
    BY <1>6, <1>8 DEF FileRead, Finish
  <2>2. Request({n}, <<>>) \/ Request({n}, <<post>>)
    BY <1>8 DEF FileRead
  <2>3. Goes({n})
    BY <2>1, <2>2, GoesNone, GoesOne
  <2> QED
    BY <1>0, <1>8, <2>3 DEF FileRead, CallbackKind, Telling
<1> QED
  BY <1>1, <1>2, <1>3, <1>4, <1>7, <1>8 DEF MessagingCallback

LEMMA OtherCallbackKinds ==
  ASSUME CallsSound, NEW n \in DOMAIN calls, UNCHANGED conv, FinanceCallback(n) \/ AdminCallback(n)
  PROVE  CallbackKind(n)
<1>1. \/ \E l \in Loads : Show(n, l)
      \/ \E k : Tell(n, k)
      \/ \E k \in DOMAIN Home : Home[k] \in Announced /\ Announce(n, k)
      \/ \E k, l : Reload(n, k, l, Subject(l)) /\ k \in DOMAIN Home /\ l = Home[k]
  BY LoadsListed
  DEF Announced, FinanceCallback, ShowContracts, ContractCreated, ShowInvoices, PaymentPosted,
      ShowReceipt, ExportDownloaded, AdminCallback, ShowAdminJobs, JobsRun, ShowAdminConfig, ShowDelegations,
      DelegationApproved, DelegationCreated, ShowHealthDetail, UpdateHealthUI, Home, Subject
<1> QED
  BY <1>1, TellKind DEF CallbackKind, Showing, Announcing, Reloading

LEMMA ServerKinds ==
  ASSUME NEW n \in DOMAIN calls,
         \/ Serve(n)
         \/ (Refuse(n) \/ FailLate(n) \/ Lose(n)) /\ UNCHANGED NotPage
  PROVE  ServerKind(n)
<1>0. UNCHANGED conv
  BY DEF Serve, NotEntities, NotFinance, NotPage, NotAdmin, NotMessaging, messagingVars, ServeMessaging
<1>1. CASE Refuse(n)
  BY <1>0, <1>1 DEF Refuse, Fault, ServerKind, Refusing
<1>2. CASE Lose(n)
  BY <1>0, <1>2 DEF ServerKind, Losing
<1>3. CASE ~Answered(n) /\ ServeEntities(n)
  BY <1>0, <1>3, LoadsListed, HomeListed
  DEF ServeEntities, ServerKind, Changing, Reading, Changes, Submits
<1>4. CASE ~Answered(n) /\ ServeMessaging(n)
  BY <1>0, <1>4, LoadsListed, HomeListed
  DEF ServeMessaging, ServerKind, Changing, Reading, Refusing, Changes, Submits
<1>5. CASE ~Answered(n) /\ (ServeFinance(n) \/ ServeAdmin(n))
  BY <1>0, <1>5, LoadsListed, HomeListed
  DEF ServeFinance, ServeAdmin, ServerKind, Changing, Reading, Changes, Submits
<1>6. CASE ~Answered(n) /\ ServeList(n)
  BY <1>0, <1>6 DEF ServerKind, Listing
<1>7. CASE FailLate(n)
  BY <1>0, <1>7 DEF ServerKind, Failing
<1> QED
  BY <1>1, <1>2, <1>3, <1>4, <1>5, <1>6, <1>7 DEF Serve

LEMMA StepKinds ==
  ASSUME CallsSound, ListsSound, DialogsSound, [Next]_vars
  PROVE  UserKind \/ \E n \in DOMAIN calls : CallbackKind(n) \/ ServerKind(n)
<1>1. CASE UserStep
  BY <1>1, EntitiesKinds, MessagingKinds, FinanceKinds, AdminKinds, NavigateKind DEF UserStep
<1>2. ASSUME NEW n \in DOMAIN calls, Callback(n) PROVE CallbackKind(n)
  <2>1. UNCHANGED NotFinance \/ UNCHANGED NotAdmin => UNCHANGED conv
    BY DEF NotFinance, NotAdmin, messagingVars
  <2> QED
    BY <1>2, <2>1, EntitiesCallbackKinds, MessagingCallbackKinds, OtherCallbackKinds DEF Callback
<1>3. CASE \E n \in DOMAIN calls :
             Serve(n) \/ ((Refuse(n) \/ FailLate(n) \/ Lose(n)) /\ UNCHANGED NotPage)
  BY <1>3, ServerKinds
<1>4. CASE UNCHANGED vars
  BY <1>4 DEF vars, messagingVars, UserKind, Local
<1> QED
  BY <1>1, <1>2, <1>3, <1>4 DEF Next

-----------------------------------------------------------------------------
(* Buttons *)

\* No button waits for the calls that leave.
Quietly(done) ==
  \E new : /\ Leave(done, new)
           /\ \A c \in new : c.kind \notin Submits /\ (c.reply = None \/ c.reply.status = 200)

LEMMA QuietEnd ==
  ASSUME CallsSound, NEW done, Request(done, <<>>)
  PROVE  Quietly(done)
  BY RequestNone DEF Quietly

LEMMA QuietLoad ==
  ASSUME CallsSound, NEW done, Loading(done)
  PROVE  Quietly(done)
<1>1. PICK l, table : l \in Loads /\ AskFor(l, table, done)
  BY DEF Loading
<1>2. PICK c : c = Fetch(l, table, None)
  OBVIOUS
<1>3. Leave(done, {c})
  BY <1>1, <1>2, RequestOne DEF AskFor
<1>4. c.kind \notin Submits /\ c.reply = None
  BY <1>1, <1>2, FetchFacts, LoadsListed DEF Submits
<1>5. \A d \in {c} : d.kind \notin Submits /\ (d.reply = None \/ d.reply.status = 200)
  BY <1>4
<1> QED
  BY <1>3, <1>5 DEF Quietly

LEMMA QuietGoes ==
  ASSUME NEW done, Goes(done)
  PROVE  Quietly(done)
  BY DEF Goes, Fits, Quietly

LEMMA ButtonsKept ==
  ASSUME CallsSound, ButtonsSound, Quietly({}), UNCHANGED <<faults, busy, tries>>
  PROVE  ButtonsSound'
<1>1. PICK new : /\ Leave({}, new)
                 /\ \A c \in new : c.kind \notin Submits /\ (c.reply = None \/ c.reply.status = 200)
  BY DEF Quietly
<1>2. \A m \in DOMAIN calls : m \in DOMAIN calls' /\ calls'[m] = calls[m]
  <2>1. \A m \in DOMAIN calls : m \in DOMAIN calls' /\ ~(m > sent)
    BY <1>1 DEF Leave, CallsSound
  <2> QED
    BY <1>1, <2>1 DEF Leave
<1>3. \A m \in DOMAIN calls' :
        \/ m \in DOMAIN calls /\ calls'[m] = calls[m]
        \/ calls'[m].kind \notin Submits /\ (calls'[m].reply = None \/ calls'[m].reply.status = 200)
  BY <1>1 DEF Leave
<1>4. FaultsSound'
  BY <1>3 DEF ButtonsSound, FaultsSound, Answered
<1>5. BusySound'
  BY <1>2, <1>3 DEF ButtonsSound, BusySound
<1>6. TriesSound'
  BY <1>2 DEF ButtonsSound, TriesSound, TrySound, Ok
<1> QED
  BY <1>4, <1>5, <1>6 DEF ButtonsSound

LEMMA ButtonsEnd ==
  ASSUME CallsSound, ButtonsSound, NEW n \in DOMAIN calls, Quietly({n}), UNCHANGED faults,
         busy' \subseteq busy, \A k \in busy : k # calls[n].kind => k \in busy',
         calls[n].kind \in busy' => calls[n].kind = "submitVerification" /\ faults > 0,
         DOMAIN tries' \subseteq DOMAIN tries, \A k \in DOMAIN tries' : tries'[k] = tries[k],
         Ok(n) => calls[n].kind \notin DOMAIN tries'
  PROVE  ButtonsSound'
<1>1. PICK new : /\ Leave({n}, new)
                 /\ \A c \in new : c.kind \notin Submits /\ (c.reply = None \/ c.reply.status = 200)
  BY DEF Quietly
<1>2. \A m \in DOMAIN calls : m # n => m \in DOMAIN calls' /\ calls'[m] = calls[m]
  <2>1. \A m \in DOMAIN calls : m # n => m \in DOMAIN calls' /\ ~(m > sent)
    BY <1>1 DEF Leave, CallsSound
  <2> QED
    BY <1>1, <2>1 DEF Leave
<1>3. \A m \in DOMAIN calls' :
        \/ m \in DOMAIN calls /\ m # n /\ calls'[m] = calls[m]
        \/ calls'[m].kind \notin Submits /\ (calls'[m].reply = None \/ calls'[m].reply.status = 200)
  BY <1>1 DEF Leave
<1>4. FaultsSound'
  BY <1>3 DEF ButtonsSound, FaultsSound, Answered
<1>5. BusySound'
  <2>1. ASSUME NEW m \in DOMAIN calls', calls'[m].kind \in Submits
        PROVE  /\ calls'[m].kind \in busy'
               /\ m \in DOMAIN calls /\ calls'[m] = calls[m]
    BY <1>3, <2>1 DEF ButtonsSound, BusySound
  <2>2. ASSUME NEW k \in busy'
        PROVE  (\E m \in DOMAIN calls' : calls'[m].kind = k) \/ (k = "submitVerification" /\ faults' > 0)
    <3>1. CASE k = calls[n].kind
      BY <3>1
    <3>2. CASE k # calls[n].kind
      BY <1>2, <3>2 DEF ButtonsSound, BusySound
    <3> QED
      BY <3>1, <3>2
  <2>3. busy' \subseteq Submits
    BY DEF ButtonsSound, BusySound
  <2>4. \A m, p \in DOMAIN calls' :
          calls'[p].kind \in Submits /\ calls'[m].kind = calls'[p].kind => m = p
    BY <2>1 DEF ButtonsSound, BusySound
  <2> QED
    BY <2>1, <2>2, <2>3, <2>4 DEF BusySound
<1>6. TriesSound'
  <2>1. ASSUME NEW k \in DOMAIN tries'
        PROVE  TrySound(k)'
    <3>1. TrySound(k) /\ tries'[k] = tries[k]
      BY DEF ButtonsSound, TriesSound
    <3>2. ASSUME NEW m \in DOMAIN calls, calls[m].kind = k, Ok(m)
          PROVE  m \in DOMAIN calls' /\ calls'[m].kind = k /\ Ok(m)'
      BY <1>2, <3>2 DEF Ok
    <3> QED
      BY <3>1, <3>2 DEF TrySound
  <2> QED
    BY <2>1 DEF ButtonsSound, TriesSound
<1> QED
  BY <1>4, <1>5, <1>6 DEF ButtonsSound

LEMMA UserButtons ==
  ASSUME CallsSound, ListsSound, ButtonsSound, UserKind
  PROVE  ButtonsSound'
<1>1. CASE Local
  BY <1>1 DEF Local, browser, pageVars, ButtonsSound, FaultsSound, BusySound, TriesSound, TrySound,
              Answered, Ok
<1>2. CASE Asks
  BY <1>2, QuietGoes, ButtonsKept DEF Asks, pageVars
<1>3. CASE Opening
  <2>1. Loading({})
    BY <1>3, ListFacts DEF Opening, Loading, ListsSound, TablesSound
  <2> QED
    BY <1>3, <2>1, QuietLoad, ButtonsKept DEF Opening
<1>4. ASSUME NEW k \in Submits, NEW table \in Tables, NEW arg, Submit(k, table, arg)
      PROVE  ButtonsSound'
  <2>1. PICK c : c = Fetch(k, table, arg)
    OBVIOUS
  <2>2. c.kind = k /\ c.reply = None
    BY <2>1, FetchFacts
  <2>3. /\ sent' = sent + 1 /\ sent' \in DOMAIN calls' /\ calls'[sent'] = c
        /\ Leave({}, {c})
    BY <1>4, <2>1, RequestOne DEF Submit
  <2>4. \A m \in DOMAIN calls : m \in DOMAIN calls' /\ calls'[m] = calls[m]
    <3>1. \A m \in DOMAIN calls : m \in DOMAIN calls' /\ ~(m > sent)
      BY <2>3 DEF Leave, CallsSound
    <3> QED
      BY <2>3, <3>1 DEF Leave
  <2>5. \A m \in DOMAIN calls' : (m \in DOMAIN calls /\ calls'[m] = calls[m]) \/ m = sent'
    <3>1. \A m \in DOMAIN calls' : m > sent => m = sent'
      BY <2>3 DEF Leave, CallsSound
    <3> QED
      BY <2>3, <3>1 DEF Leave
  <2>6. /\ k \notin busy /\ busy' = busy \cup {k} /\ faults' = faults
        /\ tries' = Tried(k)
    BY <1>4 DEF Submit, Click
  <2>7. \A m \in DOMAIN calls : calls[m].kind # k
    BY <2>6 DEF ButtonsSound, BusySound
  <2>8. FaultsSound'
    BY <2>2, <2>3, <2>5, <2>6 DEF ButtonsSound, FaultsSound, Answered
  <2>9. BusySound'
    <3>1. \A p, m \in DOMAIN calls' :
            calls'[p].kind \in Submits /\ calls'[m].kind = calls'[p].kind => m = p
      BY <2>2, <2>3, <2>5, <2>7 DEF ButtonsSound, BusySound
    <3>2. \A m \in DOMAIN calls' : calls'[m].kind \in Submits => calls'[m].kind \in busy'
      BY <2>2, <2>3, <2>5, <2>6 DEF ButtonsSound, BusySound
    <3>3. \A j \in busy' : \/ \E m \in DOMAIN calls' : calls'[m].kind = j
                           \/ j = "submitVerification" /\ faults' > 0
      BY <2>2, <2>3, <2>4, <2>6 DEF ButtonsSound, BusySound
    <3> QED
      BY <2>6, <3>1, <3>2, <3>3 DEF ButtonsSound, BusySound
  <2>10. TriesSound'
    <3>1. DOMAIN tries' = DOMAIN tries \cup {k} /\ k \in Submits
      BY <2>6 DEF Tried
    <3>2. ASSUME NEW j \in DOMAIN tries PROVE TrySound(j)'
      <4>1. TrySound(j) /\ tries'[j] = tries[j]
        BY <2>6 DEF Tried, ButtonsSound, TriesSound
      <4> QED
        BY <2>4, <4>1 DEF TrySound, Ok
    <3>3. CASE k \notin DOMAIN tries
      <4>1. tries'[k] = [done |-> 0, untold |-> 0]
        BY <2>6, <3>3 DEF Tried
      <4>2. TrySound(k)'
        BY <4>1 DEF TrySound
      <4> QED
        BY <3>1, <3>2, <4>2 DEF ButtonsSound, TriesSound
    <3> QED
      BY <3>1, <3>2, <3>3 DEF ButtonsSound, TriesSound
  <2> QED
    BY <2>8, <2>9, <2>10 DEF ButtonsSound
<1> QED
  BY <1>1, <1>2, <1>3, <1>4 DEF UserKind, Submitting

LEMMA FinishButtons ==
  ASSUME CallsSound, ButtonsSound, NEW n \in DOMAIN calls, \E k : Finish(n, k), Quietly({n})
  PROVE  ButtonsSound'
<1>1. PICK k : k = calls[n].kind /\ Finish(n, k)
  BY DEF Finish
<1>2. /\ busy' = busy \ {k} /\ UNCHANGED faults
      /\ tries' = [j \in DOMAIN tries \ (IF Ok(n) THEN {k} ELSE {}) |-> tries[j]]
  BY <1>1 DEF Finish
<1>3. DOMAIN tries' = DOMAIN tries \ (IF Ok(n) THEN {k} ELSE {})
      /\ \A j \in DOMAIN tries' : tries'[j] = tries[j]
  BY <1>2
<1> QED
  BY <1>1, <1>2, <1>3, ButtonsEnd

LEMMA CallbackButtons ==
  ASSUME CallsSound, ButtonsSound, NEW n \in DOMAIN calls, CallbackKind(n)
  PROVE  ButtonsSound'
<1>1. CASE Showing(n)
  <2>1. PICK l \in Loads : Show(n, l)
    BY <1>1 DEF Showing
  <2>2. calls[n].kind \notin Submits
    BY <2>1, LoadsListed DEF Show, Submits
  <2>3. Request({n}, <<>>) /\ UNCHANGED <<faults, busy, tries>>
    BY <2>1 DEF Show
  <2>4. /\ calls[n].kind \notin busy /\ calls[n].kind \notin DOMAIN tries
        /\ busy' = busy /\ tries' = tries
    BY <2>2, <2>3 DEF ButtonsSound, BusySound, TriesSound
  <2> QED
    BY <2>3, <2>4, QuietEnd, ButtonsEnd
<1>2. CASE Telling(n)
  BY <1>2, QuietGoes, FinishButtons DEF Telling
<1>3. CASE Reloading(n)
  <2>1. PICK k, l : Reload(n, k, l, Subject(l)) /\ l \in Loads
    <3>1. \A k \in DOMAIN Home : Home[k] \in Loads
      BY LoadsListed DEF Home
    <3> QED
      BY <1>3, <3>1, LoadsListed DEF Reloading
  <2>2. Finish(n, k) /\ (Request({n}, <<>>) \/ AskFor(l, Subject(l), {n}))
    BY <2>1 DEF Reload
  <2>3. Quietly({n})
    BY <2>1, <2>2, QuietEnd, QuietLoad DEF Loading
  <2> QED
    BY <2>2, <2>3, FinishButtons
<1>4. CASE Breaking(n)
  <2>1. /\ Quietly({n}) /\ UNCHANGED <<faults, busy, tries>> /\ ~Ok(n)
        /\ calls[n].kind = "submitVerification" /\ faults > 0
    BY <1>4, QuietEnd DEF Breaking, pageVars, Ok, ButtonsSound, FaultsSound
  <2> QED
    BY <2>1, ButtonsEnd
<1>5. CASE Announcing(n)
  BY <1>5, QuietEnd, FinishButtons DEF Announcing, Announce
<1> QED
  BY <1>1, <1>2, <1>3, <1>4, <1>5 DEF CallbackKind

\* The answers: what buttons wait for stays, and what is done is counted.
LEMMA AnswerButtons ==
  ASSUME CallsSound, ButtonsSound, NEW n \in DOMAIN calls, \E reply : Answer(n, reply),
         faults' \in Nat, faults' >= faults, UNCHANGED busy,
         calls'[n].reply.status = 0 => faults' > 0,
         TriesSound'
  PROVE  ButtonsSound'
<1>1. PICK reply : Answer(n, reply)
  OBVIOUS
<1>2. /\ DOMAIN calls' = DOMAIN calls
      /\ \A m \in DOMAIN calls : calls'[m].kind = calls[m].kind /\ (m # n => calls'[m] = calls[m])
  BY <1>1, AnswerFacts
<1>3. FaultsSound'
  BY <1>2 DEF ButtonsSound, FaultsSound, Answered
<1>4. BusySound'
  BY <1>2 DEF ButtonsSound, BusySound, FaultsSound
<1> QED
  BY <1>3, <1>4 DEF ButtonsSound

\* What a button waits for is done once more, and the answer tells of it, or not.
LEMMA DoneTries ==
  ASSUME CallsSound, ButtonsSound, NEW n \in DOMAIN calls, ~Answered(n), NEW u \in {0, 1},
         \E reply : Answer(n, reply), tries' = Counted(calls[n].kind, 1, u),
         u = 0 /\ calls[n].kind \in Submits => Ok(n)'
  PROVE  TriesSound'
<1>1. PICK k, reply : k = calls[n].kind /\ Answer(n, reply)
  OBVIOUS
<1>2. /\ DOMAIN calls' = DOMAIN calls
      /\ \A m \in DOMAIN calls : calls'[m].kind = calls[m].kind /\ (m # n => calls'[m] = calls[m])
  BY <1>1, AnswerFacts
<1>3. DOMAIN tries' = DOMAIN tries /\ \A j \in DOMAIN tries : j # k => tries'[j] = tries[j]
  BY <1>1 DEF Counted
<1>4. ASSUME NEW j \in DOMAIN tries, j # k PROVE TrySound(j)'
  <2>1. TrySound(j) /\ tries'[j] = tries[j]
    BY <1>3, <1>4 DEF ButtonsSound, TriesSound
  <2> QED
    BY <1>1, <1>2, <1>4, <2>1 DEF TrySound, Ok
<1>5. ASSUME k \in DOMAIN tries PROVE TrySound(k)'
  <2>1. k \in Submits /\ TrySound(k)
    BY <1>5 DEF ButtonsSound, TriesSound
  <2>2. \A m \in DOMAIN calls : calls[m].kind = k => m = n
    BY <1>1, <2>1 DEF ButtonsSound, BusySound
  <2>3. ~Ok(n)
    BY DEF Ok, Answered
  <2>4. PICK d, v : /\ tries[k].done = d /\ tries[k].untold = v /\ d \in Nat /\ v \in Nat
                    /\ d <= v
    BY <2>1, <2>2, <2>3 DEF TrySound
  <2>5. tries'[k].done = d + 1 /\ tries'[k].untold = v + u
    BY <1>1, <1>5, <2>4 DEF Counted
  <2>6. u = 0 => n \in DOMAIN calls' /\ calls'[n].kind = k /\ Ok(n)'
    BY <1>1, <1>2, <2>1
  <2> QED
    BY <2>4, <2>5, <2>6 DEF TrySound
<1> QED
  BY <1>3, <1>4, <1>5 DEF ButtonsSound, TriesSound

LEMMA ServerButtons ==
  ASSUME CallsSound, ButtonsSound, ListsSound, NEW n \in DOMAIN calls, ServerKind(n)
  PROVE  ButtonsSound'
<1>0. ASSUME NEW reply, Answer(n, reply)
      PROVE  /\ DOMAIN calls' = DOMAIN calls /\ calls'[n].kind = calls[n].kind
             /\ calls'[n].reply = reply
             /\ \A m \in DOMAIN calls : calls'[m].kind = calls[m].kind /\ (m # n => calls'[m] = calls[m])
  BY <1>0, AnswerFacts
<1>1. ASSUME Listing(n) \/ Reading(n)
      PROVE  ButtonsSound'
  <2>1. calls[n].kind \notin Submits
    <3>1. CASE Listing(n)
      BY <3>1, ListFacts, LoadsListed DEF Listing, ServeList, ListsSound, TablesSound, Submits
    <3> QED
      BY <1>1, <3>1 DEF Reading, Changes
  <2>2. PICK data : Answer(n, Reply(200, data)) /\ UNCHANGED <<faults, pageVars>>
    BY <1>1 DEF Listing, ServeList, Reading, ServeRead
  <2>3. calls'[n].reply.status = 200
    BY <1>0, <2>2, ReplyFacts
  <2>4. TriesSound'
    BY <1>0, <2>1, <2>2 DEF ButtonsSound, TriesSound, TrySound, Ok, pageVars
  <2> QED
    BY <2>2, <2>3, <2>4, AnswerButtons DEF ButtonsSound, FaultsSound, pageVars
<1>2. ASSUME Changing(n)
      PROVE  ButtonsSound'
  <2> PICK k : k = calls[n].kind
    OBVIOUS
  <2>1. ~Answered(n) /\ UNCHANGED <<faults, busy>> /\ tries' = Counted(k, 1, 0)
    BY <1>2 DEF Changing, ServeWrite
  <2>2. PICK data : Answer(n, Reply(200, data)) /\ (k \in Submits => data \in Nat)
    <3>1. k \in Submits => made[calls[n].of] + 1 \in Nat
      BY DEF ListsSound, TablesSound
    <3> QED
      BY <1>2, <3>1 DEF Changing, ServeWrite
  <2>3. calls'[n].reply = Reply(200, data) /\ Reply(200, data).status = 200
    BY <1>0, <2>2, ReplyFacts
  <2>4. k \in Submits => Ok(n)'
    <3>1. k \in Submits => Reply(200, data) # None
      BY <2>2, ReplyAssumption DEF Reply
    <3> QED
      BY <2>3, <3>1 DEF Ok
  <2>5. TriesSound'
    BY <2>1, <2>2, <2>4, DoneTries
  <2> QED
    BY <2>1, <2>2, <2>3, <2>5, AnswerButtons DEF ButtonsSound, FaultsSound
<1>3. ASSUME Refusing(n)
      PROVE  ButtonsSound'
  <2>1. ~Answered(n) /\ Answer(n, Reply(400, None)) /\ UNCHANGED <<busy, tries>>
    BY <1>3 DEF Refusing, pageVars
  <2>2. calls'[n].reply.status = 400
    BY <1>0, <2>1, ReplyFacts
  <2>3. TriesSound'
    BY <1>0, <2>1 DEF ButtonsSound, TriesSound, TrySound, Ok, Answered
  <2>4. faults' \in Nat /\ faults' >= faults
    BY <1>3 DEF Refusing, ButtonsSound, FaultsSound
  <2> QED
    BY <2>1, <2>2, <2>3, <2>4, AnswerButtons
<1>4. ASSUME Losing(n)
      PROVE  ButtonsSound'
  <2> PICK k : k = calls[n].kind
    OBVIOUS
  <2>1. /\ Answer(n, Reply(0, None)) /\ UNCHANGED busy /\ faults' = faults + 1
        /\ tries' = IF Answered(n) /\ Ok(n) THEN Counted(k, 0, 1) ELSE tries
    BY <1>4 DEF Losing, Lose, NetworkError, Fault
  <2>2. ASSUME NEW j \in DOMAIN tries, j # k \/ ~Ok(n), tries'[j] = tries[j]
        PROVE  TrySound(j)'
    <3>1. TrySound(j)
      BY DEF ButtonsSound, TriesSound
    <3> QED
      BY <1>0, <2>1, <2>2, <3>1 DEF TrySound, Ok
  <2>3. TriesSound'
    <3>1. CASE tries' = tries /\ ~Ok(n)
      BY <2>2, <3>1 DEF ButtonsSound, TriesSound
    <3>2. CASE tries' = Counted(k, 0, 1)
      <4>1. DOMAIN tries' = DOMAIN tries /\ \A j \in DOMAIN tries : j # k => tries'[j] = tries[j]
        BY <3>2 DEF Counted
      <4>2. ASSUME k \in DOMAIN tries PROVE TrySound(k)'
        <5>1. PICK d, u : /\ tries[k].done = d /\ tries[k].untold = u /\ d \in Nat /\ u \in Nat
                          /\ d <= u + 1
          BY <4>2 DEF ButtonsSound, TriesSound, TrySound
        <5>2. tries'[k].done = d + 0 /\ tries'[k].untold = u + 1
          BY <3>2, <4>2, <5>1 DEF Counted
        <5> QED
          BY <5>1, <5>2 DEF TrySound
      <4> QED
        BY <2>2, <4>1, <4>2 DEF ButtonsSound, TriesSound
    <3> QED
      BY <2>1, <3>1, <3>2 DEF Ok, Answered
  <2>4. faults' \in Nat /\ faults' > 0 /\ faults' >= faults
    BY <2>1 DEF ButtonsSound, FaultsSound
  <2> QED
    BY <2>1, <2>3, <2>4, AnswerButtons
<1>5. ASSUME Failing(n)
      PROVE  ButtonsSound'
  <2>1. /\ ~Answered(n) /\ Answer(n, Reply(500, None)) /\ UNCHANGED busy /\ faults' = faults + 1
        /\ tries' = Counted(calls[n].kind, 1, 1)
    BY <1>5 DEF Failing, FailLate, Fault
  <2>2. calls'[n].reply.status = 500
    BY <1>0, <2>1, ReplyFacts
  <2>3. TriesSound'
    BY <2>1, DoneTries
  <2>4. faults' \in Nat /\ faults' >= faults
    BY <2>1 DEF ButtonsSound, FaultsSound
  <2> QED
    BY <2>1, <2>2, <2>3, <2>4, AnswerButtons
<1> QED
  BY <1>1, <1>2, <1>3, <1>4, <1>5 DEF ServerKind

-----------------------------------------------------------------------------
(* Tables *)

LEMMA TablesKept ==
  ASSUME CallsSound, ListsSound, UNCHANGED <<area, made>>, section' \in Menu[area],
         known' \in [Tables -> Nat], \A t \in Tables : known'[t] <= made[t],
         \E done, new : /\ Leave(done, new)
                        /\ \A c \in new : /\ c.reply = None \/ c.kind = "read"
                                          /\ c.kind \in Submits => c.of \in Tables
  PROVE  TablesSound'
<1>1. PICK done, new : /\ Leave(done, new)
                       /\ \A c \in new : /\ c.reply = None \/ c.kind = "read"
                                         /\ c.kind \in Submits => c.of \in Tables
  OBVIOUS
<1>2. Tables' = Tables
  BY DEF Tables
<1>3. \A n \in DOMAIN calls' :
        \/ n \in DOMAIN calls /\ calls'[n] = calls[n]
        \/ calls'[n] \in new
  BY <1>1 DEF Leave
<1>4. \A n \in DOMAIN calls' : calls'[n].kind \in Submits => calls'[n].of \in Tables
  BY <1>1, <1>3 DEF ListsSound, TablesSound
<1>5. \A n \in DOMAIN calls' :
        (calls'[n].kind \in DOMAIN Home \/ calls'[n].kind \in {"send", "recall"})
          /\ calls'[n].of \in Tables /\ Ok(n)'
        => Data(n)' \in Nat /\ Data(n)' <= made[calls'[n].of]
  BY <1>1, <1>3, HomeListed DEF ListsSound, TablesSound, Ok, Data
<1> QED
  BY <1>2, <1>4, <1>5 DEF ListsSound, TablesSound

LEMMA LoadLeaves ==
  ASSUME CallsSound, NEW done, NEW l \in Loads, NEW table, AskFor(l, table, done)
  PROVE  /\ sent' = sent + 1 /\ sent' \in DOMAIN calls'
         /\ calls'[sent'].kind = l /\ calls'[sent'].of = table /\ calls'[sent'].reply = None
         /\ Leave(done, {calls'[sent']})
<1>1. PICK c : c = Fetch(l, table, None)
  OBVIOUS
<1>2. /\ sent' = sent + 1 /\ sent' \in DOMAIN calls' /\ calls'[sent'] = c
      /\ Leave(done, {c})
  BY <1>1, RequestOne DEF AskFor
<1> QED
  BY <1>1, <1>2, FetchFacts

LEMMA Reporting ==
  ASSUME CallsSound, ListsSound, NEW n \in DOMAIN calls, Reloading(n) \/ Announcing(n)
  PROVE  /\ known' \in [Tables -> Nat] /\ \A t \in Tables : known'[t] <= made[t]
         /\ \A t \in Tables : t # calls[n].of => known'[t] = known[t]
<1>1. PICK k : /\ Announce(n, k) \/ \E l : Reload(n, k, l, Subject(l))
               /\ k \in DOMAIN Home \/ k \in {"send", "recall"}
  BY DEF Reloading, Announcing
<1>2. calls[n].kind = k
  BY <1>1 DEF Reload, Announce, Finish
<1>3. CASE UNCHANGED known
  BY <1>3 DEF ListsSound, TablesSound
<1>4. CASE Ok(n) /\ known' = KnownFrom(n)
  <2> PICK t : t = calls[n].of
    OBVIOUS
  <2>1. CASE t \in Tables
    <3>1. Data(n) \in Nat /\ Data(n) <= made[t] /\ known[t] <= made[t]
      BY <1>1, <1>2, <1>4, <2>1 DEF ListsSound, TablesSound
    <3> QED
      BY <1>4, <2>1, <3>1 DEF KnownFrom, ListsSound, TablesSound
  <2>2. CASE t \notin Tables
    <3>1. known' = known
      BY <1>4, <2>2 DEF KnownFrom, ListsSound, TablesSound
    <3> QED
      BY <3>1 DEF ListsSound, TablesSound
  <2> QED
    BY <2>1, <2>2
<1> QED
  BY <1>1, <1>3, <1>4 DEF Reload, Announce

LEMMA GoesTables ==
  ASSUME NEW done, Goes(done)
  PROVE  \E new : /\ Leave(done, new)
                  /\ \A c \in new : /\ c.reply = None \/ c.kind = "read"
                                    /\ c.kind \in Submits => c.of \in Tables
  BY DEF Goes, Fits

LEMMA LoadTables ==
  ASSUME CallsSound, NEW done, Loading(done)
  PROVE  \E new : /\ Leave(done, new)
                  /\ \A c \in new : /\ c.reply = None \/ c.kind = "read"
                                    /\ c.kind \in Submits => c.of \in Tables
<1>1. PICK l, table : l \in Loads /\ AskFor(l, table, done)
  BY DEF Loading
<1>2. PICK c : c = calls'[sent']
  OBVIOUS
<1>3. Leave(done, {c}) /\ c.reply = None /\ c.kind \notin Submits
  BY <1>1, <1>2, LoadLeaves, LoadsListed DEF Submits
<1>4. \A d \in {c} : d.reply = None /\ d.kind \notin Submits
  BY <1>3
<1> QED
  BY <1>3, <1>4

LEMMA NoneTables ==
  ASSUME CallsSound, NEW done, Request(done, <<>>)
  PROVE  \E new : /\ Leave(done, new)
                  /\ \A c \in new : /\ c.reply = None \/ c.kind = "read"
                                    /\ c.kind \in Submits => c.of \in Tables
  BY RequestNone

\* The list that a callback loads again.
LEMMA ReloadLists ==
  ASSUME NEW n, Reloading(n)
  PROVE  \E k, l : /\ l \in Loads /\ Finish(n, k) /\ calls[n].kind = k
                   /\ \/ k \in DOMAIN Home /\ l = Home[k]
                      \/ k \in {"send", "recall"} /\ l = "messages"
                   /\ \/ Ok(n) /\ AskFor(l, Subject(l), {n})
                      \/ Request({n}, <<>>) /\ UNCHANGED <<list, known>>
<1>1. PICK k, l : /\ Reload(n, k, l, Subject(l))
                  /\ \/ k \in DOMAIN Home /\ l = Home[k]
                     \/ k \in {"send", "recall"} /\ l = "messages"
  BY DEF Reloading
<1>2. l \in Loads
  <2>1. \A j \in DOMAIN Home : Home[j] \in Loads
    BY LoadsListed DEF Home
  <2> QED
    BY <1>1, <2>1, LoadsListed
<1> QED
  BY <1>1, <1>2 DEF Reload, Finish

LEMMA NextTables ==
  ASSUME CallsSound, ListsSound, DialogsSound, [Next]_vars
  PROVE  TablesSound'
<1>0. known \in [Tables -> Nat] /\ (\A t \in Tables : known[t] <= made[t]) /\ section \in Menu[area]
  BY DEF ListsSound, TablesSound
<1>1. CASE Local
  BY <1>1 DEF Local, browser, pageVars, ListsSound, TablesSound, Tables, Ok, Data
<1>2. CASE Asks
  <2>1. UNCHANGED <<area, made, section, known>>
    BY <1>2 DEF Asks, pageVars
  <2> QED
    BY <1>0, <1>2, <2>1, GoesTables, TablesKept DEF Asks
<1>3. CASE Submitting
  <2> PICK k, table, arg : k \in Submits /\ table \in Tables /\ Submit(k, table, arg)
    BY <1>3 DEF Submitting
  <2>1. PICK c : c = Fetch(k, table, arg)
    OBVIOUS
  <2>2. c.reply = None /\ c.of = table
    BY <2>1, FetchFacts
  <2>3. Leave({}, {c}) /\ UNCHANGED <<area, section, made, known>>
    BY <2>1, RequestOne DEF Submit
  <2>4. \A d \in {c} : d.reply = None /\ d.of \in Tables
    BY <2>2
  <2> QED
    BY <1>0, <2>3, <2>4, TablesKept
<1>4. CASE Opening
  <2>1. Loading({}) /\ UNCHANGED <<area, made, known>> /\ section' \in Menu[area]
    BY <1>4, ListFacts DEF Opening, Loading, ListsSound, TablesSound
  <2> QED
    BY <1>0, <2>1, LoadTables, TablesKept
<1>5. ASSUME NEW n \in DOMAIN calls, Showing(n) \/ Telling(n) \/ Breaking(n) PROVE TablesSound'
  <2>1. Request({n}, <<>>) \/ Goes({n})
    BY <1>5 DEF Showing, Show, Telling, Breaking
  <2>2. UNCHANGED <<area, section, made, known>>
    BY <1>5 DEF Showing, Show, Telling, Finish, Breaking, pageVars
  <2> QED
    BY <1>0, <2>1, <2>2, GoesTables, NoneTables, TablesKept
<1>6. ASSUME NEW n \in DOMAIN calls, Reloading(n) PROVE TablesSound'
  <2>1. known' \in [Tables -> Nat] /\ \A t \in Tables : known'[t] <= made[t]
    BY <1>6, Reporting
  <2>2. UNCHANGED <<area, section, made>> /\ (Loading({n}) \/ Request({n}, <<>>))
    BY <1>6, ReloadLists DEF Finish, Loading
  <2> QED
    BY <1>0, <2>1, <2>2, LoadTables, NoneTables, TablesKept
<1>7. ASSUME NEW n \in DOMAIN calls, ServerKind(n) PROVE TablesSound'
  <2>0. PICK reply : Answer(n, reply)
    BY <1>7 DEF ServerKind, Listing, ServeList, Reading, ServeRead, Changing, ServeWrite, Refusing,
                Failing, FailLate, Losing, Lose, NetworkError
  <2>1. /\ DOMAIN calls' = DOMAIN calls
        /\ \A m \in DOMAIN calls : /\ calls'[m].kind = calls[m].kind /\ calls'[m].of = calls[m].of
                                   /\ m # n => calls'[m] = calls[m]
        /\ calls'[n].reply = reply
    BY <2>0, AnswerFacts
  <2>2. UNCHANGED <<area, section, known>>
    BY <1>7 DEF ServerKind, Listing, ServeList, Reading, ServeRead, Changing, ServeWrite, Refusing,
                Failing, FailLate, Losing, Lose, NetworkError, pageVars
  <2>3. Tables' = Tables
    BY <2>2 DEF Tables
  <2>4. CASE Changing(n) \/ Failing(n)
    <3> PICK t : t = calls[n].of
      OBVIOUS
    <3>1. /\ made' = [made EXCEPT ![t] = @ + 1]
          /\ Answer(n, Reply(200, made[t] + 1)) \/ Answer(n, Reply(500, None))
      BY <2>4 DEF Changing, ServeWrite, Failing, FailLate
    <3>2. calls'[n].reply.data = made[t] + 1 \/ ~Ok(n)'
      <4>1. Answer(n, Reply(500, None)) => calls'[n].reply.status = 500
        BY AnswerFacts, ReplyFacts
      <4> QED
        BY <3>1, <4>1, AnswerFacts, ReplyFacts DEF Ok
    <3>a. made \in [Tables -> Nat]
      BY DEF ListsSound, TablesSound
    <3>b. made' = [s \in Tables |-> IF s = t THEN made[s] + 1 ELSE made[s]]
      BY <3>1, <3>a
    <3>3. made' \in [Tables -> Nat] /\ \A s \in Tables : made'[s] >= made[s]
      BY <3>a, <3>b
    <3>4. t \in Tables => made'[t] = made[t] + 1
      BY <3>b
    <3>5. \A s \in Tables : known[s] <= made'[s]
      BY <1>0, <3>3 DEF ListsSound, TablesSound
    <3>6. ASSUME NEW m \in DOMAIN calls', Ok(m)', calls'[m].of \in Tables,
                 calls'[m].kind \in DOMAIN Home \/ calls'[m].kind \in {"send", "recall"}
          PROVE  Data(m)' \in Nat /\ Data(m)' <= made'[calls'[m].of]
      <4>1. CASE m = n
        BY <2>1, <3>2, <3>3, <3>4, <3>6, <4>1 DEF Data
      <4>2. CASE m # n
        <5>1. Data(m)' \in Nat /\ Data(m)' <= made[calls[m].of] /\ calls[m].of \in Tables
          BY <2>1, <3>6, <4>2 DEF ListsSound, TablesSound, Ok, Data
        <5>2. made'[calls[m].of] >= made[calls[m].of] /\ made'[calls[m].of] \in Nat
              /\ made[calls[m].of] \in Nat
          BY <3>3, <5>1 DEF ListsSound, TablesSound
        <5> QED
          BY <2>1, <5>1, <5>2
      <4> QED
        BY <4>1, <4>2
    <3> QED
      BY <2>1, <2>2, <2>3, <3>3, <3>5, <3>6 DEF ListsSound, TablesSound
  <2>5. CASE ~Changing(n) /\ ~Failing(n)
    <3>1. made' = made
      BY <1>7, <2>5 DEF ServerKind, Listing, ServeList, Reading, ServeRead, Refusing, Losing, Lose,
                        pageVars
    <3>2. \/ calls[n].kind \notin DOMAIN Home \cup {"send", "recall"}
          \/ ~Ok(n)'
      <4>1. CASE Listing(n) \/ Reading(n)
        <5>1. Listing(n) => calls[n].kind \in Loads
          BY ListFacts DEF Listing, ServeList, ListsSound, TablesSound
        <5> QED
          BY <4>1, <5>1, LoadsListed, HomeListed DEF Reading, Changes
      <4>2. CASE Answer(n, Reply(400, None)) \/ Answer(n, Reply(0, None))
        <5>1. calls'[n].reply.status = 400 \/ calls'[n].reply.status = 0
          BY <4>2, AnswerFacts, ReplyFacts
        <5> QED
          BY <5>1 DEF Ok
      <4> QED
        BY <1>7, <2>5, <4>1, <4>2 DEF ServerKind, Refusing, Failing, FailLate, Losing, Lose, NetworkError
    <3> QED
      BY <2>1, <2>2, <2>3, <3>1, <3>2 DEF ListsSound, TablesSound, Ok, Data
  <2> QED
    BY <2>4, <2>5
<1>8. ASSUME NEW n \in DOMAIN calls, Announcing(n) PROVE TablesSound'
  <2>1. known' \in [Tables -> Nat] /\ \A t \in Tables : known'[t] <= made[t]
    BY <1>8, Reporting
  <2>2. UNCHANGED <<area, section, made>> /\ Request({n}, <<>>)
    BY <1>8 DEF Announcing, Announce, Finish
  <2> QED
    BY <1>0, <2>1, <2>2, NoneTables, TablesKept
<1> QED
  BY <1>1, <1>2, <1>3, <1>4, <1>5, <1>6, <1>7, <1>8, StepKinds DEF UserKind, CallbackKind

-----------------------------------------------------------------------------
(* Lists *)

LEMMA AskedList ==
  ASSUME CallsSound, ListsSound, NEW l, NEW table, NEW done, AskFor(l, table, done)
  PROVE  /\ list' = [m \in Lists |-> list'[m]]
         /\ \A m \in Lists : m # l => list'[m] = list[m]
         /\ l \in Lists =>
              /\ HasShape(list'[l], {"asked", "shown", "rows", "behind"})
              /\ list'[l].asked = sent + 1 /\ list'[l].shown \in 0 .. sent
              /\ list'[l].rows = list[l].rows \/ list'[l].rows = None
<1>1. PICK r : /\ list' = [list EXCEPT ![l] = r]
               /\ r = IF l \in Steady THEN [list[l] EXCEPT !.asked = sent + 1, !.behind = FALSE]
                      ELSE [asked |-> sent + 1, shown |-> 0, rows |-> None, behind |-> FALSE]
  BY DEF AskFor
<1>2. list = [m \in Lists |-> list[m]]
  BY DEF ListsSound, RowsSound
<1>3. list' = [m \in Lists |-> IF m = l THEN r ELSE list[m]]
  BY <1>1, <1>2
<1>4. ASSUME l \in Lists
      PROVE  /\ HasShape(r, {"asked", "shown", "rows", "behind"})
             /\ r.asked = sent + 1 /\ r.shown \in 0 .. sent
             /\ r.rows = list[l].rows \/ r.rows = None
  <2>1. HasShape(list[l], {"asked", "shown", "rows", "behind"}) /\ list[l].shown \in 0 .. sent
    BY <1>4 DEF ListsSound, RowsSound
  <2>2. CASE r = [list[l] EXCEPT !.asked = sent + 1, !.behind = FALSE]
    <3>1. r = [x \in {"asked", "shown", "rows", "behind"} |->
                 IF x = "behind" THEN FALSE ELSE IF x = "asked" THEN sent + 1 ELSE list[l][x]]
      BY <2>1, <2>2 DEF HasShape
    <3> QED
      BY <2>1, <3>1 DEF HasShape
  <2>3. CASE r = [asked |-> sent + 1, shown |-> 0, rows |-> None, behind |-> FALSE]
    BY <2>3 DEF HasShape, CallsSound
  <2> QED
    BY <1>1, <2>2, <2>3
<1> QED
  BY <1>3, <1>4

\* A callback that shows a list.
LEMMA ShownList ==
  ASSUME CallsSound, ListsSound, NEW n \in DOMAIN calls, NEW l, Show(n, l)
  PROVE  /\ list' = [m \in Lists |-> list'[m]]
         /\ \A m \in Lists : m # l => list'[m] = list[m]
         /\ l \in Lists =>
              /\ HasShape(list'[l], {"asked", "shown", "rows", "behind"})
              /\ list'[l].asked = list[l].asked /\ list'[l].shown = n
              /\ list'[l].behind = list[l].behind
              /\ list'[l].rows = IF Ok(n) THEN Data(n) ELSE None
<1>1. PICK d : d = IF Ok(n) THEN Data(n) ELSE None
  OBVIOUS
<1>2. list = [m \in Lists |-> list[m]]
  BY DEF ListsSound, RowsSound
<1>3. list' = [list EXCEPT ![l].shown = n, ![l].rows = d]
  BY <1>1 DEF Show
<1>4. PICK r : r = [[list[l] EXCEPT !.shown = n] EXCEPT !.rows = d]
  OBVIOUS
<1>5. list' = [m \in Lists |-> IF m = l THEN r ELSE list[m]]
  BY <1>2, <1>3, <1>4
<1>6. ASSUME l \in Lists
      PROVE  /\ HasShape(r, {"asked", "shown", "rows", "behind"})
             /\ r.asked = list[l].asked /\ r.shown = n /\ r.rows = d /\ r.behind = list[l].behind
  <2>1. HasShape(list[l], {"asked", "shown", "rows", "behind"})
    BY <1>6 DEF ListsSound, RowsSound
  <2>2. r = [x \in {"asked", "shown", "rows", "behind"} |->
               IF x = "rows" THEN d ELSE IF x = "shown" THEN n ELSE list[l][x]]
    BY <1>4, <2>1 DEF HasShape
  <2> QED
    BY <2>2 DEF HasShape
<1> QED
  BY <1>1, <1>5, <1>6

\* A callback that announces a change.
LEMMA AnnouncedList ==
  ASSUME CallsSound, ListsSound, NEW n \in DOMAIN calls, Announcing(n)
  PROVE  \/ UNCHANGED <<list, known>>
         \/ \E l \in Lists \cap Announced :
              /\ l # "messages" /\ area # "messaging"
              /\ list' = [m \in Lists |-> list'[m]]
              /\ \A m \in Lists : m # l => list'[m] = list[m]
              /\ HasShape(list'[l], {"asked", "shown", "rows", "behind"})
              /\ list'[l].asked = list[l].asked /\ list'[l].shown = list[l].shown
              /\ list'[l].rows = list[l].rows /\ list'[l].behind
              /\ \A t \in Tables : t # l => known'[t] = known[t]
<1>1. PICK k \in DOMAIN Home : Home[k] \in Announced /\ Announce(n, k)
  BY DEF Announcing
<1>2. PICK l : l = calls[n].of /\ l \in Announced
  BY <1>1 DEF Announce, Finish, CallsSound, CallSound
<1>3. l # "messages" /\ l \notin Menu["messaging"] /\ l \notin Convs
  <2>1. l \in {"entities", "contracts", "invoices"}
    BY <1>2 DEF Announced
  <2>2. \E a \in DOMAIN Menu : l \in Menu[a]
    BY <2>1 DEF Menu
  <2> QED
    BY <2>1, <2>2, PageAssumption DEF Menu
<1>4. list = [m \in Lists |-> list[m]] /\ area \in DOMAIN Menu
  BY DEF ListsSound, RowsSound, TablesSound
<1>5. \A t \in Tables : t # l => known'[t] = known[t]
  BY <1>2, Reporting
<1>6. CASE ~Ok(n)
  BY <1>1, <1>6 DEF Announce
<1>7. CASE Ok(n) /\ l \notin Lists
  <2>1. list' = [list EXCEPT ![l].behind = TRUE]
    BY <1>1, <1>2, <1>7 DEF Announce
  <2>2. list' = list
    BY <1>4, <1>7, <2>1
  <2>3. l \notin Tables
    BY <1>3, <1>7 DEF Lists, Tables
  <2>4. known \in [Tables -> Nat] /\ known' \in [Tables -> Nat]
    BY Reporting DEF ListsSound, TablesSound
  <2> QED
    BY <1>5, <2>2, <2>3, <2>4
<1>8. CASE Ok(n) /\ l \in Lists
  <2>1. list' = [list EXCEPT ![l].behind = TRUE]
    BY <1>1, <1>2, <1>8 DEF Announce
  <2>2. PICK r : r = [list[l] EXCEPT !.behind = TRUE]
    OBVIOUS
  <2>3. list' = [m \in Lists |-> IF m = l THEN r ELSE list[m]]
    BY <1>4, <2>1, <2>2
  <2>4. HasShape(list[l], {"asked", "shown", "rows", "behind"})
    BY <1>8 DEF ListsSound, RowsSound
  <2>5. r = [x \in {"asked", "shown", "rows", "behind"} |-> IF x = "behind" THEN TRUE ELSE list[l][x]]
    BY <2>2, <2>4 DEF HasShape
  <2>6. /\ HasShape(r, {"asked", "shown", "rows", "behind"})
        /\ r.asked = list[l].asked /\ r.shown = list[l].shown /\ r.rows = list[l].rows /\ r.behind
    BY <2>5 DEF HasShape
  <2>7. area # "messaging"
    BY <1>3, <1>8 DEF Lists
  <2> QED
    BY <1>2, <1>3, <1>5, <1>8, <2>3, <2>6, <2>7
<1> QED
  BY <1>6, <1>7, <1>8

ConvKinds == ConvCalls \cup {"messages"}

\* The calls that leave are of the open conversation.
LEMMA ConvKept ==
  ASSUME CallsSound, ListsSound, conv' \in Convs \cup {None}, area' = area,
         conv \in Convs => conv' \in Convs,
         \E done, new :
           /\ Leave(done, new)
           /\ \A c \in new : c.kind \in ConvKinds =>
                /\ area = "messaging" /\ conv' \in Convs
                /\ c.kind \in {"messages", "send", "recall"} => c.of \in Convs
                /\ c.kind = "messages" => c.reply = None,
         area = "messaging" /\ list'["messages"].rows # None
           => conv' \in Convs /\ list'["messages"].rows.of \in Convs
  PROVE  ConvSound'
<1>1. PICK done, new :
           /\ Leave(done, new)
           /\ \A c \in new : c.kind \in ConvKinds =>
                /\ area = "messaging" /\ conv' \in Convs
                /\ c.kind \in {"messages", "send", "recall"} => c.of \in Convs
                /\ c.kind = "messages" => c.reply = None
  OBVIOUS
<1>2. \A n \in DOMAIN calls' :
        \/ n \in DOMAIN calls /\ calls'[n] = calls[n]
        \/ calls'[n] \in new
  BY <1>1 DEF Leave
<1>3. ASSUME NEW n \in DOMAIN calls',
             calls'[n].kind \in {"messages", "preflight", "read", "send", "recall"}
      PROVE  /\ area = "messaging" /\ conv' \in Convs
             /\ calls'[n].kind \in {"messages", "send", "recall"} => calls'[n].of \in Convs
             /\ calls'[n].kind = "messages" /\ Ok(n)' => Data(n)'.of \in Convs
  <2>1. CASE n \in DOMAIN calls /\ calls'[n] = calls[n]
    BY <1>3, <2>1 DEF ListsSound, ConvSound, Ok, Data
  <2>2. CASE calls'[n] \in new
    BY <1>1, <1>3, <2>2 DEF ConvKinds, ConvCalls, Ok
  <2> QED
    BY <1>2, <2>1, <2>2
<1> QED
  BY <1>3 DEF ConvSound

LEMMA NextConv ==
  ASSUME CallsSound, ListsSound, DialogsSound, [Next]_vars
  PROVE  ConvSound'
<1>0. ASSUME UNCHANGED <<area, conv, list>>
      PROVE  /\ conv' \in Convs \cup {None}
             /\ area = "messaging" /\ list'["messages"].rows # None
                  => conv' \in Convs /\ list'["messages"].rows.of \in Convs
  BY <1>0 DEF ListsSound, ConvSound
<1>a. ASSUME NEW done, Goes(done)
      PROVE  \E new :
           /\ Leave(done, new)
           /\ \A c \in new : c.kind \in ConvKinds =>
                /\ area = "messaging" /\ conv \in Convs
                /\ c.kind \in {"messages", "send", "recall"} => c.of \in Convs
                /\ c.kind = "messages" => c.reply = None
  BY <1>a, LoadsListed DEF Goes, Fits, ConvKinds
<1>b. ASSUME NEW l \in Loads, NEW table, NEW done, AskFor(l, table, done),
             l = "messages" => area = "messaging" /\ conv' \in Convs /\ table \in Convs
      PROVE  \E new :
           /\ Leave(done, new)
           /\ \A c \in new : c.kind \in ConvKinds =>
                /\ area = "messaging" /\ conv' \in Convs
                /\ c.kind \in {"messages", "send", "recall"} => c.of \in Convs
                /\ c.kind = "messages" => c.reply = None
  <2>1. PICK c : c = calls'[sent']
    OBVIOUS
  <2>2. Leave(done, {c}) /\ c.kind = l /\ c.of = table /\ c.reply = None
    BY <1>b, <2>1, LoadLeaves
  <2>3. l \in ConvKinds => l = "messages"
    BY LoadsListed DEF ConvKinds, ConvCalls
  <2>4. \A d \in {c} : d.kind \in ConvKinds =>
                /\ area = "messaging" /\ conv' \in Convs
                /\ d.kind \in {"messages", "send", "recall"} => d.of \in Convs
                /\ d.kind = "messages" => d.reply = None
    BY <1>b, <2>2, <2>3
  <2> QED
    BY <2>2, <2>4
<1>c. ASSUME NEW done, Request(done, <<>>)
      PROVE  \E new : Leave(done, new) /\ new = {}
  BY <1>c, RequestNone
<1>m. area = "messaging" => "messages" \in Lists
  BY ListFacts DEF ListsSound, TablesSound
<1>1. CASE Local
  BY <1>1 DEF Local, browser, pageVars, ListsSound, ConvSound, Ok, Data
<1>2. CASE Asks
  <2>1. UNCHANGED <<area, conv, list>>
    BY <1>2 DEF Asks, pageVars
  <2> QED
    BY <1>0, <1>2, <1>a, <2>1, ConvKept DEF Asks
<1>3. CASE Submitting
  <2> PICK k, table, arg : k \in Submits /\ table \in Tables /\ Submit(k, table, arg)
    BY <1>3 DEF Submitting
  <2>1. PICK c : c = Fetch(k, table, arg)
    OBVIOUS
  <2>2. c.kind \notin ConvKinds
    BY <2>1, FetchFacts DEF Submits, ConvKinds, ConvCalls
  <2>3. Leave({}, {c}) /\ UNCHANGED <<area, conv, list>>
    BY <1>3, <2>1, RequestOne DEF Submit, Submitting
  <2>4. \A d \in {c} : d.kind \notin ConvKinds
    BY <2>2
  <2> QED
    BY <1>0, <2>3, <2>4, ConvKept
<1>4. CASE Opening
  <2> PICK l \in Lists, table \in Tables :
        /\ AskFor(l, table, {})
        /\ l = "messages" => table = conv' /\ conv' \in Convs
        /\ l # "messages" => table = l /\ conv' = conv
        /\ area' = area
    BY <1>4 DEF Opening
  <2>1. l \in Loads /\ (l = "messages" => area = "messaging")
    BY ListFacts DEF ListsSound, TablesSound
  <2>2. \A m \in Lists : m # l => list'[m] = list[m]
    BY AskedList
  <2>3. list'[l].rows = list[l].rows \/ list'[l].rows = None
    BY AskedList
  <2>4. area = "messaging" /\ list'["messages"].rows # None
           => conv' \in Convs /\ list'["messages"].rows.of \in Convs
    BY <1>m, <2>2, <2>3 DEF ListsSound, ConvSound
  <2>5. conv' \in Convs \cup {None} /\ (conv \in Convs => conv' \in Convs)
    BY DEF ListsSound, ConvSound
  <2> QED
    BY <1>b, <2>1, <2>4, <2>5, ConvKept
<1>5. ASSUME NEW n \in DOMAIN calls, Showing(n) PROVE ConvSound'
  <2> PICK l \in Loads : Show(n, l)
    BY <1>5 DEF Showing
  <2>1. UNCHANGED <<area, conv>> /\ Request({n}, <<>>) /\ calls[n].kind = l
    BY <1>5 DEF Showing, Show
  <2>2. area = "messaging" /\ list'["messages"].rows # None
           => conv \in Convs /\ list'["messages"].rows.of \in Convs
    BY <1>m, <2>1, ShownList DEF ListsSound, ConvSound
  <2> QED
    BY <1>c, <2>1, <2>2, ConvKept DEF ListsSound, ConvSound
<1>6. ASSUME NEW n \in DOMAIN calls, Telling(n) \/ Breaking(n) PROVE ConvSound'
  <2>1. Request({n}, <<>>) \/ Goes({n})
    BY <1>6 DEF Telling, Breaking
  <2>2. UNCHANGED <<area, conv, list>>
    BY <1>6 DEF Telling, Finish, Breaking, pageVars
  <2> QED
    BY <1>0, <1>a, <1>c, <2>1, <2>2, ConvKept
<1>7. ASSUME NEW n \in DOMAIN calls, Reloading(n) PROVE ConvSound'
  <2> PICK k, l : /\ l \in Loads /\ Finish(n, k) /\ calls[n].kind = k
                  /\ \/ k \in DOMAIN Home /\ l = Home[k]
                     \/ k \in {"send", "recall"} /\ l = "messages"
                  /\ \/ Ok(n) /\ AskFor(l, Subject(l), {n})
                     \/ Request({n}, <<>>) /\ UNCHANGED <<list, known>>
    BY <1>7, ReloadLists
  <2>1. UNCHANGED <<area, conv>>
    BY <1>7 DEF Reloading, Finish
  <2>2. l = "messages" => area = "messaging" /\ conv \in Convs
    <3>1. \A j \in DOMAIN Home : Home[j] # "messages"
      BY DEF Home
    <3> QED
      BY <3>1 DEF ListsSound, ConvSound
  <2>3. CASE AskFor(l, Subject(l), {n})
    <3> PICK table : table = Subject(l)
      OBVIOUS
    <3>1. AskFor(l, table, {n}) /\ (l = "messages" => table \in Convs)
      BY <2>2, <2>3 DEF Subject
    <3>2. \A m \in Lists : m # l => list'[m] = list[m]
      BY <3>1, AskedList
    <3>3. l \in Lists => list'[l].rows = list[l].rows \/ list'[l].rows = None
      BY <3>1, AskedList
    <3>4. area = "messaging" /\ list'["messages"].rows # None
           => conv \in Convs /\ list'["messages"].rows.of \in Convs
      BY <1>m, <3>2, <3>3 DEF ListsSound, ConvSound
    <3> QED
      BY <1>b, <2>1, <2>2, <3>1, <3>4, ConvKept DEF ListsSound, ConvSound
  <2>4. CASE Request({n}, <<>>) /\ UNCHANGED list
    BY <1>0, <1>c, <2>1, <2>4, ConvKept
  <2> QED
    BY <2>3, <2>4
<1>8. ASSUME NEW n \in DOMAIN calls, ServerKind(n) PROVE ConvSound'
  <2>0. PICK reply : Answer(n, reply)
    BY <1>8 DEF ServerKind, Listing, ServeList, Reading, ServeRead, Changing, ServeWrite, Refusing,
                Failing, FailLate, Losing, Lose, NetworkError
  <2>1. /\ DOMAIN calls' = DOMAIN calls
        /\ \A m \in DOMAIN calls : /\ calls'[m].kind = calls[m].kind /\ calls'[m].of = calls[m].of
                                   /\ m # n => calls'[m] = calls[m]
        /\ calls'[n].reply = reply
    BY <2>0, AnswerFacts
  <2>2. UNCHANGED <<area, conv, list>>
    BY <1>8 DEF ServerKind, Listing, ServeList, Reading, ServeRead, Changing, ServeWrite, Refusing,
                Failing, FailLate, Losing, Lose, NetworkError, pageVars
  <2>3. calls[n].kind = "messages" /\ Ok(n)' => Data(n)'.of = calls[n].of
    <3>1. CASE Listing(n)
      <4> PICK d : /\ d = [of |-> calls[n].of, version |-> made[calls[n].of]]
                   /\ Answer(n, Reply(200, d))
        BY <3>1 DEF Listing, ServeList
      <4>1. calls'[n].reply.data = d
        BY AnswerFacts, ReplyFacts
      <4> QED
        BY <4>1 DEF Data
    <3>2. CASE Reading(n) \/ Changing(n)
      BY <3>2, LoadsListed DEF Reading, Changing
    <3>3. CASE Answer(n, Reply(400, None)) \/ Answer(n, Reply(500, None)) \/ Answer(n, Reply(0, None))
      <4>1. calls'[n].reply.status \in {0, 400, 500}
        BY <3>3, AnswerFacts, ReplyFacts
      <4> QED
        BY <4>1 DEF Ok
    <3> QED
      BY <1>8, <3>1, <3>2, <3>3
      DEF ServerKind, Refusing, Failing, FailLate, Losing, Lose, NetworkError
  <2> QED
    BY <2>1, <2>2, <2>3 DEF ListsSound, ConvSound, Ok, Data
<1>9. ASSUME NEW n \in DOMAIN calls, Announcing(n) PROVE ConvSound'
  <2>1. Request({n}, <<>>) /\ UNCHANGED <<area, conv>>
    BY <1>9 DEF Announcing, Announce, Finish
  <2>2. UNCHANGED list \/ area # "messaging"
    BY <1>9, AnnouncedList
  <2>3. area = "messaging" /\ list'["messages"].rows # None
           => conv \in Convs /\ list'["messages"].rows.of \in Convs
    BY <2>2 DEF ListsSound, ConvSound
  <2> QED
    BY <1>c, <2>1, <2>3, ConvKept DEF ListsSound, ConvSound
<1> QED
  BY <1>1, <1>2, <1>3, <1>4, <1>5, <1>6, <1>7, <1>8, <1>9, StepKinds DEF UserKind, CallbackKind

\* What a list shows, or will show, is up to date.
RowSound(l) ==
  list[l].rows # None /\ list[l].shown = list[l].asked
    => list[l].rows.of = Subject(l) /\ UpToDate(l, list[l].rows)

LoadSound(n) ==
  /\ calls[n].of \in Tables
  /\ n = list[calls[n].kind].asked =>
       /\ calls[n].of = Subject(calls[n].kind)
       /\ Ok(n) => Data(n).of = calls[n].of /\ UpToDate(calls[n].kind, Data(n))

\* Nothing that was reported is missing, and the open conversation is the same.
SameNews(l) == /\ Subject(l)' = Subject(l)
               /\ Subject(l) \in Tables => known'[Subject(l)] = known[Subject(l)]

LEMMA RowsByParts ==
  RowsSound <=>
    /\ list = [l \in Lists |-> list[l]]
    /\ \A l \in Lists :
         /\ HasShape(list[l], {"asked", "shown", "rows", "behind"})
         /\ list[l].asked \in 0 .. sent /\ list[l].shown \in 0 .. sent
         /\ RowSound(l)
    /\ \A n \in DOMAIN calls : calls[n].kind \in Lists => LoadSound(n)
  BY DEF RowsSound, RowSound, LoadSound

LEMMA RowsNext ==
  ASSUME Lists' = Lists, list' = [l \in Lists |-> list'[l]],
         \A l \in Lists :
           /\ HasShape(list'[l], {"asked", "shown", "rows", "behind"})
           /\ list'[l].asked \in 0 .. sent' /\ list'[l].shown \in 0 .. sent'
           /\ RowSound(l)',
         \A n \in DOMAIN calls' : calls'[n].kind \in Lists => LoadSound(n)'
  PROVE  RowsSound'
<1>1. ASSUME NEW n \in DOMAIN calls', calls'[n].kind \in Lists PROVE LoadSound(n)'
  BY <1>1
<1>2. ASSUME NEW l \in Lists
      PROVE  /\ HasShape(list'[l], {"asked", "shown", "rows", "behind"})
             /\ list'[l].asked \in 0 .. sent' /\ list'[l].shown \in 0 .. sent'
             /\ RowSound(l)'
  OBVIOUS
<1>3. list' = [l \in Lists' |-> list'[l]]
  OBVIOUS
<1> QED
  BY <1>1, <1>2, <1>3 DEF RowsSound, RowSound, LoadSound

LEMMA RowKept ==
  ASSUME RowsSound, NEW l \in Lists, UNCHANGED area, list'[l] = list[l], SameNews(l)
  PROVE  RowSound(l)'
<1>1. RowSound(l)
  BY RowsByParts
<1>2. Tables' = Tables
  BY DEF Tables
<1> QED
  BY <1>1, <1>2 DEF RowSound, SameNews, UpToDate

LEMMA LoadKept ==
  ASSUME RowsSound, NEW n \in DOMAIN calls, calls[n].kind \in Lists, UNCHANGED area,
         calls'[n] = calls[n], list'[calls[n].kind].asked = list[calls[n].kind].asked,
         list'[calls[n].kind].behind = list[calls[n].kind].behind,
         SameNews(calls[n].kind)
  PROVE  LoadSound(n)'
<1>1. LoadSound(n)
  BY RowsByParts
<1>2. Tables' = Tables
  BY DEF Tables
<1> QED
  BY <1>1, <1>2 DEF LoadSound, SameNews, UpToDate, Ok, Data

LEMMA RowsKept ==
  ASSUME CallsSound, ListsSound, UNCHANGED <<area, conv, known, list>>,
         \E done, new : Leave(done, new) /\ \A c \in new : c.kind \notin Loads
  PROVE  RowsSound'
<1>1. PICK done, new : Leave(done, new) /\ \A c \in new : c.kind \notin Loads
  OBVIOUS
<1>2. Lists' = Lists /\ Lists \subseteq Loads
  BY ListFacts DEF Lists, ListsSound, TablesSound
<1>3. \A l : SameNews(l)
  BY DEF SameNews, Subject
<1>4. sent \in Nat /\ sent' \in Nat /\ sent' >= sent
  BY <1>1 DEF Leave, CallsSound
<1>5. ASSUME NEW n \in DOMAIN calls', calls'[n].kind \in Lists
      PROVE  LoadSound(n)'
  <2>1. n \in DOMAIN calls /\ calls'[n] = calls[n]
    BY <1>1, <1>2, <1>5 DEF Leave
  <2> QED
    BY <1>3, <1>5, <2>1, LoadKept DEF ListsSound
<1>6. ASSUME NEW l \in Lists
      PROVE  /\ HasShape(list'[l], {"asked", "shown", "rows", "behind"})
             /\ list'[l].asked \in 0 .. sent' /\ list'[l].shown \in 0 .. sent'
             /\ RowSound(l)'
  <2>1. RowSound(l)'
    BY <1>3, RowKept DEF ListsSound
  <2>2. HasShape(list[l], {"asked", "shown", "rows", "behind"})
        /\ list[l].asked \in 0 .. sent /\ list[l].shown \in 0 .. sent
    BY DEF ListsSound, RowsSound
  <2> QED
    BY <1>4, <2>1, <2>2
<1>7. list' = [l \in Lists' |-> list'[l]]
  BY <1>2 DEF ListsSound, RowsSound
<1> QED
  BY <1>2, <1>5, <1>6, <1>7 DEF RowsSound, RowSound, LoadSound

\* A list is asked for anew.
LEMMA RowsAsked ==
  ASSUME CallsSound, ListsSound, UNCHANGED area, NEW l \in Lists, NEW table \in Tables, NEW done,
         AskFor(l, table, done), table = Subject(l)',
         \A m \in Lists : m # l => SameNews(m) \/ (m = "messages" /\ conv \notin Convs)
  PROVE  RowsSound'
<1>1. Lists' = Lists /\ Tables' = Tables /\ l \in Loads /\ ("messages" \in Lists => area = "messaging")
  BY ListFacts DEF Lists, Tables, ListsSound, TablesSound
<1>2. /\ sent \in Nat /\ sent' = sent + 1 /\ sent' \in DOMAIN calls'
      /\ calls'[sent'].kind = l /\ calls'[sent'].of = table /\ calls'[sent'].reply = None
      /\ Leave(done, {calls'[sent']})
  BY <1>1, LoadLeaves DEF CallsSound
<1>3. /\ list' = [m \in Lists |-> list'[m]]
      /\ \A m \in Lists : m # l => list'[m] = list[m]
      /\ HasShape(list'[l], {"asked", "shown", "rows", "behind"})
      /\ list'[l].asked = sent + 1 /\ list'[l].shown \in 0 .. sent
  BY AskedList
<1>4. ASSUME NEW n \in DOMAIN calls', calls'[n].kind \in Lists
      PROVE  LoadSound(n)'
  <2>1. CASE n = sent'
    BY <1>1, <1>2, <2>1 DEF LoadSound, Ok
  <2>2. CASE n # sent'
    <3>1. n \in DOMAIN calls /\ calls'[n] = calls[n] /\ n <= sent
      BY <1>2, <2>2 DEF Leave, CallsSound
    <3>2. CASE calls[n].kind = l
      <4>1. calls[n].of \in Tables
        BY <3>1, <3>2 DEF ListsSound, RowsSound
      <4>2. n # list'[calls'[n].kind].asked
        BY <1>2, <1>3, <3>1, <3>2
      <4> QED
        BY <1>1, <3>1, <4>1, <4>2 DEF LoadSound
    <3>3. CASE calls[n].kind # l
      <4>1. calls[n].kind \in Lists /\ list'[calls[n].kind] = list[calls[n].kind]
        BY <1>3, <1>4, <3>1, <3>3
      <4>2. calls[n].kind = "messages" => conv \in Convs
        BY <3>1 DEF ListsSound, ConvSound
      <4> QED
        BY <3>1, <3>3, <4>1, <4>2, LoadKept DEF ListsSound
    <3> QED
      BY <3>2, <3>3
  <2> QED
    BY <2>1, <2>2
<1>5. ASSUME NEW m \in Lists
      PROVE  /\ HasShape(list'[m], {"asked", "shown", "rows", "behind"})
             /\ list'[m].asked \in 0 .. sent' /\ list'[m].shown \in 0 .. sent'
             /\ RowSound(m)'
  <2>1. CASE m = l
    <3>1. list'[l].shown # list'[l].asked
      BY <1>2, <1>3
    <3> QED
      BY <1>2, <1>3, <2>1, <3>1 DEF RowSound
  <2>2. CASE m # l
    <3>1. list'[m] = list[m]
      BY <1>3, <2>2
    <3>2. m = "messages" /\ list[m].rows # None => conv \in Convs
      BY <1>1 DEF ListsSound, ConvSound
    <3>3. SameNews(m) => RowSound(m)'
      BY <3>1, RowKept DEF ListsSound
    <3>4. list'[m].rows = None => RowSound(m)'
      BY DEF RowSound
    <3>5. RowSound(m)'
      BY <2>2, <3>1, <3>2, <3>3, <3>4
    <3>6. HasShape(list[m], {"asked", "shown", "rows", "behind"})
          /\ list[m].asked \in 0 .. sent /\ list[m].shown \in 0 .. sent
      BY DEF ListsSound, RowsSound
    <3> QED
      BY <1>2, <3>1, <3>5, <3>6
  <2> QED
    BY <2>1, <2>2
<1> QED
  BY <1>1, <1>3, <1>4, <1>5 DEF RowsSound, RowSound, LoadSound

LEMMA RowsShown ==
  ASSUME CallsSound, ListsSound, NEW n \in DOMAIN calls, NEW l \in Loads, Show(n, l), UNCHANGED conv
  PROVE  RowsSound'
<1>1. Lists' = Lists /\ Tables' = Tables /\ UNCHANGED <<area, known, conv>>
  BY DEF Show, Lists, Tables
<1>2. calls[n].kind = l /\ sent' = sent /\ Leave({n}, {})
  BY RequestNone DEF Show
<1>3. /\ list' = [m \in Lists |-> list'[m]]
      /\ \A m \in Lists : m # l => list'[m] = list[m]
      /\ l \in Lists =>
           /\ HasShape(list'[l], {"asked", "shown", "rows", "behind"})
           /\ list'[l].asked = list[l].asked /\ list'[l].shown = n
           /\ list'[l].behind = list[l].behind
           /\ list'[l].rows = IF Ok(n) THEN Data(n) ELSE None
  BY ShownList
<1>4. \A m : SameNews(m)
  BY <1>1 DEF SameNews, Subject
<1>5. ASSUME NEW p \in DOMAIN calls', calls'[p].kind \in Lists
      PROVE  LoadSound(p)'
  <2>1. p \in DOMAIN calls /\ calls'[p] = calls[p]
    BY <1>2 DEF Leave
  <2>2. /\ list'[calls[p].kind].asked = list[calls[p].kind].asked
        /\ list'[calls[p].kind].behind = list[calls[p].kind].behind
    BY <1>3, <1>5, <2>1
  <2> QED
    BY <1>1, <1>4, <1>5, <2>1, <2>2, LoadKept DEF ListsSound
<1>6. ASSUME NEW m \in Lists
      PROVE  /\ HasShape(list'[m], {"asked", "shown", "rows", "behind"})
             /\ list'[m].asked \in 0 .. sent' /\ list'[m].shown \in 0 .. sent'
             /\ RowSound(m)'
  <2>0. HasShape(list[m], {"asked", "shown", "rows", "behind"})
        /\ list[m].asked \in 0 .. sent /\ list[m].shown \in 0 .. sent
    BY DEF ListsSound, RowsSound
  <2>1. CASE m = l
    <3>1. n \in 0 .. sent
      BY DEF CallsSound
    <3> PICK d : d = Data(n)
      OBVIOUS
    <3>2. list[l].asked = n /\ Ok(n) => d.of = Subject(l) /\ UpToDate(l, d)
      BY <1>2, <2>1 DEF ListsSound, RowsSound
    <3>3. UpToDate(l, d) => UpToDate(l, d)'
      BY <1>1, <1>3, <2>1 DEF UpToDate
    <3>a. list'[l].asked = list[l].asked /\ list'[l].shown = n /\ list'[l].behind = list[l].behind
          /\ list'[l].rows = IF Ok(n) THEN d ELSE None
      BY <1>3, <2>1
    <3>4. RowSound(l)'
      BY <1>1, <3>2, <3>3, <3>a DEF RowSound, Subject, UpToDate
    <3> QED
      BY <1>2, <1>3, <2>0, <2>1, <3>1, <3>4
  <2>2. CASE m # l
    <3>1. list'[m] = list[m]
      BY <1>3, <2>2
    <3>2. RowSound(m)'
      BY <1>1, <1>4, <3>1, RowKept DEF ListsSound
    <3> QED
      BY <1>2, <2>0, <3>1, <3>2
  <2> QED
    BY <2>1, <2>2
<1> QED
  BY <1>1, <1>3, <1>5, <1>6 DEF RowsSound, RowSound, LoadSound

LEMMA RowsAnswered ==
  ASSUME CallsSound, ListsSound, NEW n \in DOMAIN calls, ServerKind(n)
  PROVE  RowsSound'
<1>0. PICK reply : Answer(n, reply)
  BY DEF ServerKind, Listing, ServeList, Reading, ServeRead, Changing, ServeWrite, Refusing, Failing,
         FailLate, Losing, Lose, NetworkError
<1>1. /\ sent' = sent /\ DOMAIN calls' = DOMAIN calls
      /\ \A m \in DOMAIN calls : /\ calls'[m].kind = calls[m].kind /\ calls'[m].of = calls[m].of
                                 /\ m # n => calls'[m] = calls[m]
      /\ calls'[n].reply = reply
  BY <1>0, AnswerFacts
<1>2. UNCHANGED <<area, conv, list, known>>
  BY DEF ServerKind, Listing, ServeList, Reading, ServeRead, Changing, ServeWrite, Refusing, Failing,
         FailLate, Losing, Lose, NetworkError, pageVars
<1>3. Lists' = Lists /\ Tables' = Tables
  BY <1>2 DEF Lists, Tables
<1>4. \A m : SameNews(m)
  BY <1>2 DEF SameNews, Subject
<1>5. ASSUME NEW m \in Lists PROVE RowSound(m)'
  BY <1>2, <1>4, RowKept DEF ListsSound
<1>6. ASSUME calls[n].kind \in Lists, Ok(n)'
      PROVE  Data(n)'.of = calls[n].of /\ UpToDate(calls[n].kind, Data(n))'
  <2>1. CASE Listing(n)
    <3> PICK t, d : /\ t = calls[n].of /\ d = [of |-> t, version |-> made[t]]
                    /\ Answer(n, Reply(200, d))
      BY <2>1 DEF Listing, ServeList
    <3>1. calls'[n].reply.data = d
      BY AnswerFacts, ReplyFacts
    <3>2. t \in Tables /\ made[t] \in Nat /\ known[t] <= made[t]
      BY <1>6 DEF ListsSound, RowsSound, TablesSound
    <3> QED
      BY <1>2, <1>3, <3>1, <3>2 DEF Data, UpToDate, TablesSound, ListsSound
  <2>2. CASE Reading(n) \/ Changing(n)
    BY <1>6, <2>2, ListFacts DEF Reading, Changing, ListsSound, TablesSound
  <2>3. CASE Answer(n, Reply(400, None)) \/ Answer(n, Reply(500, None)) \/ Answer(n, Reply(0, None))
    <3>1. calls'[n].reply.status \in {0, 400, 500}
      BY <2>3, AnswerFacts, ReplyFacts
    <3> QED
      BY <1>6, <3>1 DEF Ok
  <2> QED
    BY <2>1, <2>2, <2>3 DEF ServerKind, Refusing, Failing, FailLate, Losing, Lose, NetworkError
<1>7. ASSUME NEW m \in DOMAIN calls, calls[m].kind \in Lists PROVE LoadSound(m)'
  <2>1. CASE m # n
    BY <1>1, <1>2, <1>4, <1>7, <2>1, LoadKept DEF ListsSound
  <2>2. CASE m = n
    BY <1>1, <1>2, <1>3, <1>6, <1>7, <2>2 DEF LoadSound, ListsSound, RowsSound, Subject
  <2> QED
    BY <2>1, <2>2
<1>8. ASSUME NEW m \in DOMAIN calls', calls'[m].kind \in Lists PROVE LoadSound(m)'
  BY <1>1, <1>7, <1>8
<1>9. ASSUME NEW m \in Lists
      PROVE  /\ HasShape(list'[m], {"asked", "shown", "rows", "behind"})
             /\ list'[m].asked \in 0 .. sent' /\ list'[m].shown \in 0 .. sent'
             /\ RowSound(m)'
  BY <1>1, <1>2, <1>5 DEF RowsSound, ListsSound
<1>10. list' = [l \in Lists |-> list'[l]]
  BY <1>2 DEF RowsSound, ListsSound
<1> QED
  BY ONLY <1>3, <1>8, <1>9, <1>10, RowsNext

LEMMA RowsAnnounced ==
  ASSUME CallsSound, ListsSound, NEW n \in DOMAIN calls, Announcing(n)
  PROVE  RowsSound'
<1>1. UNCHANGED <<area, conv>> /\ sent' = sent /\ Leave({n}, {})
  BY RequestNone DEF Announcing, Announce, Finish
<1>2. CASE UNCHANGED <<list, known>>
  BY <1>1, <1>2, RowsKept
<1>3. CASE ~UNCHANGED <<list, known>>
  <2>1. PICK l \in Lists \cap Announced :
              /\ l # "messages" /\ area # "messaging"
              /\ list' = [m \in Lists |-> list'[m]]
              /\ \A m \in Lists : m # l => list'[m] = list[m]
              /\ HasShape(list'[l], {"asked", "shown", "rows", "behind"})
              /\ list'[l].asked = list[l].asked /\ list'[l].shown = list[l].shown
              /\ list'[l].rows = list[l].rows /\ list'[l].behind
              /\ \A t \in Tables : t # l => known'[t] = known[t]
    BY <1>3, AnnouncedList
  <2>2. Lists' = Lists /\ Tables' = Tables
    BY <1>1 DEF Lists, Tables
  <2>3. ASSUME NEW m \in Lists, m # l PROVE SameNews(m)
    <3>1. m # "messages"
      BY <2>1, ListFacts DEF ListsSound, TablesSound
    <3> QED
      BY <1>1, <2>1, <2>3, <3>1 DEF SameNews, Subject
  <2>4. ASSUME NEW p \in DOMAIN calls', calls'[p].kind \in Lists PROVE LoadSound(p)'
    <3>1. p \in DOMAIN calls /\ calls'[p] = calls[p]
      BY <1>1 DEF Leave
    <3>2. CASE calls[p].kind = l
      <4>1. LoadSound(p)
        BY <2>4, <3>1, RowsByParts DEF ListsSound
      <4> QED
        BY <2>1, <2>2, <3>1, <3>2, <4>1 DEF LoadSound, UpToDate, Subject, Ok, Data
    <3>3. CASE calls[p].kind # l
      BY <1>1, <2>1, <2>3, <2>4, <3>1, <3>3, LoadKept DEF ListsSound
    <3> QED
      BY <3>2, <3>3
  <2>5. ASSUME NEW m \in Lists
        PROVE  /\ HasShape(list'[m], {"asked", "shown", "rows", "behind"})
               /\ list'[m].asked \in 0 .. sent' /\ list'[m].shown \in 0 .. sent'
               /\ RowSound(m)'
    <3>1. /\ HasShape(list[m], {"asked", "shown", "rows", "behind"}) /\ RowSound(m)
          /\ list[m].asked \in 0 .. sent /\ list[m].shown \in 0 .. sent
      BY RowsByParts DEF ListsSound
    <3>2. CASE m = l
      <4>1. RowSound(l)'
        BY <2>1, <2>2, <3>1, <3>2 DEF RowSound, UpToDate, Subject
      <4> QED
        BY <1>1, <2>1, <3>1, <3>2, <4>1
    <3>3. CASE m # l
      <4>1. RowSound(m)'
        BY <1>1, <2>1, <2>3, <3>3, RowKept DEF ListsSound
      <4> QED
        BY <1>1, <2>1, <3>1, <3>3, <4>1
    <3> QED
      BY <3>2, <3>3
  <2> QED
    BY <2>1, <2>2, <2>4, <2>5, RowsNext
<1> QED
  BY <1>2, <1>3

LEMMA NextRows ==
  ASSUME CallsSound, ListsSound, DialogsSound, [Next]_vars
  PROVE  RowsSound'
<1>1. CASE Local
  <2>1. UNCHANGED <<area, conv, known, list, calls, sent>>
    BY <1>1 DEF Local, browser, pageVars
  <2>2. Leave({}, {})
    BY <2>1 DEF Leave, CallsSound
  <2> QED
    BY <2>1, <2>2, RowsKept
<1>2. CASE Asks
  <2>1. UNCHANGED <<area, conv, known, list>>
    BY <1>2 DEF Asks, pageVars
  <2> QED
    BY <1>2, <2>1, RowsKept DEF Asks, Goes, Fits
<1>3. CASE Submitting
  <2> PICK k, table, arg : k \in Submits /\ table \in Tables /\ Submit(k, table, arg)
    BY <1>3 DEF Submitting
  <2>1. PICK c : c = Fetch(k, table, arg)
    OBVIOUS
  <2>2. c.kind \notin Loads
    BY <2>1, FetchFacts, LoadsListed DEF Submits
  <2>3. Leave({}, {c}) /\ UNCHANGED <<area, conv, known, list>>
    BY <1>3, <2>1, RequestOne DEF Submit, Submitting
  <2>4. \A d \in {c} : d.kind \notin Loads
    BY <2>2
  <2> QED
    BY <2>3, <2>4, RowsKept
<1>4. CASE Opening
  <2> PICK l \in Lists, table \in Tables :
        /\ AskFor(l, table, {})
        /\ l = "messages" => table = conv' /\ conv' \in Convs
        /\ l # "messages" => table = l /\ conv' = conv
        /\ UNCHANGED <<area, known>>
    BY <1>4 DEF Opening
  <2>1. \A m \in Lists : m # l => SameNews(m)
    BY DEF SameNews, Subject
  <2>2. table = Subject(l)'
    BY DEF Subject
  <2> QED
    BY <2>1, <2>2, RowsAsked
<1>5. ASSUME NEW n \in DOMAIN calls, Showing(n) PROVE RowsSound'
  BY <1>5, RowsShown DEF Showing
<1>6. ASSUME NEW n \in DOMAIN calls, Telling(n) \/ Breaking(n) PROVE RowsSound'
  <2>1. UNCHANGED <<area, conv, known, list>>
    BY <1>6 DEF Telling, Finish, Breaking, pageVars
  <2>2. \E done, new : Leave(done, new) /\ \A c \in new : c.kind \notin Loads
    BY <1>6, RequestNone DEF Telling, Breaking, Goes, Fits
  <2> QED
    BY <2>1, <2>2, RowsKept
<1>7. ASSUME NEW n \in DOMAIN calls, Reloading(n) PROVE RowsSound'
  <2> PICK k, l : /\ l \in Loads /\ Finish(n, k) /\ calls[n].kind = k
                  /\ \/ k \in DOMAIN Home /\ l = Home[k]
                     \/ k \in {"send", "recall"} /\ l = "messages"
                  /\ \/ Ok(n) /\ AskFor(l, Subject(l), {n})
                     \/ Request({n}, <<>>) /\ UNCHANGED <<list, known>>
    BY <1>7, ReloadLists
  <2>1. UNCHANGED <<area, conv>>
    BY <1>7 DEF Reloading, Finish
  <2>2. CASE Request({n}, <<>>) /\ UNCHANGED <<list, known>>
    BY <2>1, <2>2, RequestNone, RowsKept
  <2>a. PICK of : of = calls[n].of
    OBVIOUS
  <2>b. \/ k \in DOMAIN Home /\ l = Home[k] /\ of = l /\ l # "messages"
        \/ l = "messages" /\ area = "messaging" /\ conv \in Convs /\ of \in Convs
    <3>1. \A j \in DOMAIN Home : Home[j] # "messages"
      BY DEF Home
    <3>2. k \in DOMAIN Home => of = Home[k]
      BY <2>a DEF CallsSound, CallSound
    <3> QED
      BY <2>a, <3>1, <3>2 DEF ListsSound, ConvSound
  <2>c. area \in DOMAIN Menu /\ \A t \in Tables : t # of => known'[t] = known[t]
    BY <1>7, <2>a, Reporting DEF ListsSound, TablesSound
  <2>d. l # "messages" => l \notin Convs
    <3>1. \A x \in Loads : x # "messages" => x \notin Convs
      BY PageAssumption DEF Loads
    <3> QED
      BY <3>1
  <2>3. CASE AskFor(l, Subject(l), {n}) /\ l \in Lists
    <3> PICK table : table = Subject(l)
      OBVIOUS
    <3>1. AskFor(l, table, {n}) /\ table = Subject(l)'
      BY <2>1, <2>3 DEF Subject
    <3>2. table \in Tables
      BY <2>3, <2>b, <2>c, ListFacts DEF Subject
    <3>3. ASSUME NEW m \in Lists, m # l PROVE SameNews(m) \/ (m = "messages" /\ conv \notin Convs)
      <4>1. CASE m = "messages"
        BY <2>1, <2>b, <2>c, <2>d, <3>3, <4>1 DEF SameNews, Subject
      <4>2. CASE m # "messages"
        <5>1. m \notin Convs /\ m # of
          BY <2>b, <2>c, <3>3, <4>2, ListFacts
        <5> QED
          BY <2>1, <2>c, <4>2, <5>1 DEF SameNews, Subject
      <4> QED
        BY <4>1, <4>2
    <3> QED
      BY <2>1, <2>3, <3>1, <3>2, <3>3, RowsAsked
  <2>4. CASE AskFor(l, Subject(l), {n}) /\ l \notin Lists
    <3> PICK table : table = Subject(l)
      OBVIOUS
    <3>1. l # "messages" /\ of = l
      BY <2>4, <2>b, <2>c, ListFacts
    <3>2. of \notin Tables
      BY <2>4, <2>d, <3>1 DEF Lists, Tables
    <3>3. known' = known
      <4>1. known \in [Tables -> Nat] /\ known' \in [Tables -> Nat]
        BY <1>7, Reporting DEF ListsSound, TablesSound
      <4> QED
        BY <2>c, <3>2, <4>1
    <3>4. AskFor(l, table, {n})
      BY <2>4
    <3>5. list' = list
      <4>1. list' = [m \in Lists |-> list'[m]] /\ \A m \in Lists : m # l => list'[m] = list[m]
        BY <3>4, AskedList
      <4>2. list = [m \in Lists |-> list[m]]
        BY DEF ListsSound, RowsSound
      <4> QED
        BY <2>4, <4>1, <4>2
    <3>6. PICK c : c = calls'[sent'] /\ c.kind = l /\ Leave({n}, {c})
      BY <3>4, LoadLeaves
    <3>7. Lists' = Lists /\ Tables' = Tables
      BY <2>1 DEF Lists, Tables
    <3>8. \A m : SameNews(m)
      BY <2>1, <3>3 DEF SameNews, Subject
    <3>9. ASSUME NEW p \in DOMAIN calls', calls'[p].kind \in Lists PROVE LoadSound(p)'
      <4>1. p \in DOMAIN calls /\ calls'[p] = calls[p]
        BY <2>4, <3>6, <3>9 DEF Leave
      <4> QED
        BY <2>1, <3>5, <3>8, <3>9, <4>1, LoadKept DEF ListsSound
    <3>10. ASSUME NEW m \in Lists PROVE RowSound(m)'
      BY <2>1, <3>5, <3>8, RowKept DEF ListsSound
    <3>11. sent \in Nat /\ sent' \in Nat /\ sent' >= sent
      BY <3>6 DEF Leave, CallsSound
    <3>12. \A m \in Lists : /\ HasShape(list'[m], {"asked", "shown", "rows", "behind"})
                            /\ list'[m].asked \in 0 .. sent' /\ list'[m].shown \in 0 .. sent'
      BY <3>5, <3>11 DEF ListsSound, RowsSound
    <3> QED
      BY <3>5, <3>7, <3>9, <3>10, <3>12 DEF RowsSound, RowSound, LoadSound, ListsSound
  <2> QED
    BY <2>2, <2>3, <2>4
<1>8. ASSUME NEW n \in DOMAIN calls, ServerKind(n) PROVE RowsSound'
  BY <1>8, RowsAnswered
<1>9. ASSUME NEW n \in DOMAIN calls, Announcing(n) PROVE RowsSound'
  BY <1>9, RowsAnnounced
<1> QED
  BY <1>1, <1>2, <1>3, <1>4, <1>5, <1>6, <1>7, <1>8, <1>9, StepKinds DEF UserKind, CallbackKind

-----------------------------------------------------------------------------
(* The form of a profile *)

\* The fields that are on their way are those that were before, or those of the
\* type that is selected.
FieldsKept ==
  \A m \in DOMAIN calls' : calls'[m].kind = "fields" =>
    \/ m \in DOMAIN calls /\ calls[m].kind = "fields" /\ calls'[m].arg = calls[m].arg
    \/ calls'[m].arg = form'.type

LEMMA FieldsLeave ==
  ASSUME NEW done, NEW new, Leave(done, new), \A c \in new : c.kind = "fields" => c.arg = form'.type
  PROVE  FieldsKept
<1> SUFFICES ASSUME NEW m \in DOMAIN calls', calls'[m].kind = "fields"
             PROVE  \/ m \in DOMAIN calls /\ calls[m].kind = "fields" /\ calls'[m].arg = calls[m].arg
                    \/ calls'[m].arg = form'.type
  BY DEF FieldsKept
<1>1. (m \in DOMAIN calls \ done /\ calls'[m] = calls[m]) \/ calls'[m] \in new
  BY DEF Leave
<1> QED
  BY <1>1

LEMMA FieldsOne ==
  ASSUME CallsSound, NEW done, \E c : c.kind # "fields" /\ Request(done, <<c>>)
  PROVE  FieldsKept
<1> PICK c : c.kind # "fields" /\ Request(done, <<c>>)
  OBVIOUS
<1>1. Leave(done, {c})
  BY RequestOne
<1>2. \A d \in {c} : d.kind = "fields" => d.arg = form'.type
  OBVIOUS
<1> QED
  BY <1>1, <1>2, FieldsLeave

LEMMA FieldsNone ==
  ASSUME CallsSound, NEW done, Request(done, <<>>)
  PROVE  FieldsKept
<1>1. Leave(done, {})
  BY RequestNone
<1>2. \A d \in {} : d.kind = "fields" => d.arg = form'.type
  OBVIOUS
<1> QED
  BY <1>1, <1>2, FieldsLeave

LEMMA FieldsGo ==
  ASSUME NEW done, Goes(done)
  PROVE  FieldsKept
<1> PICK new : Leave(done, new) /\ \A c \in new : Fits(c)
  BY DEF Goes
<1>1. \A c \in new : c.kind = "fields" => c.arg = form'.type
  BY DEF Fits
<1> QED
  BY <1>1, FieldsLeave

LEMMA FieldsLoad ==
  ASSUME CallsSound, NEW done, Loading(done)
  PROVE  FieldsKept
<1> PICK l, table : l \in Loads /\ AskFor(l, table, done)
  BY DEF Loading
<1>1. PICK c : c = Fetch(l, table, None)
  OBVIOUS
<1>2. c.kind # "fields" /\ Request(done, <<c>>)
  BY <1>1, FetchFacts, LoadsListed DEF AskFor
<1> QED
  BY <1>2, FieldsOne

LEMMA FieldsCalls ==
  ASSUME CallsSound, ListsSound, DialogsSound, [Next]_vars
  PROVE  FieldsKept
<1>1. CASE Local
  BY <1>1 DEF Local, browser, FieldsKept
<1>2. CASE Asks
  BY <1>2, FieldsGo DEF Asks
<1>3. CASE Submitting
  <2> PICK k, table, arg : k \in Submits /\ table \in Tables /\ Submit(k, table, arg)
    BY <1>3 DEF Submitting
  <2>1. PICK c : c = Fetch(k, table, arg)
    OBVIOUS
  <2>2. c.kind = k /\ k # "fields"
    BY <2>1, FetchFacts DEF Submits
  <2>3. Request({}, <<c>>)
    BY <2>1 DEF Submit
  <2> QED
    BY <2>2, <2>3, FieldsOne
<1>4. CASE Opening
  <2> PICK l \in Lists, table \in Tables : AskFor(l, table, {})
    BY <1>4 DEF Opening
  <2>1. l \in Loads
    BY ListFacts DEF ListsSound, TablesSound
  <2>2. Loading({})
    BY <2>1 DEF Loading
  <2> QED
    BY <2>2, FieldsLoad
<1>5. ASSUME NEW n \in DOMAIN calls, CallbackKind(n) PROVE FieldsKept
  <2>1. CASE Showing(n) \/ Announcing(n) \/ Breaking(n)
    <3>1. Request({n}, <<>>)
      BY <2>1 DEF Showing, Show, Announcing, Announce, Breaking
    <3> QED
      BY <3>1, FieldsNone
  <2>2. CASE Telling(n)
    BY <2>2, FieldsGo DEF Telling
  <2>3. CASE Reloading(n)
    <3>1. Request({n}, <<>>) \/ Loading({n})
      BY <2>3, ReloadLists DEF Loading
    <3> QED
      BY <3>1, FieldsNone, FieldsLoad
  <2> QED
    BY <1>5, <2>1, <2>2, <2>3 DEF CallbackKind
<1>6. ASSUME NEW n \in DOMAIN calls, ServerKind(n) PROVE FieldsKept
  <2>1. PICK reply : Answer(n, reply)
    BY <1>6 DEF ServerKind, Listing, ServeList, Reading, ServeRead, Changing, ServeWrite, Refusing,
                Failing, FailLate, Losing, Lose, NetworkError
  <2>2. /\ DOMAIN calls' = DOMAIN calls
        /\ \A m \in DOMAIN calls : calls'[m].kind = calls[m].kind /\ calls'[m].arg = calls[m].arg
    BY <2>1, AnswerFacts
  <2> QED
    BY <2>2 DEF FieldsKept
<1> QED
  BY <1>1, <1>2, <1>3, <1>4, <1>5, <1>6, StepKinds DEF UserKind

\* Only a choice of a type and the fields that arrive change the form.
LEMMA FormWriters ==
  ASSUME [Next]_vars
  PROVE  \/ UNCHANGED <<form, defs>>
         \/ \E t \in Types : SelectType(t)
         \/ \E n \in DOMAIN calls : ShowFields(n)
<1>1. CASE EntitiesStep
  BY <1>1 DEF EntitiesStep, ViewEntity, CreateEntity, OpenMerge, ExecuteMerge, CloseDialog,
              SubmitVerification, ApproveVerif, RejectVerif, entityVars
<1>2. ASSUME NEW n \in DOMAIN calls, EntitiesCallback(n)
      PROVE  UNCHANGED <<form, defs>> \/ ShowFields(n)
  BY <1>2 DEF EntitiesCallback, ShowEntities, ShowEntity, EntityCreated, LoadPair, ShowMerge, Merged,
              ShowMyVerification, VerificationSubmitted, ScanFailed, ShowVerifications, VerifApproved,
              VerifRejected, entityVars
<1>3. ASSUME NEW n \in DOMAIN calls, ServeEntities(n)
      PROVE  UNCHANGED <<form, defs>>
  BY <1>3 DEF ServeEntities, entityVars
<1>4. UNCHANGED NotMessaging \/ UNCHANGED NotFinance \/ UNCHANGED NotAdmin \/ UNCHANGED NotPage
      \/ UNCHANGED vars
        => UNCHANGED <<form, defs>>
  BY DEF NotMessaging, NotFinance, NotAdmin, NotPage, vars, entityVars
<1> QED
  BY <1>1, <1>2, <1>3, <1>4 DEF Next, UserStep, Navigate, Callback, Serve

LEMMA NextForm ==
  ASSUME CallsSound, ListsSound, DialogsSound, FormSound, [Next]_vars
  PROVE  FormSound'
<1>0. \A m \in DOMAIN calls' : calls'[m].kind = "fields" =>
           \/ m \in DOMAIN calls /\ calls[m].kind = "fields" /\ calls'[m].arg = calls[m].arg
           \/ calls'[m].arg = form'.type
  BY FieldsCalls DEF FieldsKept
<1>1. CASE UNCHANGED <<form, defs>>
  BY <1>0, <1>1 DEF FormSound, FieldsFit
<1>2. ASSUME NEW t \in Types, SelectType(t) PROVE FormSound'
  <2>1. /\ form' = [type |-> t, fields |-> defs[t],
                    crossed |-> \E n \in DOMAIN calls : calls[n].kind = "fields"]
        /\ defs' = defs
    BY <1>2 DEF SelectType
  <2>2. HasShape(form', {"type", "fields", "crossed"}) /\ form'.type = t
        /\ form'.fields = defs[t] /\ form'.crossed = \E n \in DOMAIN calls : calls[n].kind = "fields"
    BY <2>1 DEF HasShape
  <2>3. defs[t] \in {None, t}
    BY DEF FormSound, FieldsFit
  <2> QED
    BY <1>0, <2>1, <2>2, <2>3 DEF FormSound, FieldsFit
<1>3. ASSUME NEW n \in DOMAIN calls, ShowFields(n) PROVE FormSound'
  <2> PICK t, d : t = calls[n].arg /\ d = IF Ok(n) THEN Data(n) ELSE None
    OBVIOUS
  <2>1. calls[n].kind = "fields"
    BY <1>3 DEF ShowFields, Tell, Finish
  <2>2. t \in Types /\ (Ok(n) => Data(n) = t)
    BY <2>1 DEF CallsSound, CallSound, Fine, Ok, Data
  <2>3. defs' = IF Ok(n) THEN [defs EXCEPT ![t] = t] ELSE defs
    BY <1>3, <2>2 DEF ShowFields
  <2>4. form' = [form EXCEPT !.fields = d]
    BY <1>3 DEF ShowFields
  <2>5. form' = [x \in {"type", "fields", "crossed"} |-> IF x = "fields" THEN d ELSE form[x]]
    BY <2>4 DEF FormSound, HasShape
  <2>6. HasShape(form', {"type", "fields", "crossed"}) /\ form'.type = form.type
        /\ form'.crossed = form.crossed /\ form'.fields = d
    BY <2>5 DEF HasShape
  <2>7. ~form.crossed => t = form.type
    BY <2>1 DEF FormSound
  <2>8. defs' = [u \in Types |-> defs'[u]] /\ \A u \in Types : defs'[u] \in {None, u}
    BY <2>3 DEF FormSound, FieldsFit
  <2> QED
    BY <1>0, <2>2, <2>6, <2>7, <2>8 DEF FormSound, FieldsFit
<1> QED
  BY <1>1, <1>2, <1>3, FormWriters

-----------------------------------------------------------------------------
(* Layers over the page *)

LEMMA InSeq ==
  ASSUME NEW s
  PROVE  Sequential(s) <=> \E S : s \in Seq(S)
<1>1. ASSUME Sequential(s) PROVE \E S : s \in Seq(S)
  <2> PICK S : S = {s[i] : i \in 1 .. Len(s)}
    OBVIOUS
  <2>1. s \in [1 .. Len(s) -> S] /\ Len(s) \in Nat
    BY <1>1 DEF Sequential
  <2>2. s \in Seq(S)
    BY <2>1
  <2> QED
    BY <2>2
<1>2. ASSUME NEW S, s \in Seq(S) PROVE Sequential(s)
  BY <1>2, LenProperties DEF Sequential
<1> QED
  BY <1>1, <1>2

LEMMA AppendFacts ==
  ASSUME NEW s, NEW x, Sequential(s)
  PROVE  /\ Sequential(Append(s, x)) /\ Len(Append(s, x)) = Len(s) + 1
         /\ \A i \in 1 .. Len(s) : Append(s, x)[i] = s[i]
         /\ Append(s, x)[Len(s) + 1] = x
<1> PICK S : s \in Seq(S)
  BY InSeq
<1> PICK T : T = S \cup {x}
  OBVIOUS
<1>1. s \in Seq(T) /\ x \in T
  BY SeqMonotonic
<1>2. /\ Append(s, x) \in Seq(T) /\ Len(Append(s, x)) = Len(s) + 1
      /\ \A i \in 1 .. Len(s) : Append(s, x)[i] = s[i]
      /\ Append(s, x)[Len(s) + 1] = x
  BY <1>1, AppendProperties
<1>3. Sequential(Append(s, x))
  BY <1>2, InSeq
<1> QED
  BY <1>2, <1>3

LEMMA PartFacts ==
  ASSUME NEW s, NEW m \in Nat \ {0}, NEW n \in Int, Sequential(s), n <= Len(s)
  PROVE  /\ Sequential(SubSeq(s, m, n))
         /\ Len(SubSeq(s, m, n)) = IF m <= n THEN n - m + 1 ELSE 0
         /\ \A i \in 1 .. n - m + 1 : SubSeq(s, m, n)[i] = s[m + i - 1]
<1> PICK S : s \in Seq(S)
  BY InSeq
<1>1. \A i \in m .. n : s[i] \in S
  <2>1. \A i \in m .. n : i \in 1 .. Len(s)
    BY DEF Sequential
  <2> QED
    BY <2>1, ElementOfSeq
<1>2. /\ SubSeq(s, m, n) \in Seq(S)
      /\ Len(SubSeq(s, m, n)) = IF m <= n THEN n - m + 1 ELSE 0
      /\ \A i \in 1 .. n - m + 1 : SubSeq(s, m, n)[i] = s[m + i - 1]
  BY <1>1, SubSeqProperties
<1>3. Sequential(SubSeq(s, m, n))
  BY <1>2, InSeq
<1> QED
  BY <1>2, <1>3

\* Without the element at k.
LEMMA RemoveFacts ==
  ASSUME NEW s, NEW k \in 1 .. Len(s), Sequential(s)
  PROVE  LET t == RemoveAt(s, k) IN
         /\ Sequential(t) /\ Len(t) = Len(s) - 1
         /\ \A i \in 1 .. Len(t) : t[i] = IF i < k THEN s[i] ELSE s[i + 1]
<1>0. Len(s) \in Nat /\ k \in Nat \ {0}
  BY DEF Sequential
<1>p. PICK a, b, t : a = SubSeq(s, 1, k - 1) /\ b = SubSeq(s, k + 1, Len(s)) /\ t = RemoveAt(s, k)
  OBVIOUS
<1>1. t = a \o b
  BY <1>p DEF RemoveAt
<1>2. /\ Sequential(a) /\ Len(a) = k - 1
      /\ \A i \in 1 .. k - 1 : a[i] = s[i]
  <2>1. /\ Sequential(a) /\ Len(a) = IF 1 <= k - 1 THEN k - 1 - 1 + 1 ELSE 0
        /\ \A i \in 1 .. k - 1 - 1 + 1 : a[i] = s[1 + i - 1]
    <3>1. k - 1 \in Int /\ k - 1 <= Len(s) /\ 1 \in Nat \ {0}
      BY <1>0
    <3> QED
      BY <3>1, <1>p, PartFacts
  <2> QED
    BY <1>0, <2>1
<1>3. /\ Sequential(b) /\ Len(b) = Len(s) - k
      /\ \A i \in 1 .. Len(s) - k : b[i] = s[k + i]
  <2>1. /\ Sequential(b) /\ Len(b) = IF k + 1 <= Len(s) THEN Len(s) - (k + 1) + 1 ELSE 0
        /\ \A i \in 1 .. Len(s) - (k + 1) + 1 : b[i] = s[(k + 1) + i - 1]
    BY <1>0, <1>p, PartFacts
  <2> QED
    BY <1>0, <2>1
<1> PICK A, B : a \in Seq(A) /\ b \in Seq(B)
  BY <1>2, <1>3, InSeq
<1> PICK S : S = A \cup B
  OBVIOUS
<1>4. a \in Seq(S) /\ b \in Seq(S)
  BY SeqMonotonic
<1>5. /\ t \in Seq(S) /\ Len(t) = Len(a) + Len(b)
      /\ \A i \in 1 .. Len(a) + Len(b) : t[i] = IF i <= Len(a) THEN a[i] ELSE b[i - Len(a)]
  BY <1>1, <1>4, ConcatProperties
<1>6. Sequential(t) /\ Len(t) = Len(s) - 1
  BY <1>0, <1>2, <1>3, <1>5, InSeq
<1>7. ASSUME NEW i \in 1 .. Len(t) PROVE t[i] = IF i < k THEN s[i] ELSE s[i + 1]
  <2>1. i \in Int /\ 1 <= i /\ i <= Len(s) - 1 /\ i \in 1 .. Len(a) + Len(b)
    BY <1>0, <1>2, <1>3, <1>6
  <2>2. CASE i < k
    <3>1. i \in 1 .. k - 1 /\ i <= Len(a)
      BY <1>0, <1>2, <2>1, <2>2
    <3> QED
      BY <1>2, <1>5, <2>1, <2>2, <3>1
  <2>3. CASE ~(i < k)
    <3>1. i - Len(a) \in 1 .. Len(s) - k /\ ~(i <= Len(a)) /\ k + (i - Len(a)) = i + 1
      BY <1>0, <1>2, <2>1, <2>3
    <3> QED
      BY <1>3, <1>5, <2>1, <2>3, <3>1
  <2> QED
    BY <2>2, <2>3
<1> QED
  BY <1>p, <1>6, <1>7

\* Without the last element.
LEMMA FrontFacts ==
  ASSUME NEW s, Sequential(s), s # <<>>
  PROVE  LET f == SubSeq(s, 1, Len(s) - 1) IN
         /\ Sequential(f) /\ Len(f) = Len(s) - 1 /\ Len(s) > 0
         /\ \A i \in 1 .. Len(f) : f[i] = s[i]
<1> PICK S : s \in Seq(S)
  BY InSeq
<1>1. Len(s) \in Nat \ {0}
  BY EmptySeq
<1>p. PICK f : f = SubSeq(s, 1, Len(s) - 1)
  OBVIOUS
<1>2. /\ Sequential(f) /\ Len(f) = IF 1 <= Len(s) - 1 THEN Len(s) - 1 - 1 + 1 ELSE 0
      /\ \A i \in 1 .. Len(s) - 1 - 1 + 1 : f[i] = s[1 + i - 1]
  BY <1>1, <1>p, PartFacts
<1>3. Len(f) = Len(s) - 1
  <2>1. PICK p, q : p = Len(s) /\ q = Len(f)
    OBVIOUS
  <2>2. p \in Nat \ {0} /\ q = IF 1 <= p - 1 THEN p - 1 - 1 + 1 ELSE 0
    BY <1>1, <1>2, <2>1
  <2>3. q = p - 1
    BY ONLY <2>2
  <2> QED
    BY <2>1, <2>3
<1>4. ASSUME NEW i \in 1 .. Len(f) PROVE f[i] = s[i]
  <2>1. i \in 1 .. Len(s) - 1 - 1 + 1 /\ 1 + i - 1 = i
    BY <1>1, <1>3
  <2> QED
    BY <1>2, <2>1
<1> QED
  BY <1>p, <1>1, <1>2, <1>3, <1>4

-----------------------------------------------------------------------------
(* Receipts *)

LEMMA ReceiptWriters ==
  ASSUME [Next]_vars
  PROVE  \/ UNCHANGED financeVars
         \/ CloseReceipt \/ PrintReceipt
         \/ \E n \in DOMAIN calls : ShowReceipt(n)
<1>1. CASE FinanceStep
  BY <1>1 DEF FinanceStep, CreateContract, PostPayment, DownloadExport, OpenReceipt
<1>2. ASSUME NEW n \in DOMAIN calls, FinanceCallback(n)
      PROVE  UNCHANGED financeVars \/ ShowReceipt(n)
  BY <1>2 DEF FinanceCallback, ShowContracts, ContractCreated, ShowInvoices, PaymentPosted,
              ExportDownloaded
<1>3. ASSUME NEW n \in DOMAIN calls, ServeFinance(n)
      PROVE  UNCHANGED financeVars
  BY <1>3 DEF ServeFinance
<1>4. UNCHANGED NotMessaging \/ UNCHANGED NotEntities \/ UNCHANGED NotAdmin \/ UNCHANGED NotPage
      \/ UNCHANGED vars
        => UNCHANGED financeVars
  BY DEF NotMessaging, NotEntities, NotAdmin, NotPage, vars, financeVars
<1> QED
  BY <1>1, <1>2, <1>3, <1>4 DEF Next, UserStep, Navigate, Callback, Serve

LEMMA NextReceipts ==
  ASSUME ReceiptsSound, [Next]_vars
  PROVE  ReceiptsSound'
<1>0. Len(receipts) \in Nat /\ receipts = [i \in 1 .. Len(receipts) |-> receipts[i]]
  BY DEF ReceiptsSound, Sequential
<1>1. CASE UNCHANGED financeVars
  BY <1>1 DEF financeVars, ReceiptsSound, PrintedIsShown
<1>2. CASE CloseReceipt
  <2> PICK f : f = SubSeq(receipts, 1, Len(receipts) - 1)
    OBVIOUS
  <2>1. receipts # <<>> /\ receipts' = f /\ printed' = printed
    BY <1>2 DEF CloseReceipt
  <2>2. /\ Sequential(f) /\ Len(f) = Len(receipts) - 1 /\ Len(receipts) > 0
        /\ \A i \in 1 .. Len(f) : f[i] = receipts[i]
    BY <2>1, FrontFacts DEF ReceiptsSound
  <2>3. DOMAIN f = 1 .. Len(f) /\ DOMAIN receipts = 1 .. Len(receipts)
    BY <1>0, <2>2 DEF Sequential
  <2>4. ASSUME NEW j \in DOMAIN f
        PROVE  HasShape(f[j], {"invoice", "alone"}) /\ ~f[j].alone
    <3>1. j \in DOMAIN receipts /\ f[j] = receipts[j] /\ Len(receipts) # 1
      BY <1>0, <2>2, <2>3
    <3> QED
      BY <3>1 DEF ReceiptsSound
  <2> QED
    BY <2>1, <2>2, <2>4 DEF ReceiptsSound, PrintedIsShown
<1>3. CASE PrintReceipt
  <2>1. receipts' = receipts /\ printed' = [shown |-> Top.invoice, alone |-> Top.alone,
                                            paper |-> receipts[1].invoice]
    BY <1>3 DEF PrintReceipt
  <2>2. Len(receipts) \in DOMAIN receipts
    <3>1. Len(receipts) # 0
      BY <1>0, <1>3 DEF PrintReceipt
    <3> QED
      BY <1>0, <3>1
  <2>3. Top.alone => receipts[1] = Top
    BY <2>2 DEF ReceiptsSound, Top
  <2>4. printed'.shown = Top.invoice /\ printed'.alone = Top.alone
        /\ printed'.paper = receipts[1].invoice
    BY <2>1
  <2> QED
    BY <2>1, <2>3, <2>4 DEF ReceiptsSound, PrintedIsShown
<1>4. ASSUME NEW n \in DOMAIN calls, ShowReceipt(n) PROVE ReceiptsSound'
  <2> PICK old, new, invoice :
        /\ invoice = calls[n].arg
        /\ old = [j \in DOMAIN receipts |-> [receipts[j] EXCEPT !.alone = FALSE]]
        /\ new = [invoice |-> invoice, alone |-> receipts = <<>>]
    OBVIOUS
  <2>1. printed' = printed /\ receipts' = IF Ok(n) THEN Append(old, new) ELSE receipts
    BY <1>4 DEF ShowReceipt
  <2>2. CASE receipts' = receipts
    BY <2>1, <2>2 DEF ReceiptsSound, PrintedIsShown
  <2>3. CASE receipts' = Append(old, new)
    <3>1. old = [j \in 1 .. Len(receipts) |-> old[j]] /\ DOMAIN receipts = 1 .. Len(receipts)
      BY <1>0
    <3>2. Sequential(old) /\ Len(old) = Len(receipts)
      BY <1>0, <3>1 DEF Sequential
    <3>3. PICK all : all = Append(old, new)
      OBVIOUS
    <3>4. /\ Sequential(all) /\ Len(all) = Len(old) + 1 /\ all[Len(old) + 1] = new
          /\ \A j \in 1 .. Len(old) : all[j] = old[j]
      BY <3>2, <3>3, AppendFacts
    <3>5. ASSUME NEW j \in 1 .. Len(old)
          PROVE  HasShape(old[j], {"invoice", "alone"}) /\ ~old[j].alone
      <4> PICK r : r = receipts[j]
        OBVIOUS
      <4>1. HasShape(r, {"invoice", "alone"})
        BY <3>1, <3>2 DEF ReceiptsSound
      <4>2. old[j] = [r EXCEPT !.alone = FALSE]
        BY <3>1, <3>2
      <4>3. old[j] = [x \in {"invoice", "alone"} |-> IF x = "alone" THEN FALSE ELSE r[x]]
        BY <4>1, <4>2 DEF HasShape
      <4> QED
        BY <4>3 DEF HasShape
    <3>6. HasShape(new, {"invoice", "alone"}) /\ (new.alone => Len(old) = 0)
      BY <1>0, <3>2 DEF HasShape
    <3>7. DOMAIN all = 1 .. Len(all) /\ Len(old) \in Nat
      BY <1>0, <3>2, <3>4 DEF Sequential
    <3>8. ASSUME NEW j \in DOMAIN all
          PROVE  HasShape(all[j], {"invoice", "alone"}) /\ (all[j].alone => Len(all) = 1)
      <4>1. j \in 1 .. Len(old) \/ j = Len(old) + 1
        BY <3>4, <3>7
      <4>2. CASE j \in 1 .. Len(old)
        BY <3>4, <3>5, <4>2
      <4>3. CASE j = Len(old) + 1
        BY <3>4, <3>6, <3>7, <4>3
      <4> QED
        BY <4>1, <4>2, <4>3
    <3> QED
      BY <2>1, <2>3, <3>3, <3>4, <3>8 DEF ReceiptsSound, PrintedIsShown
  <2> QED
    BY <2>1, <2>2, <2>3
<1> QED
  BY <1>1, <1>2, <1>3, <1>4, ReceiptWriters

-----------------------------------------------------------------------------
(* The guided merge *)

LEMMA MinFacts ==
  ASSUME NEW T, T \subseteq Nat, T # {}
  PROVE  Min(T) \in T
<1>1. PICK R : R = OpToRel(<, Nat)
  OBVIOUS
<1>2. IsWellFoundedOn(R, Nat)
  BY <1>1, NatLessThanWellFounded
<1>3. PICK x \in T : \A y \in T : ~ (<<y, x>> \in R)
  BY <1>2, WFMin
<1>4. ASSUME NEW y \in T PROVE x =< y
  <2>1. x \in Nat /\ y \in Nat /\ ~ (<<y, x>> \in R)
    BY <1>3
  <2>2. y < x => <<y, x>> \in R
    BY <1>1, <2>1 DEF OpToRel
  <2> QED
    BY <2>1, <2>2
<1> QED
  BY <1>4 DEF Min

\* What the merge dialogs of a layer d must be like.
MergeSound(d, only) ==
  /\ HasShape(d, MergeFields) /\ Sequential(d.hears)
  /\ d.alone => only /\ d.chosen /\ \A h \in DOMAIN d.hears : Pair(d.hears[h]) = Pair(d)

LEMMA DialogsByParts ==
  DialogsSound <=>
    /\ Sequential(dialogs)
    /\ \A i \in MergeDialogs : MergeSound(dialogs[i], MergeDialogs = {i})
  BY DEF DialogsSound, MergeSound

\* The layers, one by one, are what they were, or merge dialogs with the same
\* listeners.
LEMMA DialogsMapped ==
  ASSUME DialogsSound, dialogs' = [i \in DOMAIN dialogs |-> dialogs'[i]],
         \A i \in DOMAIN dialogs : ~IsMerge(dialogs[i]) => dialogs'[i] = dialogs[i],
         \A i \in MergeDialogs :
           /\ HasShape(dialogs'[i], MergeFields)
           /\ \A x \in MergeFields \ {"off", "done"} : dialogs'[i][x] = dialogs[i][x]
  PROVE  DialogsSound'
<1>1. \A i \in DOMAIN dialogs : IsMerge(dialogs'[i]) <=> IsMerge(dialogs[i])
  BY DEF MergeDialogs, IsMerge, MergeFields
<1>2. DOMAIN dialogs' = DOMAIN dialogs /\ MergeDialogs' = MergeDialogs
  BY <1>1 DEF MergeDialogs
<1>3. Sequential(dialogs')
  BY <1>2 DEF DialogsSound, Sequential
<1>4. ASSUME NEW i \in MergeDialogs
      PROVE  MergeSound(dialogs'[i], MergeDialogs' = {i})
  <2> PICK d, e : d = dialogs[i] /\ e = dialogs'[i]
    OBVIOUS
  <2>1. MergeSound(d, MergeDialogs = {i})
    BY DialogsByParts
  <2>2. HasShape(e, MergeFields) /\ e.hears = d.hears /\ e.alone = d.alone /\ e.chosen = d.chosen
        /\ e.source = d.source /\ e.target = d.target
    BY DEF MergeFields
  <2>3. Pair(e) = Pair(d)
    BY <2>2 DEF Pair
  <2>4. MergeSound(e, MergeDialogs = {i})
    BY <2>1, <2>2, <2>3 DEF MergeSound
  <2> QED
    BY <1>2, <2>4
<1> QED
  BY <1>2, <1>3, <1>4 DEF DialogsSound, MergeSound

\* One more layer that is no merge dialog.
LEMMA ViewOpens ==
  ASSUME DialogsSound, NEW view, ~IsMerge(view), dialogs' = Append(dialogs, view)
  PROVE  DialogsSound'
<1>1. /\ Sequential(dialogs') /\ Len(dialogs') = Len(dialogs) + 1
      /\ \A i \in 1 .. Len(dialogs) : dialogs'[i] = dialogs[i]
      /\ dialogs'[Len(dialogs) + 1] = view
  BY AppendFacts DEF DialogsSound
<1>2. Len(dialogs) \in Nat /\ DOMAIN dialogs = 1 .. Len(dialogs) /\ DOMAIN dialogs' = 1 .. Len(dialogs')
  BY <1>1 DEF DialogsSound, Sequential
<1>3. \A i \in DOMAIN dialogs' : i \in DOMAIN dialogs \/ i = Len(dialogs) + 1
  BY <1>1, <1>2
<1>4. \A i \in DOMAIN dialogs : i \in DOMAIN dialogs'
  BY <1>1, <1>2
<1>5. MergeDialogs' = MergeDialogs
  BY <1>1, <1>2, <1>3, <1>4 DEF MergeDialogs
<1>6. \A i \in MergeDialogs : dialogs'[i] = dialogs[i]
  BY <1>1, <1>2 DEF MergeDialogs
<1>7. ASSUME NEW i \in MergeDialogs PROVE MergeSound(dialogs'[i], MergeDialogs' = {i})
  BY <1>5, <1>6, DialogsByParts
<1> QED
  BY <1>1, <1>5, <1>7 DEF DialogsSound, MergeSound

LEMMA DialogCloses ==
  ASSUME DialogsSound, NEW k \in DOMAIN dialogs, dialogs' = RemoveAt(dialogs, k)
  PROVE  DialogsSound'
<1> PICK p : p = Len(dialogs)
  OBVIOUS
<1>1. p \in Nat /\ DOMAIN dialogs = 1 .. p /\ k \in 1 .. p
  BY DEF DialogsSound, Sequential
<1>2. /\ Sequential(dialogs') /\ Len(dialogs') = p - 1
      /\ \A i \in 1 .. Len(dialogs') : dialogs'[i] = IF i < k THEN dialogs[i] ELSE dialogs[i + 1]
  BY <1>1, RemoveFacts DEF DialogsSound
<1>3. DOMAIN dialogs' = 1 .. p - 1
  BY <1>2 DEF Sequential
<1> DEFINE From(i) == IF i < k THEN i ELSE i + 1
<1>4. ASSUME NEW i \in DOMAIN dialogs'
      PROVE  From(i) \in DOMAIN dialogs /\ dialogs'[i] = dialogs[From(i)]
  BY <1>1, <1>2, <1>3
<1>5. ASSUME NEW i \in DOMAIN dialogs', NEW j \in DOMAIN dialogs', From(i) = From(j)
      PROVE  i = j
  BY <1>1, <1>3, <1>5
<1> HIDE DEF From
<1>6. ASSUME NEW i \in MergeDialogs'
      PROVE  MergeSound(dialogs'[i], MergeDialogs' = {i})
  <2>0. i \in DOMAIN dialogs' /\ IsMerge(dialogs'[i])
    BY DEF MergeDialogs
  <2>1. From(i) \in MergeDialogs /\ dialogs'[i] = dialogs[From(i)]
    BY <1>4, <2>0 DEF MergeDialogs
  <2>2. MergeSound(dialogs'[i], MergeDialogs = {From(i)})
    BY <2>1, DialogsByParts
  <2>3. ASSUME MergeDialogs = {From(i)}, NEW j \in MergeDialogs'
        PROVE  j = i
    <3>1. j \in DOMAIN dialogs' /\ IsMerge(dialogs'[j])
      BY DEF MergeDialogs
    <3>2. From(j) \in MergeDialogs
      BY <1>4, <3>1 DEF MergeDialogs
    <3> QED
      BY <1>5, <2>0, <2>3, <3>1, <3>2
  <2>4. MergeDialogs = {From(i)} => MergeDialogs' = {i}
    BY <2>3
  <2> QED
    BY <2>2, <2>4 DEF MergeSound
<1> QED
  BY <1>2, <1>6 DEF DialogsSound, MergeSound

LEMMA MergeOpens ==
  ASSUME DialogsSound, NEW n, ShowMerge(n)
  PROVE  DialogsSound'
<1>p. PICK source, listener, new, open, all, first :
        /\ listener = [source |-> source, target |-> Other(source), dialog |-> n]
        /\ new = [kind |-> "merge", number |-> n, source |-> source, target |-> Other(source),
                  chosen |-> TRUE, off |-> FALSE, done |-> FALSE, alone |-> MergeDialogs = {}, hears |-> <<>>]
        /\ open = [i \in DOMAIN dialogs |->
                     IF IsMerge(dialogs[i])
                       THEN [dialogs[i] EXCEPT !.chosen = FALSE, !.alone = FALSE] ELSE dialogs[i]]
        /\ all = Append(open, new)
        /\ first = SelectInSeq(all, IsMerge)
        /\ dialogs' = IF Ok(n) THEN [all EXCEPT ![first].hears = Append(@, listener)] ELSE dialogs
  BY DEF ShowMerge
<1>0. Len(dialogs) \in Nat /\ DOMAIN dialogs = 1 .. Len(dialogs)
  BY DEF DialogsSound, Sequential
<1>1. CASE ~Ok(n)
  BY <1>1, <1>p DEF DialogsSound, MergeDialogs
<1>2. CASE Ok(n)
  <2> PICK p : p = Len(dialogs)
    OBVIOUS
  <2>1. Sequential(open) /\ Len(open) = p
    <3>1. open = [i \in 1 .. p |-> open[i]] /\ p \in Nat
      BY <1>p, <1>0
    <3> QED
      BY <3>1 DEF Sequential
  <2>2. /\ Sequential(all) /\ Len(all) = p + 1 /\ all[p + 1] = new
        /\ \A i \in 1 .. p : all[i] = open[i]
    <3>1. all = Append(open, new)
      BY <1>p
    <3> QED
      BY <2>1, <3>1, AppendFacts
  <2>3. DOMAIN all = 1 .. p + 1 /\ p + 1 \in DOMAIN all /\ p \in Nat
    BY <1>0, <2>2 DEF Sequential
  <2>4. /\ HasShape(new, MergeFields) /\ IsMerge(new) /\ new.hears = <<>> /\ new.chosen
        /\ new.alone = (MergeDialogs = {}) /\ Pair(new) = Pair(listener)
    BY <1>p DEF HasShape, MergeFields, IsMerge, Pair
  <2>5. ASSUME NEW i \in 1 .. p, IsMerge(all[i])
        PROVE  i \in MergeDialogs /\ HasShape(all[i], MergeFields) /\ Sequential(all[i].hears) /\ ~all[i].alone
    <3>1. PICK d : d = dialogs[i]
      OBVIOUS
    <3>2. all[i] = IF IsMerge(d) THEN [d EXCEPT !.chosen = FALSE, !.alone = FALSE] ELSE d
      BY <1>p, <1>0, <2>2, <3>1
    <3>3. IsMerge(d)
      BY <2>5, <3>2
    <3>4. i \in MergeDialogs
      BY <1>0, <3>1, <3>3 DEF MergeDialogs
    <3>5. HasShape(d, MergeFields) /\ Sequential(d.hears)
      BY <3>1, <3>4 DEF DialogsSound
    <3>6. all[i] = [x \in MergeFields |-> IF x = "alone" THEN FALSE ELSE
                                            IF x = "chosen" THEN FALSE ELSE d[x]]
      BY <3>2, <3>3, <3>5 DEF HasShape, MergeFields
    <3> QED
      BY <3>4, <3>5, <3>6 DEF HasShape, MergeFields
  <2>6. \A i \in DOMAIN all : i \in 1 .. p \/ i = p + 1
    BY <2>3
  <2>7. first \in DOMAIN all /\ IsMerge(all[first])
    <3> PICK I : I = {i \in 1 .. Len(all) : IsMerge(all[i])}
      OBVIOUS
    <3>1. p + 1 \in I /\ I \subseteq Nat
      BY <2>2, <2>3, <2>4
    <3>2. Min(I) \in I
      BY <3>1, MinFacts
    <3>3. first = Min(I)
      BY <1>p, <3>1 DEF SelectInSeq
    <3> QED
      BY <2>2, <2>3, <3>2, <3>3
  <2>8. /\ HasShape(all[first], MergeFields) /\ Sequential(all[first].hears)
        /\ all[first].alone => first = p + 1 /\ all[first] = new
    BY <2>2, <2>3, <2>4, <2>5, <2>6, <2>7, Singletons
  <2> PICK d, hears, e :
        d = all[first] /\ hears = Append(d.hears, listener) /\ e = [d EXCEPT !.hears = hears]
    OBVIOUS
  <2>9. dialogs' = [i \in DOMAIN all |-> IF i = first THEN e ELSE all[i]]
    <3>1. all = [i \in DOMAIN all |-> all[i]]
      BY <2>2, <2>3 DEF Sequential
    <3>2. dialogs' = [all EXCEPT ![first].hears = Append(@, listener)]
      BY <1>2, <1>p
    <3> QED
      BY <2>7, <3>1, <3>2
  <2>10. e = [x \in MergeFields |-> IF x = "hears" THEN hears ELSE d[x]]
    BY <2>8 DEF HasShape, MergeFields
  <2>11. /\ HasShape(e, MergeFields) /\ IsMerge(e) /\ e.hears = hears /\ e.alone = d.alone
         /\ e.chosen = d.chosen /\ Pair(e) = Pair(d)
    BY <2>7, <2>10 DEF HasShape, MergeFields, IsMerge, Pair
  <2>12. /\ Sequential(hears) /\ Len(hears) = Len(d.hears) + 1
         /\ hears[Len(d.hears) + 1] = listener
    BY <2>8, AppendFacts
  <2>13. d = new => DOMAIN hears = {1} /\ hears[1] = listener
    <3>1. d = new => Len(d.hears) = 0
      BY <2>4, Singletons
    <3>2. d = new => Len(hears) = 1 /\ hears[1] = listener
      BY <2>12, <3>1
    <3>3. DOMAIN hears = 1 .. Len(hears)
      BY <2>12 DEF Sequential
    <3> QED
      BY <3>2, <3>3
  <2>14. DOMAIN dialogs' = DOMAIN all /\ \A i \in DOMAIN all : IsMerge(dialogs'[i]) <=> IsMerge(all[i])
    BY <2>7, <2>9, <2>11
  <2>15. Sequential(dialogs')
    BY <2>2, <2>3, <2>9, <2>14 DEF Sequential
  <2>16. MergeDialogs' \subseteq DOMAIN all /\ (MergeDialogs = {} => MergeDialogs' = {p + 1})
    <3>1. ASSUME MergeDialogs = {}, NEW i \in MergeDialogs' PROVE i = p + 1
      <4>1. i \in DOMAIN all /\ IsMerge(all[i])
        BY <2>14 DEF MergeDialogs
      <4> QED
        BY <2>5, <2>6, <3>1, <4>1
    <3>2. p + 1 \in MergeDialogs'
      BY <2>2, <2>3, <2>4, <2>14 DEF MergeDialogs
    <3> QED
      BY <2>14, <3>1, <3>2 DEF MergeDialogs
  <2>17. ASSUME NEW i \in MergeDialogs'
         PROVE  MergeSound(dialogs'[i], MergeDialogs' = {i})
    <3>0. i \in DOMAIN all /\ IsMerge(all[i])
      BY <2>14 DEF MergeDialogs
    <3>1. CASE i = first
      <4>1. dialogs'[i] = e
        BY <2>9, <3>0, <3>1
      <4>2. e.alone => /\ d = new /\ i = p + 1 /\ MergeDialogs = {}
                       /\ e.chosen /\ Pair(e) = Pair(listener)
        BY <2>4, <2>8, <2>11, <3>1
      <4>3. MergeSound(e, MergeDialogs' = {i})
        BY <2>11, <2>12, <2>13, <2>16, <4>2 DEF MergeSound
      <4> QED
        BY <4>1, <4>3
    <3>2. CASE i # first /\ i = p + 1
      <4>1. dialogs'[i] = new
        BY <2>2, <2>9, <3>0, <3>2
      <4>2. ~new.alone
        BY <2>4, <2>5, <2>6, <2>7, <3>2
      <4>3. MergeSound(new, MergeDialogs' = {i})
        BY <2>4, <4>2, Singletons DEF MergeSound
      <4> QED
        BY <4>1, <4>3
    <3>3. CASE i # first /\ i \in 1 .. p
      <4>1. dialogs'[i] = all[i]
        BY <2>9, <3>0, <3>3
      <4>2. MergeSound(all[i], MergeDialogs' = {i})
        BY <2>5, <3>0, <3>3 DEF MergeSound
      <4> QED
        BY <4>1, <4>2
    <3> QED
      BY <2>6, <3>0, <3>1, <3>2, <3>3
  <2> QED
    BY <2>15, <2>17 DEF DialogsSound, MergeSound
<1> QED
  BY <1>1, <1>2

LEMMA DialogWriters ==
  ASSUME [Next]_vars
  PROVE  \/ UNCHANGED dialogs
         \/ ExecuteMerge \/ \E i \in DOMAIN dialogs : CloseDialog(i)
         \/ \E n \in DOMAIN calls : ShowEntity(n) \/ ShowMerge(n) \/ Merged(n)
<1>1. CASE EntitiesStep
  BY <1>1 DEF EntitiesStep, ViewEntity, SelectType, CreateEntity, OpenMerge, SubmitVerification,
              ApproveVerif, RejectVerif, entityVars
<1>2. ASSUME NEW n \in DOMAIN calls, EntitiesCallback(n)
      PROVE  UNCHANGED dialogs \/ ShowEntity(n) \/ ShowMerge(n) \/ Merged(n)
  BY <1>2 DEF EntitiesCallback, ShowEntities, ShowFields, EntityCreated, LoadPair,
              ShowMyVerification, VerificationSubmitted, ScanFailed, ShowVerifications, VerifApproved,
              VerifRejected, entityVars
<1>3. ASSUME NEW n \in DOMAIN calls, ServeEntities(n)
      PROVE  UNCHANGED dialogs
  BY <1>3 DEF ServeEntities, entityVars
<1>4. UNCHANGED NotMessaging \/ UNCHANGED NotFinance \/ UNCHANGED NotAdmin \/ UNCHANGED NotPage
      \/ UNCHANGED vars
        => UNCHANGED dialogs
  BY DEF NotMessaging, NotFinance, NotAdmin, NotPage, vars, entityVars
<1> QED
  BY <1>1, <1>2, <1>3, <1>4 DEF Next, UserStep, Navigate, Callback, Serve

LEMMA NextDialogs ==
  ASSUME DialogsSound, [Next]_vars
  PROVE  DialogsSound'
<1>0. Len(dialogs) \in Nat /\ DOMAIN dialogs = 1 .. Len(dialogs)
      /\ dialogs = [i \in DOMAIN dialogs |-> dialogs[i]]
  BY DEF DialogsSound, Sequential
<1>1. CASE UNCHANGED dialogs
  BY <1>1 DEF DialogsSound, MergeDialogs
<1>2. CASE ExecuteMerge
  <2> PICK off, top : /\ top = Len(dialogs)
                      /\ dialogs' = [dialogs EXCEPT ![top].off = off]
    BY <1>2 DEF ExecuteMerge
  <2>1. PICK d, e : d = dialogs[top] /\ e = [d EXCEPT !.off = off]
    OBVIOUS
  <2>2. top \in DOMAIN dialogs /\ IsMerge(d)
    <3>1. IsMerge(d) /\ dialogs # <<>>
      BY <1>2, <2>1 DEF ExecuteMerge, Last
    <3>2. top # 0
      BY <1>0, <3>1
    <3> QED
      BY <1>0, <3>1, <3>2
  <2>3. HasShape(d, MergeFields)
    BY <2>1, <2>2 DEF DialogsSound, MergeDialogs
  <2>4. e = [x \in MergeFields |-> IF x = "off" THEN off ELSE d[x]]
    BY <2>1, <2>3 DEF HasShape, MergeFields
  <2>5. HasShape(e, MergeFields) /\ \A x \in MergeFields \ {"off", "done"} : e[x] = d[x]
    BY <2>4 DEF HasShape, MergeFields
  <2>6. dialogs' = [i \in DOMAIN dialogs |-> IF i = top THEN e ELSE dialogs[i]]
    BY <1>0, <2>1, <2>2
  <2>7. \A i \in MergeDialogs : HasShape(dialogs[i], MergeFields) /\ i \in DOMAIN dialogs
    BY DEF DialogsSound, MergeDialogs
  <2> QED
    BY <2>1, <2>2, <2>5, <2>6, <2>7, DialogsMapped
<1>3. ASSUME NEW i \in DOMAIN dialogs, CloseDialog(i) PROVE DialogsSound'
  BY <1>3, DialogCloses DEF CloseDialog
<1>4. ASSUME NEW n \in DOMAIN calls, ShowEntity(n) PROVE DialogsSound'
  <2> PICK view : view = [kind |-> "view", entity |-> calls[n].arg, merge |-> Data(n)]
    OBVIOUS
  <2>1. ~IsMerge(view)
    BY DEF IsMerge
  <2>2. dialogs' = Append(dialogs, view) \/ dialogs' = dialogs
    BY <1>4 DEF ShowEntity
  <2> QED
    BY <1>1, <2>1, <2>2, ViewOpens
<1>5. ASSUME NEW n \in DOMAIN calls, Merged(n) PROVE DialogsSound'
  <2>1. dialogs' = [i \in DOMAIN dialogs |->
                   IF IsMerge(dialogs[i])
                     THEN [dialogs[i] EXCEPT !.off = @ /\ dialogs[i].number # calls[n].arg.button,
                                             !.done = @ \/ (Ok(n) /\ dialogs[i].number = calls[n].arg.dialog)]
                     ELSE dialogs[i]]
    BY <1>5 DEF Merged
  <2>2. ASSUME NEW i \in MergeDialogs
        PROVE  /\ HasShape(dialogs'[i], MergeFields)
               /\ \A x \in MergeFields \ {"off", "done"} : dialogs'[i][x] = dialogs[i][x]
    <3> PICK d, off, done :
          /\ d = dialogs[i] /\ off = (d.off /\ d.number # calls[n].arg.button)
          /\ done = (d.done \/ (Ok(n) /\ d.number = calls[n].arg.dialog))
      OBVIOUS
    <3>1. i \in DOMAIN dialogs /\ IsMerge(d) /\ HasShape(d, MergeFields)
      BY DEF MergeDialogs, DialogsSound
    <3>2. dialogs'[i] = [d EXCEPT !.off = off, !.done = done]
      BY <2>1, <3>1
    <3>3. dialogs'[i] = [x \in MergeFields |-> IF x = "done" THEN done ELSE IF x = "off" THEN off ELSE d[x]]
      BY <3>1, <3>2 DEF HasShape, MergeFields
    <3> QED
      BY <3>3 DEF HasShape, MergeFields
  <2>3. \A i \in DOMAIN dialogs : ~IsMerge(dialogs[i]) => dialogs'[i] = dialogs[i]
    BY <2>1
  <2>4. dialogs' = [i \in DOMAIN dialogs |-> dialogs'[i]]
    BY <2>1
  <2> QED
    BY <2>2, <2>3, <2>4, DialogsMapped
<1> QED
  BY <1>1, <1>2, <1>3, <1>4, <1>5, MergeOpens, DialogWriters

-----------------------------------------------------------------------------
(* The page is loaded *)

LEMMA InitArea ==
  ASSUME Init
  PROVE  /\ area \in DOMAIN Menu /\ section \in Menu[area] /\ section \in Loads
         /\ section # "messages" /\ section \in Lists /\ section \in Tables
<1>1. area \in DOMAIN Menu /\ section \in Menu[area]
  BY AreasAssumption DEF Init
<1>2. section \in Loads /\ section # "messages"
  BY <1>1, MenuFacts
<1> QED
  BY <1>1, <1>2 DEF Lists, Tables

\* The list of the section, and for two of them one more call.
LEMMA InitCalls ==
  ASSUME Init
  PROVE  /\ sent \in Nat /\ sent >= 1 /\ calls = [n \in DOMAIN calls |-> calls[n]]
         /\ \A n \in DOMAIN calls :
              /\ n \in 1 .. sent /\ CallSound(calls[n]) /\ calls[n].reply = None
              /\ \/ n = 1 /\ calls[n].kind = section /\ calls[n].of = section
                 \/ calls[n].kind \in {"fields", "healthCheck"}
              /\ calls[n].kind = "fields" => calls[n].arg = form.type
<1>p. PICK c, d, h, s, t, st :
        /\ c = Fetch(section, section, None) /\ d = Fetch("fields", "entities", form.type)
        /\ h = Fetch("healthCheck", "health", None)
        /\ s = <<c>> /\ st = s \o t
        /\ t = <<>> \/ t = <<d>> \/ t = <<h>>
        /\ calls = st /\ sent = Len(st)
  <2>1. CASE area = "profiles"
    BY <2>1 DEF Init, PageInit
  <2>2. CASE area = "system"
    BY <2>2 DEF Init, PageInit, PerformHealthCheck
  <2>3. CASE area \notin {"profiles", "system"}
    BY <2>3 DEF Init, PageInit
  <2> QED
    BY <2>1, <2>2, <2>3
<1>1. /\ CallSound(c) /\ c.kind = section /\ c.of = section /\ c.reply = None
      /\ section \notin {"fields", "healthCheck"}
  <2>1. section \in Loads
    BY InitArea
  <2>2. section \notin DOMAIN Home /\ section \notin {"fields", "send", "merge", "healthCheck"}
    BY <2>1, LoadsListed, HomeListed
  <2> QED
    BY <1>p, <2>2, SoundFetch, FetchFacts
<1>2. CallSound(d) /\ d.kind = "fields" /\ d.arg = form.type /\ d.reply = None
  <2>1. form.type \in Types
    BY DEF Init, EntitiesInit
  <2> QED
    BY <1>p, <2>1, SoundFetch, FetchFacts, HomeListed
<1>3. CallSound(h) /\ h.kind = "healthCheck" /\ h.reply = None
  BY <1>p, SoundFetch, FetchFacts, HomeListed
<1>4. s \in Seq({c, d, h}) /\ Len(s) = 1 /\ s[1] = c
  BY <1>p
<1>5. t \in Seq({c, d, h}) /\ Len(t) \in {0, 1} /\ (Len(t) = 1 => t[1] \in {d, h})
  <2>1. CASE t = <<>>
    BY <2>1
  <2>2. CASE t = <<d>>
    BY <2>2
  <2>3. CASE t = <<h>>
    BY <2>3
  <2> QED
    BY <1>p, <2>1, <2>2, <2>3
<1>6. /\ st \in Seq({c, d, h}) /\ Len(st) = 1 + Len(t)
      /\ \A i \in 1 .. 1 + Len(t) : st[i] = IF i <= 1 THEN s[i] ELSE t[i - 1]
  <2>1. s \o t \in Seq({c, d, h}) /\ Len(s \o t) = Len(s) + Len(t)
        /\ \A i \in 1 .. Len(s) + Len(t) : (s \o t)[i] = IF i <= Len(s) THEN s[i] ELSE t[i - Len(s)]
    BY <1>4, <1>5, ConcatProperties
  <2>2. st = s \o t
    BY <1>p
  <2> QED
    BY <1>4, <2>1, <2>2
<1>7. Len(st) \in Nat /\ Len(st) >= 1 /\ st = [n \in DOMAIN st |-> st[n]] /\ DOMAIN st = 1 .. Len(st)
  <2>1. st = [n \in 1 .. Len(st) |-> st[n]]
    BY <1>6, InSeq DEF Sequential
  <2> QED
    BY <1>5, <1>6, <2>1
<1>8. ASSUME NEW n \in DOMAIN st
      PROVE  (n = 1 /\ st[n] = c) \/ st[n] \in {d, h}
  <2>1. n = 1 \/ (n = 2 /\ Len(t) = 1)
    BY <1>5, <1>6, <1>7
  <2>2. CASE n = 1
    BY <1>4, <1>5, <1>6, <2>2
  <2>3. CASE n = 2 /\ Len(t) = 1
    <3>1. n \in 1 .. 1 + Len(t) /\ ~(n <= 1) /\ n - 1 = 1
      BY <2>3
    <3> QED
      BY <1>5, <1>6, <2>3, <3>1
  <2> QED
    BY <2>1, <2>2, <2>3
<1>9. calls = st /\ sent = Len(st)
  BY <1>p
<1>10. ASSUME NEW n \in DOMAIN st
       PROVE  /\ n \in 1 .. Len(st) /\ CallSound(st[n]) /\ st[n].reply = None
              /\ \/ n = 1 /\ st[n].kind = section /\ st[n].of = section
                 \/ st[n].kind \in {"fields", "healthCheck"}
              /\ st[n].kind = "fields" => st[n].arg = form.type
  BY <1>1, <1>2, <1>3, <1>7, <1>8
<1> QED
  BY <1>7, <1>9, <1>10

LEMMA InitInv ==
  ASSUME Init
  PROVE  PortalInv
<1>1. CallsSound
  BY InitCalls DEF CallsSound
<1>2. \A n \in DOMAIN calls : calls[n].kind \in Loads \cup {"fields", "healthCheck"} /\ ~Answered(n) /\ ~Ok(n)
  BY InitCalls, InitArea DEF Answered, Ok
<1>3. /\ faults = 0 /\ busy = {} /\ DOMAIN tries = {} /\ made = [t \in Tables |-> 0] /\ known = made
      /\ list = [l \in Lists |-> [asked |-> IF l = section THEN 1 ELSE 0, shown |-> 0, rows |-> None,
                               behind |-> FALSE]]
  BY DEF Init, PageInit
<1>4. ButtonsSound
  <2>1. \A n \in DOMAIN calls : calls[n].kind \notin Submits
    BY <1>2, LoadsListed DEF Submits
  <2> QED
    BY <1>2, <1>3, <2>1 DEF ButtonsSound, FaultsSound, BusySound, TriesSound
<1>5. TablesSound
  <2>1. \A n \in DOMAIN calls : calls[n].kind \notin Submits
    BY <1>2, LoadsListed DEF Submits
  <2> QED
    BY <1>2, <1>3, <2>1, InitArea DEF TablesSound
<1>6. ConvSound
  <2>1. conv = None
    BY DEF Init, MessagingInit
  <2>2. \A n \in DOMAIN calls : calls[n].kind \notin {"messages", "preflight", "read", "send", "recall"}
    <3>1. section \in Loads /\ section # "messages"
      BY InitArea
    <3>2. section \notin {"messages", "preflight", "read", "send", "recall"}
      BY <3>1, LoadsListed
    <3> QED
      BY <3>2, InitCalls
  <2>3. area = "messaging" => list["messages"].rows = None
    BY <1>3 DEF Lists
  <2> QED
    BY <2>1, <2>2, <2>3 DEF ConvSound
<1>7. RowsSound
  <2>1. list = [l \in Lists |-> list[l]]
    BY <1>3
  <2>2. ASSUME NEW l \in Lists
        PROVE  /\ HasShape(list[l], {"asked", "shown", "rows", "behind"})
               /\ list[l].asked \in 0 .. sent /\ list[l].shown \in 0 .. sent /\ list[l].rows = None
    <3> PICK r : r = [asked |-> IF l = section THEN 1 ELSE 0, shown |-> 0, rows |-> None,
                   behind |-> FALSE]
      OBVIOUS
    <3>1. list[l] = r
      BY <1>3
    <3>2. HasShape(r, {"asked", "shown", "rows", "behind"}) /\ r.asked \in {0, 1} /\ r.shown = 0 /\ r.rows = None
      BY DEF HasShape
    <3>3. 0 \in 0 .. sent /\ 1 \in 0 .. sent
      BY InitCalls
    <3> QED
      BY <3>1, <3>2, <3>3
  <2>3. ASSUME NEW n \in DOMAIN calls, calls[n].kind \in Lists
        PROVE  /\ calls[n].of \in Tables /\ calls[n].of = Subject(calls[n].kind) /\ ~Ok(n)
    <3>1. calls[n].kind \in Loads
      BY <2>3, InitArea, ListFacts
    <3>2. calls[n].kind \notin {"fields", "healthCheck"}
      BY <3>1, LoadsListed
    <3>3. calls[n].kind = section /\ calls[n].of = section
      BY <3>2, InitCalls
    <3> QED
      BY <1>2, <3>3, InitArea DEF Subject
  <2> QED
    BY <2>1, <2>2, <2>3 DEF RowsSound
<1>8. FormSound
  <2>1. form \in [type : Types, fields : {None}, crossed : {FALSE}] /\ defs = [t \in Types |-> None]
    BY DEF Init, EntitiesInit
  <2>2. /\ HasShape(form, {"type", "fields", "crossed"}) /\ form.type \in Types
        /\ form.fields = None
    BY <2>1 DEF HasShape
  <2>3. defs = [t \in Types |-> defs[t]] /\ \A t \in Types : defs[t] = None
    BY <2>1
  <2>4. \A n \in DOMAIN calls : calls[n].kind = "fields" => calls[n].arg = form.type
    BY InitCalls
  <2> QED
    BY <2>2, <2>3, <2>4 DEF FormSound, FieldsFit
<1>9. DialogsSound
  <2>1. dialogs = <<>>
    BY DEF Init, EntitiesInit
  <2>2. Sequential(dialogs) /\ MergeDialogs = {}
    <3>1. Sequential(dialogs) /\ Len(dialogs) = 0
      BY <2>1, Singletons
    <3>2. DOMAIN dialogs = 1 .. 0
      BY <3>1 DEF Sequential
    <3> QED
      BY <3>1, <3>2 DEF MergeDialogs
  <2> QED
    BY <2>2 DEF DialogsSound
<1>10. ReceiptsSound
  <2>1. receipts = <<>> /\ printed = [shown |-> None, paper |-> None, alone |-> TRUE]
    BY DEF Init, FinanceInit
  <2>2. Sequential(receipts) /\ DOMAIN receipts = {}
    <3>1. Sequential(receipts) /\ Len(receipts) = 0
      BY <2>1, Singletons
    <3>2. DOMAIN receipts = 1 .. 0
      BY <3>1 DEF Sequential
    <3> QED
      BY <3>1, <3>2
  <2>3. PrintedIsShown
    BY <2>1 DEF PrintedIsShown
  <2> QED
    BY <2>2, <2>3 DEF ReceiptsSound
<1> QED
  BY <1>1, <1>4, <1>5, <1>6, <1>7, <1>8, <1>9, <1>10 DEF PortalInv, ListsSound

LEMMA NextInv ==
  ASSUME PortalInv, [Next]_vars
  PROVE  PortalInv'
<1>0. CallsSound /\ ButtonsSound /\ ListsSound /\ TablesSound /\ FormSound /\ DialogsSound /\ ReceiptsSound
  BY DEF PortalInv, ListsSound
<1>1. CallsSound'
  BY <1>0, NextCalls
<1>2. ButtonsSound'
  BY <1>0, StepKinds, UserButtons, CallbackButtons, ServerButtons
<1>3. ListsSound'
  BY <1>0, NextTables, NextConv, NextRows DEF ListsSound
<1>4. FormSound'
  BY <1>0, NextForm
<1>5. DialogsSound' /\ ReceiptsSound'
  BY <1>0, NextDialogs, NextReceipts
<1> QED
  BY <1>1, <1>2, <1>3, <1>4, <1>5 DEF PortalInv

-----------------------------------------------------------------------------
(* Theorems *)

\* What stands behind all of them: the calls carry what was fit to be sent, a
\* button waits for one call, the newest load of a list is of what is open, and
\* a merge dialog or a receipt that was never covered hears only itself.
THEOREM PortalInvariant == Spec => []PortalInv
<1>1. Init => PortalInv
  BY InitInv
<1>2. PortalInv /\ [Next]_vars => PortalInv'
  BY NextInv
<1> QED
  BY <1>1, <1>2, PTL DEF Spec

\* However many calls are under way and whatever is typed meanwhile, a text that
\* the rules block leaves the page only if its check failed (submitMessage and
\* reader.onload of messaging.js use what was checked).
THEOREM PostsWhatWasChecked == Spec => []SentAsChecked
<1>1. PortalInv => SentAsChecked
  BY DEF PortalInv, CallsSound, CallSound, SentAsChecked
<1> QED
  BY <1>1, PortalInvariant, PTL

\* For any types: extraFieldDefs keeps definitions with the type they belong to,
\* and the form shows those of its type unless replies crossed (loadExtraFields
\* of entities.js).
THEOREM FormFits == Spec => []FieldsFit
<1>1. PortalInv => FieldsFit
  BY DEF PortalInv, FormSound
<1> QED
  BY <1>1, PortalInvariant, PTL

\* For any number of clicks and faults: a thing that is submitted until the page
\* says that it is done (its button is disabled during a call, app.js and the
\* submit handlers) is done at most once more than it was done without the page
\* being able to say so, which takes a lost answer, or an error after the change
\* as in PaymentService.php, whose COMMIT comes before the audit row.
THEOREM DoneOnce == Spec => []DoneOnceUnlessUntold
<1>1. ASSUME PortalInv, NEW k \in DOMAIN tries PROVE tries[k].done <= tries[k].untold + 1
  BY <1>1 DEF PortalInv, ButtonsSound, TriesSound, TrySound
<1>2. PortalInv => DoneOnceUnlessUntold
  BY <1>1 DEF DoneOnceUnlessUntold
<1> QED
  BY <1>2, PortalInvariant, PTL

\* Every disabled button has exactly one call whose callback enables it, but for
\* that of a broken upload of a scan (submitVerification of entities.js).
THEOREM ButtonsReturn == Spec => []ButtonsComeBack
<1>1. ASSUME PortalInv, NEW k \in busy
      PROVE  \/ Cardinality({n \in DOMAIN calls : calls[n].kind = k}) = 1
             \/ k = "submitVerification" /\ faults > 0
  <2>1. BusySound
    BY <1>1 DEF PortalInv, ButtonsSound
  <2>2. ASSUME NEW n \in DOMAIN calls, calls[n].kind = k
        PROVE  Cardinality({m \in DOMAIN calls : calls[m].kind = k}) = 1
    <3>1. k \in Submits
      BY <2>1 DEF BusySound
    <3>2. \A m \in DOMAIN calls : calls[m].kind = k => m = n
      BY <2>1, <2>2, <3>1 DEF BusySound
    <3>3. {m \in DOMAIN calls : calls[m].kind = k} = {n}
      BY <2>2, <3>2
    <3> QED
      BY <3>3, FS_Singleton
  <2> QED
    BY <2>1, <2>2 DEF BusySound
<1>2. PortalInv => ButtonsComeBack
  BY <1>1 DEF ButtonsComeBack
<1> QED
  BY <1>2, PortalInvariant, PTL

\* In whatever order replies come: when the newest load of a list is shown, it is
\* of what is open and has every change that the page has reported, but for the
\* profiles, contracts and payments announced since that load was asked for
\* (entities.js:254, finance.js:48, :97 do not load their list again).
THEOREM ListsTrue == Spec => []ListsAreTrue
<1>1. PortalInv => ListsAreTrue
  BY DEF PortalInv, ListsSound, RowsSound, Subject, UpToDate, ListsAreTrue, ListsUpToDate
<1> QED
  BY <1>1, PortalInvariant, PTL

\* For any number of merge dialogs and receipts that open over one another: what
\* is merged or printed is what the dialog in front shows, if it was alone.
THEOREM DialogsTrue == Spec => []DialogsActAsShown
<1>1. PortalInv => MergesAsShown
  BY DEF PortalInv, CallsSound, CallSound, MergesAsShown, Merges
<1>2. PortalInv => PrintedIsShown
  BY DEF PortalInv, ReceiptsSound
<1>3. PortalInv => DialogsActAsShown
  BY <1>1, <1>2 DEF DialogsActAsShown
<1> QED
  BY <1>3, PortalInvariant, PTL
=============================================================================
