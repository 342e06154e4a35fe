-------------------------------- MODULE Page --------------------------------
(***************************************************************************)
(* What the sections of public/static/index.html have in common: lists     *)
(* that are loaded again, buttons that are disabled during a call, and the *)
(* server's tables behind them.  A table is the number of changes made to  *)
(* it, and what a list shows is that number at the time it was read.       *)
(***************************************************************************)
EXTENDS ApiClient, FiniteSets

CONSTANTS
  Convs,  \* the conversations
  Spent   \* bound: clicks of MaxClicks that an area does not get

VARIABLES
  area,    \* what the user works with
  section, \* the one that is shown
  list,    \* of each list: its newest load, the load whose rows it shows, its rows,
           \* and whether a change to it was announced since the newest load
  busy,    \* the buttons that are disabled
  made,    \* server: the number of changes to each table
  known,   \* history: the changes to each table that the page has reported (of those
           \* that a list shows)
  tries    \* history: for each form that the user submits until the page says that it
           \* is done: how often it was done, and how often that was not told

pageVars == <<area, section, list, busy, made, known, tries>>

\* The sections of each area, named like the lists they show.  (The form and the
\* dialogs of the section entities are looked at apart.)
Menu ==
  [profiles     |-> {"entities"},
   merging      |-> {"entities"},
   verification |-> {"mine", "verifications"},
   messaging    |-> {"conversations"},
   rules        |-> {"rules", "audit"},
   finance      |-> {"contracts", "invoices"},
   delegations  |-> {"delegations"},
   system       |-> {"jobs", "config", "health"}]

\* No conversation has the name of a section.
ASSUME PageAssumption == \A a \in DOMAIN Menu : Convs \cap Menu[a] = {}

\* A reply to a change is told from no reply.
ASSUME ReplyAssumption == None \notin [status : {200}, data : Nat]

Lists == Menu[area] \cup (IF area = "messaging" THEN {"messages"} ELSE {})
Tables == Menu[area] \cup (IF area = "messaging" THEN Convs ELSE {})

\* These keep their rows during a load; the others say "Loading...".
Steady == {"rules", "audit", "jobs", "config"}

Fetch(kind, table, arg) == [kind |-> kind, of |-> table, arg |-> arg, reply |-> None]

\* The user has chosen a section, whose list is on its way.
PageInit(opening) ==
  /\ calls = opening /\ sent = Len(opening) /\ clicks = Spent[area] /\ faults = 0
  /\ list = [l \in Lists |->
               [asked |-> IF l = section THEN 1 ELSE 0, shown |-> 0, rows |-> None, behind |-> FALSE]]
  /\ busy = {} /\ tries = [k \in {} |-> 0]
  /\ made = [t \in Tables |-> 0] /\ known = made

-----------------------------------------------------------------------------
(* Lists *)

\* The request of a load function; the calls of done have ended.
AskFor(l, table, done) ==
  /\ Request(done, <<Fetch(l, table, None)>>)
  /\ list' = [list EXCEPT ![l] =
                IF l \in Steady THEN [@ EXCEPT !.asked = sent + 1, !.behind = FALSE]
                ELSE [asked |-> sent + 1, shown |-> 0, rows |-> None, behind |-> FALSE]]

\* The callback of a load function.
Show(n, l) ==
  /\ calls[n].kind = l /\ Answered(n)
  /\ list' = [list EXCEPT ![l].shown = n, ![l].rows = IF Ok(n) THEN Data(n) ELSE None]
  /\ Request({n}, <<>>)
  /\ UNCHANGED <<clicks, faults, area, section, busy, made, known, tries>>

Open(l) == section = l /\ list[l].rows # None

-----------------------------------------------------------------------------
(* Calls that change something *)

\* The user has begun to try k.
Tried(k) ==
  [j \in DOMAIN tries \cup {k} |->
     IF j \in DOMAIN tries THEN tries[j] ELSE [done |-> 0, untold |-> 0]]

\* What is tried with calls of kind k was done d more times, and u more times that
\* was not told.
Counted(k, d, u) ==
  [j \in DOMAIN tries |->
     IF j = k THEN [done |-> tries[j].done + d, untold |-> tries[j].untold + u] ELSE tries[j]]

\* The submit button of a form, which is disabled until the reply.
Submit(k, table, arg) ==
  /\ k \notin busy
  /\ Click
  /\ busy' = busy \cup {k}
  /\ tries' = Tried(k)
  /\ Request({}, <<Fetch(k, table, arg)>>)
  /\ UNCHANGED <<area, section, list, made, known>>

\* A link or a button that stays as it is.
Ask(calling) ==
  /\ Click
  /\ Request({}, <<calling>>)
  /\ UNCHANGED pageVars

\* The head of a callback; the user has what was tried if the reply says so.
Finish(n, k) ==
  /\ calls[n].kind = k /\ Answered(n)
  /\ busy' = busy \ {k}
  /\ tries' = [j \in DOMAIN tries \ (IF Ok(n) THEN {k} ELSE {}) |-> tries[j]]
  /\ UNCHANGED <<clicks, faults, area, section, made>>

\* The changes that have been reported, with the one that call n made.
KnownFrom(n) == [known EXCEPT ![calls[n].of] = IF @ < Data(n) THEN Data(n) ELSE @]

\* A callback that reports a change, and leaves the list that shows it as it is.
Announce(n, k) ==
  /\ Finish(n, k)
  /\ Request({n}, <<>>)
  /\ \/ Ok(n) /\ known' = KnownFrom(n) /\ list' = [list EXCEPT ![calls[n].of].behind = TRUE]
     \/ ~Ok(n) /\ UNCHANGED <<list, known>>

\* A callback that reports no change that a list shows: it tells what was read, or
\* that jobs were run or a message was reported, or it fails before it reports.
Tell(n, k) == Finish(n, k) /\ Request({n}, <<>>) /\ UNCHANGED <<list, known>>

\* A callback that loads list l if all went well.
Reload(n, k, l, table) ==
  /\ Finish(n, k)
  /\ \/ /\ Ok(n)
        /\ known' = KnownFrom(n)
        /\ AskFor(l, table, {n})
     \/ ~Ok(n) /\ Request({n}, <<>>) /\ UNCHANGED <<list, known>>

-----------------------------------------------------------------------------
(* The server *)

ServeList(n) ==
  /\ calls[n].kind \in Lists
  /\ Answer(n, Reply(200, [of |-> calls[n].of, version |-> made[calls[n].of]]))
  /\ UNCHANGED <<clicks, faults, pageVars>>

ServeRead(n, data) == Answer(n, Reply(200, data)) /\ UNCHANGED <<clicks, faults, pageVars>>

ServeWrite(n) ==
  LET c == calls[n] IN
  /\ made' = [made EXCEPT ![c.of] = @ + 1]
  /\ tries' = Counted(c.kind, 1, 0)
  /\ Answer(n, Reply(200, made[c.of] + 1))
  /\ UNCHANGED <<clicks, faults, area, section, list, busy, known>>

\* The calls whose handler goes on after the change: it writes a row of the audit
\* log or of the decisions, or runs the next job.
WritesOn ==
  {"createEntity", "submitVerification", "approveVerif", "rejectVerif", "createContract",
   "postPayment", "createDelegation", "approveDelegation", "runJobs", "report"}

\* That fails: the change stays, and the answer is an error.
FailLate(n) ==
  LET c == calls[n] IN
  /\ c.kind \in WritesOn /\ ~Answered(n)
  /\ Fault
  /\ made' = [made EXCEPT ![c.of] = @ + 1]
  /\ tries' = Counted(c.kind, 1, 1)
  /\ Answer(n, Reply(500, None))
  /\ UNCHANGED <<area, section, list, busy, known>>

\* An error before anything is changed.
Refuse(n) ==
  /\ ~Answered(n)
  /\ Fault
  /\ Answer(n, Reply(400, None))
  /\ UNCHANGED pageVars

\* A broken connection: what the server did may stay unknown.
Lose(n) ==
  /\ NetworkError(n)
  /\ tries' = IF Answered(n) /\ Ok(n) THEN Counted(calls[n].kind, 0, 1) ELSE tries
  /\ UNCHANGED <<area, section, list, busy, made, known>>

-----------------------------------------------------------------------------
(* Properties                                                              *)

\* These are not loaded again when a profile is made, a contract, a payment.
Announced == {"entities", "contracts", "invoices"}

\* When the newest load of a list is shown it is of what is open, and has in it
\* every change that the page has reported to the user; except that a profile, a
\* contract or a payment, once announced, is missing until the next load.
\* (It says nothing of a list in which an older load, arriving last, has replaced
\* the newest: that one stays.)
ListsUpToDate(conv) ==
  \A l \in Lists :
    LET rows == list[l].rows IN
    /\ rows # None
    /\ list[l].shown = list[l].asked
    => /\ rows.of = IF l = "messages" THEN conv ELSE l
       /\ \/ rows.version >= known[rows.of]
          \/ l \in Announced /\ list[l].behind

\* What the user submits a form for until the page says that it is done is done
\* once, and once more only for each time that it was done and the page could not
\* say so: the answer was lost, or it was the error of a step after the change.
DoneOnceUnlessUntold == \A k \in DOMAIN tries : tries[k].done <= tries[k].untold + 1

\* A disabled button has one call to wait for, whose callback enables it.  After
\* a broken upload only a new load of the page does.
ButtonsComeBack ==
  \A k \in busy :
    \/ Cardinality({n \in DOMAIN calls : calls[n].kind = k}) = 1
    \/ k = "submitVerification" /\ faults > 0
=============================================================================
