----------------------------- MODULE Messaging -----------------------------
(***************************************************************************)
(* Messages, their attachments and the files behind them: MessagingService *)
(* (sendMessage, getMessages, recall, report), RiskService::check and       *)
(* JobService::cleanRetention.  Tables and disk are written one statement   *)
(* at a time, in no transaction.  Left out: refused requests, which write   *)
(* nothing, the paging of a list, and the audit row of a report.            *)
(***************************************************************************)
EXTENDS Integers, Sequences, FiniteSets

CONSTANTS
  Workers,       \* API processes
  Runners,       \* those that run the jobs, the scheduler among them
  Scheduler,
  Users, Conversations,
  Members,       \* who has each conversation in his scope
  Bodies,
  Rules,         \* the active risk rules by id: what each matches, and its action
  Files,         \* a name with its bytes: what processAttachment makes a path of
  Posts,         \* what the requests send
  RecallWindow,  \* RECALL_WINDOW_SECONDS, in clock units
  Retentions,    \* the values of message_retention_months, in clock units
  MaxTime, MaxRequests, MaxFaults,   \* bounds of a model
  None

Post == [by: Users, conv: Conversations, body: Bodies, file: Files \cup {None}]
Message == [conv: Conversations, sender: Users, body: Bodies \cup {None},
            attachment: Nat \cup {None}, read: BOOLEAN, recalled: BOOLEAN, at: Nat]

ASSUME MessagingAssumption ==
  /\ Scheduler \in Runners /\ Scheduler \notin Workers
  /\ Members \in [Conversations -> SUBSET Users]
  /\ Rules \in Seq([matches: SUBSET Bodies, action: {"warn", "flag", "block"}])
  /\ Posts \subseteq Post
  /\ None \notin Nat /\ None \notin Files /\ None \notin Bodies /\ None \notin Message
  /\ Retentions \subseteq Nat /\ Retentions # {}
  /\ {RecallWindow, MaxTime, MaxRequests, MaxFaults} \subseteq Nat

VARIABLES
  now,
  messages,      \* table messages; the index is the id, None a deleted row
  attachments,   \* table attachments; the index is the id, the value storage_path
  disk,          \* the files under storage/uploads
  reports,       \* the messages with a row in message_reports
  retention,     \* admin_config: message_retention_months
  pc, req,       \* what each process is doing, and with what
  received, faults

Processes == Workers \cup Runners

tables == <<messages, attachments, disk, reports, retention>>
vars == <<now, tables, pc, req, received, faults>>

Init ==
  /\ now = 0
  /\ messages = <<>> /\ attachments = <<>> /\ disk = {} /\ reports = {}
  /\ retention \in Retentions
  /\ pc = [p \in Processes |-> "idle"]
  /\ req = [p \in Processes |-> None]
  /\ received = 0 /\ faults = 0

Exists(m) == m \in DOMAIN messages /\ messages[m] # None

Begin(w, step, r) ==
  /\ pc[w] = "idle" /\ received < MaxRequests
  /\ received' = received + 1
  /\ pc' = [pc EXCEPT ![w] = step] /\ req' = [req EXCEPT ![w] = r]
  /\ UNCHANGED <<now, tables, faults>>

Continue(w, step, r) ==
  /\ pc' = [pc EXCEPT ![w] = step] /\ req' = [req EXCEPT ![w] = r]
  /\ UNCHANGED <<now, retention, received, faults>>

Finish(w) == Continue(w, "idle", None)

-----------------------------------------------------------------------------
(* RiskService::check: the first rule that matches decides, not the hardest *)

Matching(body) == {n \in DOMAIN Rules : body \in Rules[n].matches}

RiskAction(body) ==
  IF Matching(body) = {} THEN "allow"
  ELSE Rules[CHOOSE n \in Matching(body) : \A m \in Matching(body) : n <= m].action

-----------------------------------------------------------------------------
(* sendMessage and processAttachment *)

AskSend(w, p) ==
  /\ p.by \in Members[p.conv] /\ RiskAction(p.body) # "block"
  /\ Begin(w, IF p.file = None THEN "message" ELSE "file", [post |-> p, attachment |-> None])

\* Variant: a file that could not be written is not noticed.
WriteFileUnnoticed(w) ==
  /\ pc[w] = "file"
  /\ disk' \in {disk, disk \cup {req[w].post.file}}
  /\ Continue(w, "attachment", req[w])
  /\ UNCHANGED <<messages, attachments, reports>>

\* file_put_contents: equal bytes under an equal name share one path.
WriteFile(w) ==
  /\ pc[w] = "file"
  /\ disk' = disk \cup {req[w].post.file}
  /\ Continue(w, "attachment", req[w])
  /\ UNCHANGED <<messages, attachments, reports>>

InsertAttachment(w) ==
  /\ pc[w] = "attachment"
  /\ attachments' = Append(attachments, req[w].post.file)
  /\ Continue(w, "message", [req[w] EXCEPT !.attachment = Len(attachments) + 1])
  /\ UNCHANGED <<messages, disk, reports>>

InsertMessage(w) ==
  LET p == req[w].post IN
  /\ pc[w] = "message"
  /\ messages' = Append(messages,
       [conv |-> p.conv, sender |-> p.by, body |-> p.body, attachment |-> req[w].attachment,
        read |-> FALSE, recalled |-> FALSE, at |-> now])
  /\ Finish(w)
  /\ UNCHANGED <<attachments, disk, reports>>

-----------------------------------------------------------------------------
(* recall *)

Recallable(u, m) ==
  /\ Exists(m) /\ messages[m].sender = u
  /\ ~messages[m].recalled /\ now - messages[m].at <= RecallWindow

AskRecall(w, u, m) ==
  /\ Recallable(u, m)
  /\ Begin(w, "wipe", [id |-> m, attachment |-> messages[m].attachment])

Wiped(row) == [row EXCEPT !.recalled = TRUE, !.body = None, !.attachment = None]

\* The UPDATE finds nothing if the job has deleted the row.
Wipe(w) ==
  LET m == req[w].id IN
  /\ pc[w] = "wipe"
  /\ messages' = IF Exists(m) THEN [messages EXCEPT ![m] = Wiped(messages[m])] ELSE messages
  /\ IF req[w].attachment = None THEN Finish(w) ELSE Continue(w, "unlink", req[w])
  /\ UNCHANGED <<attachments, disk, reports>>

Unlink(w) ==
  /\ pc[w] = "unlink"
  /\ disk' = disk \ {attachments[req[w].attachment]}
  /\ Finish(w)
  /\ UNCHANGED <<messages, attachments, reports>>

-----------------------------------------------------------------------------
(* getMessages, which marks what it lists *)

\* Variant: recalled messages are marked, too.
UnreadOrRecalled(u, c) ==
  {m \in DOMAIN messages : /\ Exists(m) /\ messages[m].conv = c
                           /\ messages[m].sender # u /\ ~messages[m].read}

Unread(u, c) ==
  {m \in DOMAIN messages : /\ Exists(m) /\ messages[m].conv = c /\ messages[m].sender # u
                           /\ ~messages[m].read /\ ~messages[m].recalled}

AskMessages(w, u, c) ==
  /\ u \in Members[c] /\ Unread(u, c) # {}
  /\ Begin(w, "mark", [ids |-> Unread(u, c)])

MarkRead(w) ==
  /\ pc[w] = "mark"
  /\ messages' = [m \in DOMAIN messages |->
       IF m \in req[w].ids /\ Exists(m) THEN [messages[m] EXCEPT !.read = TRUE] ELSE messages[m]]
  /\ Finish(w)
  /\ UNCHANGED <<attachments, disk, reports>>

-----------------------------------------------------------------------------
(* report *)

AskReport(w, u, m) ==
  /\ Exists(m) /\ u \in Members[messages[m].conv]
  /\ Begin(w, "report", [id |-> m])

\* The foreign key refuses a report on a message that is gone by now.
InsertReport(w) ==
  /\ pc[w] = "report"
  /\ reports' = IF Exists(req[w].id) THEN reports \cup {req[w].id} ELSE reports
  /\ Finish(w)
  /\ UNCHANGED <<messages, attachments, disk>>

-----------------------------------------------------------------------------
(* JobService::cleanRetention: reads the period, then one DELETE, of all the  *)
(* old messages or of none.  Before its turn in runAll the jobs of the other  *)
(* modules run.                                                              *)

\* Variant: as if the period were one unit longer.
CutoffLate == now - retention - 1

Cutoff == now - retention

ReadRetention(a) ==
  /\ pc[a] = "idle"
  /\ Continue(a, "delete", [cutoff |-> Cutoff])
  /\ UNCHANGED <<messages, attachments, disk, reports>>

Old(cutoff) == {m \in DOMAIN messages : Exists(m) /\ messages[m].at < cutoff}

ReportedOld(cutoff) == reports \cap Old(cutoff)

DeleteOld(a) ==
  /\ pc[a] = "delete" /\ ReportedOld(req[a].cutoff) = {}
  /\ messages' = [m \in DOMAIN messages |->
                   IF m \in Old(req[a].cutoff) THEN None ELSE messages[m]]
  /\ Finish(a)
  /\ UNCHANGED <<attachments, disk, reports>>

\* The foreign key of message_reports fails the statement, and with it the run.
DeleteFails(a) ==
  /\ pc[a] = "delete" /\ ReportedOld(req[a].cutoff) # {}
  /\ Finish(a)
  /\ UNCHANGED <<messages, attachments, disk, reports>>

CleanRetention(a) == ReadRetention(a) \/ DeleteOld(a) \/ DeleteFails(a)

\* PATCH /admin/config/message_retention_months
UpdateConfig(w, value) ==
  /\ pc[w] = "idle" /\ received < MaxRequests
  /\ received' = received + 1
  /\ retention' = value
  /\ UNCHANGED <<now, messages, attachments, disk, reports, pc, req, faults>>

-----------------------------------------------------------------------------
Tick ==
  /\ now < MaxTime
  /\ now' = now + 1
  /\ UNCHANGED <<tables, pc, req, received, faults>>

\* A process dies between two statements, or its next one fails.
Crash(p) ==
  /\ pc[p] # "idle" /\ faults < MaxFaults
  /\ faults' = faults + 1
  /\ pc' = [pc EXCEPT ![p] = "idle"] /\ req' = [req EXCEPT ![p] = None]
  /\ UNCHANGED <<now, tables, received>>

Next ==
  \/ Tick
  \/ \E w \in Workers :
       \/ \E p \in Posts : AskSend(w, p)
       \/ WriteFile(w) \/ InsertAttachment(w) \/ InsertMessage(w)
       \/ \E u \in Users, m \in DOMAIN messages : AskRecall(w, u, m) \/ AskReport(w, u, m)
       \/ Wipe(w) \/ Unlink(w) \/ InsertReport(w)
       \/ \E u \in Users, c \in Conversations : AskMessages(w, u, c)
       \/ MarkRead(w)
       \/ \E value \in Retentions : UpdateConfig(w, value)
  \/ \E a \in Runners : CleanRetention(a)
  \/ \E p \in Processes : Crash(p)

Spec == Init /\ [][Next]_vars

\* The loop of tools/scheduler.php goes on, and always comes to its next run.
FairSpec == Spec /\ WF_vars(CleanRetention(Scheduler))

-----------------------------------------------------------------------------
(* Properties                                                              *)

Live(m) == Exists(m) /\ ~messages[m].recalled

HasFile(m) == attachments[messages[m].attachment] \in disk

\* An attachment of a message that nobody recalled can be read, through any
\* crash: comment of recall, "(if safe)"; comment of processAttachment, "to
\* avoid collisions".
LiveHasFile ==
  \A m \in DOMAIN messages : Live(m) /\ messages[m].attachment # None => HasFile(m)

\* If it cannot, then the same file was attached a second time: neither a crash
\* nor an order of statements or processes loses a file otherwise.
LostOnlyToTwin ==
  \A m \in DOMAIN messages : Live(m) /\ messages[m].attachment # None =>
    \/ HasFile(m)
    \/ \E b \in DOMAIN attachments \ {messages[m].attachment} :
         attachments[b] = attachments[messages[m].attachment]

\* No message gets its read mark after it was recalled.
NoReadAfterRecall ==
  [][\A m \in DOMAIN messages :
       Live(m)' \/ ~Exists(m)' \/ messages'[m].read = messages[m].read]_vars

Ids == 1..MaxRequests

PastRetention(m) == Exists(m) /\ messages[m].at < now - retention

\* Messages past the retention period are removed.
OldRemoved == \A m \in Ids : PastRetention(m) ~> ~PastRetention(m)

\* They are, as long as none of them was reported: deleting, recalling, reading
\* and sending beside it, a crash or another period put in never stop the job.
OldRemovedUnlessReported ==
  \A m \in Ids :
    PastRetention(m) ~> (~PastRetention(m) \/ \E r \in reports : PastRetention(r))
=============================================================================
