--------------------------- MODULE MessagingPage ---------------------------
(***************************************************************************)
(* public/static/js/messaging.js: conversations, the check of a message    *)
(* before it is sent, recall and report, the risk rules and the audit log. *)
(***************************************************************************)
EXTENDS Page

CONSTANTS Texts, Forbidden   \* what may be typed, and which of it a rule blocks

VARIABLES
  conv,       \* currentConvId
  input,      \* the fields of a message: its text, its type, and the file chosen
  banner,     \* what the last check said
  reporting,  \* the prompt for a report, and the conversation of the message
  ruleForm    \* the form of a risk rule: closed, new, or edit

messagingVars == <<conv, input, banner, reporting, ruleForm>>

MessagingInit ==
  /\ conv = None
  /\ input = [text |-> None, type |-> "text", file |-> FALSE]
  /\ banner = "allow" /\ reporting = None /\ ruleForm = "closed"

Writing == section = "conversations" /\ reporting = None

-----------------------------------------------------------------------------
(* Conversations *)

LoadMessaging(done) == AskFor("conversations", "conversations", done)
ShowConversations(n) == Show(n, "conversations") /\ UNCHANGED messagingVars

\* loadMessages of the open conversation
LoadMessages(c, done) == AskFor("messages", c, done)

\* openConv
OpenConv(c) ==
  /\ Open("conversations") /\ Writing
  /\ Click
  /\ conv' = c
  /\ LoadMessages(c, {})
  /\ UNCHANGED <<area, section, busy, made, known, tries, input, banner, reporting, ruleForm>>

\* Its callback shows them whatever conversation is open by then.
ShowMessages(n) == Show(n, "messages") /\ UNCHANGED messagingVars

\* The button for a new conversation can be clicked again.
NewConv ==
  /\ Writing
  /\ Ask(Fetch("newConv", "conversations", None))
  /\ UNCHANGED messagingVars
ConvCreated(n) ==
  Reload(n, "newConv", "conversations", "conversations") /\ UNCHANGED messagingVars

-----------------------------------------------------------------------------
(* A message is checked, then sent *)

\* The user types, or chooses a type and with it a file, at any time.
Write ==
  /\ Writing /\ conv # None
  /\ input' \in {[text |-> x, type |-> y, file |-> y = "image"] :
                   x \in Texts, y \in {"text", "image"}}
  /\ input' # input
  /\ UNCHANGED <<browser, pageVars, conv, banner, reporting, ruleForm>>

\* btn-preflight-msg
Check ==
  /\ Writing /\ conv # None /\ input.text # None
  /\ Ask(Fetch("check", conv, input.text))
  /\ UNCHANGED messagingVars

\* runPreflight: a check that fails allows the message.
Verdict(n) == IF Ok(n) THEN Data(n) ELSE "allow"

Checked(n) ==
  /\ Tell(n, "check")
  /\ banner' = Verdict(n)
  /\ UNCHANGED <<conv, input, reporting, ruleForm>>

\* btn-send-msg; it can be clicked again.
Send ==
  /\ Writing /\ conv # None
  /\ Ask(Fetch("preflight", conv, [text |-> input.text, type |-> input.type]))
  /\ UNCHANGED messagingVars

\* The text and the type of m are those of the click, the conversation is the
\* one that is open now.
Posted(m, verdict) ==
  Fetch("send", conv, [text |-> m.text, verdict |-> verdict])

\* Variant: what is sent is what the field holds after the check.
SubmitMessageNow(n) ==
  LET m == [calls[n].arg EXCEPT !.text = input.text, !.type = input.type]
      verdict == IF Ok(n) THEN Data(n) ELSE "failed"
  IN
  /\ Finish(n, "preflight")
  /\ banner' = Verdict(n)
  /\ Request({n}, IF Verdict(n) = "block" \/ (m.type = "image" /\ ~input.file) THEN <<>>
                  ELSE <<Posted(m, verdict)>>)
  /\ UNCHANGED <<list, known, conv, input, reporting, ruleForm>>

\* submitMessage: a file is first read, which takes its time.
SubmitMessage(n) ==
  LET m == calls[n].arg
      verdict == IF Ok(n) THEN Data(n) ELSE "failed"
  IN
  /\ Finish(n, "preflight")
  /\ banner' = Verdict(n)
  /\ Request({n}, IF Verdict(n) = "block" \/ (m.type = "image" /\ ~input.file) THEN <<>>
                  ELSE IF m.type = "text" THEN <<Posted(m, verdict)>>
                  ELSE <<[Fetch("read", conv, m) EXCEPT !.reply = Reply(200, verdict)]>>)
  /\ UNCHANGED <<list, known, conv, input, reporting, ruleForm>>

\* reader.onload
FileRead(n) ==
  /\ Finish(n, "read")
  /\ Request({n}, IF Ok(n) THEN <<Posted(calls[n].arg, Data(n))>> ELSE <<>>)
  /\ UNCHANGED <<list, known, messagingVars>>

\* handleSendResponse empties the fields, whatever was typed since.
Sent(n) ==
  /\ Reload(n, "send", "messages", conv)
  /\ input' = IF Ok(n) THEN [input EXCEPT !.text = None, !.file = FALSE] ELSE input
  /\ UNCHANGED <<conv, banner, reporting, ruleForm>>

-----------------------------------------------------------------------------
(* Recall and report *)

MessagesShown == Writing /\ list["messages"].rows # None

\* recallMsg, of a message of the conversation that is shown
RecallMsg ==
  /\ MessagesShown
  /\ Ask(Fetch("recall", list["messages"].rows.of, None))
  /\ UNCHANGED messagingVars
Recalled(n) == Reload(n, "recall", "messages", conv) /\ UNCHANGED messagingVars

\* reportMsg: the prompt stays, and can be confirmed again, until it is answered.
OpenReport ==
  /\ MessagesShown
  /\ reporting' = [prompt |-> sent, of |-> list["messages"].rows.of]
  /\ UNCHANGED <<browser, pageVars, conv, input, banner, ruleForm>>
ReportMsg ==
  /\ reporting # None
  /\ Ask(Fetch("report", reporting.of, reporting.prompt))
  /\ UNCHANGED messagingVars
Reported(n) ==
  /\ Tell(n, "report")
  /\ reporting' = IF reporting # None /\ Ok(n) /\ calls[n].arg = reporting.prompt
                  THEN None ELSE reporting
  /\ UNCHANGED <<conv, input, banner, ruleForm>>
CancelReport ==
  /\ reporting # None
  /\ reporting' = None
  /\ UNCHANGED <<browser, pageVars, conv, input, banner, ruleForm>>

-----------------------------------------------------------------------------
(* Risk rules and the audit log *)

LoadRiskRules(done) == AskFor("rules", "rules", done)
ShowRiskRules(n) == Show(n, "rules") /\ UNCHANGED messagingVars

\* btn-add-risk-rule, editRiskRule
AddRiskRule ==
  /\ section = "rules" /\ ruleForm # "new"
  /\ ruleForm' = "new"
  /\ UNCHANGED <<browser, pageVars, conv, input, banner, reporting>>
EditRiskRule ==
  /\ Open("rules") /\ ruleForm # "edit"
  /\ ruleForm' = "edit"
  /\ UNCHANGED <<browser, pageVars, conv, input, banner, reporting>>

\* submit(saveRiskRule): whether it makes a rule or changes one is settled here.
SaveRiskRule ==
  /\ section = "rules" /\ ruleForm # "closed"
  /\ Submit("saveRiskRule", "rules", ruleForm)
  /\ UNCHANGED messagingVars

\* Its callback hides the form, whatever is in it by then.
RiskRuleSaved(n) ==
  /\ Reload(n, "saveRiskRule", "rules", "rules")
  /\ ruleForm' = IF Ok(n) THEN "closed" ELSE ruleForm
  /\ UNCHANGED <<conv, input, banner, reporting>>

\* deleteRiskRule, confirmed in a dialog
DeleteRiskRule ==
  /\ Open("rules")
  /\ Ask(Fetch("deleteRiskRule", "rules", None))
  /\ UNCHANGED messagingVars
RiskRuleDeleted(n) == Reload(n, "deleteRiskRule", "rules", "rules") /\ UNCHANGED messagingVars

LoadAuditLogs(done) == AskFor("audit", "audit", done)
ShowAuditLogs(n) == Show(n, "audit") /\ UNCHANGED messagingVars

-----------------------------------------------------------------------------

\* A text that a rule blocks is refused by the server too.
ServeMessaging(n) ==
  LET c == calls[n] IN
  /\ \/ c.kind = "check" /\ ServeRead(n, IF c.arg \in Forbidden THEN "block" ELSE "allow")
     \/ c.kind = "preflight" /\ ServeRead(n, IF c.arg.text \in Forbidden THEN "block" ELSE "allow")
     \/ c.kind = "send" /\ c.arg.text \notin Forbidden /\ ServeWrite(n)
     \/ /\ c.kind = "send" /\ c.arg.text \in Forbidden
        /\ Answer(n, Reply(400, None)) /\ UNCHANGED <<clicks, faults, pageVars>>
     \/ c.kind \in {"newConv", "recall", "report", "saveRiskRule", "deleteRiskRule"} /\ ServeWrite(n)
  /\ UNCHANGED messagingVars

MessagingStep ==
  \/ \E c \in Convs : OpenConv(c)
  \/ NewConv \/ Write \/ Check \/ Send \/ RecallMsg
  \/ OpenReport \/ ReportMsg \/ CancelReport
  \/ AddRiskRule \/ EditRiskRule \/ SaveRiskRule \/ DeleteRiskRule

MessagingCallback(n) ==
  \/ ShowConversations(n) \/ ShowMessages(n) \/ ConvCreated(n)
  \/ Checked(n) \/ SubmitMessage(n) \/ FileRead(n) \/ Sent(n)
  \/ Recalled(n) \/ Reported(n)
  \/ ShowRiskRules(n) \/ RiskRuleSaved(n) \/ RiskRuleDeleted(n) \/ ShowAuditLogs(n)

-----------------------------------------------------------------------------
(* Properties                                                              *)

\* What is posted is what was checked: a text that the rules block leaves the
\* page only if its check failed.
SentAsChecked ==
  \A n \in DOMAIN calls :
    calls[n].kind = "send" /\ calls[n].arg.text \in Forbidden => calls[n].arg.verdict = "failed"
=============================================================================
