------------------------------- MODULE Portal -------------------------------
(***************************************************************************)
(* The portal page of one user: the sections of the menu over the server's *)
(* tables.  They share nothing but the document and the calls, so that a   *)
(* behaviour stays in one area of the page.                                *)
(***************************************************************************)
EXTENDS EntitiesPage, MessagingPage, FinancePage, AdminPage

CONSTANT Areas   \* those that a model looks at
ASSUME AreasAssumption == Areas \subseteq DOMAIN Menu

vars == <<browser, pageVars, entityVars, messagingVars, financeVars, icon>>

\* The sections' own variables, of all but one file.
NotEntities == <<messagingVars, financeVars, icon>>
NotMessaging == <<entityVars, financeVars, icon>>
NotFinance == <<entityVars, messagingVars, icon>>
NotAdmin == <<entityVars, messagingVars, financeVars>>
NotPage == <<NotAdmin, icon>>

Init ==
  /\ area \in Areas
  /\ section \in Menu[area]
  /\ EntitiesInit /\ MessagingInit /\ FinanceInit /\ AdminInit
  /\ PageInit(<<Fetch(section, section, None)>> \o
              CASE area = "profiles" -> <<Fetch("fields", "entities", form.type)>>
                [] area = "system" -> <<PerformHealthCheck>>
                [] OTHER -> <<>>)

\* The loads that a click in the menu starts.
LoadSection(l) ==
  \/ l = "entities" /\ LoadEntities({})
  \/ l = "mine" /\ LoadMyVerification({})
  \/ l = "verifications" /\ LoadVerifications({})
  \/ l = "conversations" /\ LoadMessaging({})
  \/ l = "rules" /\ LoadRiskRules({})
  \/ l = "audit" /\ LoadAuditLogs({})
  \/ l = "contracts" /\ LoadContracts({})
  \/ l = "invoices" /\ LoadInvoices({})
  \/ l = "delegations" /\ LoadDelegations({})
  \/ l = "jobs" /\ LoadAdminJobs({})
  \/ l = "config" /\ LoadAdminConfig({})
  \/ l = "health" /\ RefreshHealthDetail({})

\* A click in the menu, or on the refresh button of the section that is shown.
\* A dialog covers both.
Navigate(l) ==
  /\ dialogs = <<>> /\ receipts = <<>> /\ reporting = None
  /\ Click
  /\ section' = l
  /\ LoadSection(l)
  /\ UNCHANGED <<area, busy, made, known, tries, NotPage>>

UserStep ==
  \/ EntitiesStep /\ UNCHANGED NotEntities
  \/ MessagingStep /\ UNCHANGED NotMessaging
  \/ FinanceStep /\ UNCHANGED NotFinance
  \/ AdminStep /\ UNCHANGED NotAdmin
  \/ \E l \in Menu[area] : Navigate(l)

Callback(n) ==
  \/ EntitiesCallback(n) /\ UNCHANGED NotEntities
  \/ MessagingCallback(n) /\ UNCHANGED NotMessaging
  \/ FinanceCallback(n) /\ UNCHANGED NotFinance
  \/ AdminCallback(n) /\ UNCHANGED NotAdmin

Serve(n) ==
  /\ ~Answered(n)
  /\ \/ ServeEntities(n) /\ UNCHANGED NotEntities
     \/ ServeMessaging(n) /\ UNCHANGED NotMessaging
     \/ ServeFinance(n) /\ UNCHANGED NotFinance
     \/ (ServeAdmin(n) \/ ServeList(n)) /\ UNCHANGED NotPage

Next ==
  \/ UserStep
  \/ \E n \in DOMAIN calls :
       \/ Callback(n) \/ Serve(n)
       \/ (Refuse(n) \/ FailLate(n) \/ Lose(n)) /\ UNCHANGED NotPage

Spec == Init /\ [][Next]_vars

\* The lists, with the messages of the open conversation.
ListsAreTrue == ListsUpToDate(conv)

\* What the user clicks in a dialog is done to what the dialog in front shows,
\* unless two of a kind were open together.
DialogsActAsShown == MergesAsShown /\ PrintedIsShown
=============================================================================
