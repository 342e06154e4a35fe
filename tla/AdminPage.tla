----------------------------- MODULE AdminPage -----------------------------
(* public/static/js/admin.js, and the health checks of app.js. *)
EXTENDS Page

VARIABLE icon   \* of the connection, at the foot of the page

AdminInit == icon = "checking"

LoadAdminJobs(done) == AskFor("jobs", "jobs", done)
ShowAdminJobs(n) == Show(n, "jobs")

RunJobs == section = "jobs" /\ Submit("runJobs", "jobs", None)
JobsRun(n) == Tell(n, "runJobs")

LoadAdminConfig(done) == AskFor("config", "config", done)
ShowAdminConfig(n) == Show(n, "config")

LoadDelegations(done) == AskFor("delegations", "delegations", done)
ShowDelegations(n) == Show(n, "delegations")

\* approveDelegation, to approve or to reject, confirmed in a dialog.
ApproveDelegation == Open("delegations") /\ Ask(Fetch("approveDelegation", "delegations", None))

\* Variant: the list is not loaded again.
DelegationApprovedOnly(n) ==
  /\ Finish(n, "approveDelegation")
  /\ known' = IF Ok(n) THEN [known EXCEPT !["delegations"] = Data(n)] ELSE known
  /\ Request({n}, <<>>)
  /\ UNCHANGED list

DelegationApproved(n) == Reload(n, "approveDelegation", "delegations", "delegations")

\* submit(createDelegation)
CreateDelegation == section = "delegations" /\ Submit("createDelegation", "delegations", None)

\* Variant: the button is enabled only if all went well.
DelegationCreatedStuck(n) ==
  /\ calls[n].kind = "createDelegation" /\ Answered(n)
  /\ IF Ok(n) THEN Reload(n, "createDelegation", "delegations", "delegations")
     ELSE Request({n}, <<>>) /\ UNCHANGED <<clicks, faults, pageVars>>

DelegationCreated(n) == Reload(n, "createDelegation", "delegations", "delegations")

\* refreshHealthDetail shows any reply.
RefreshHealthDetail(done) == AskFor("health", "health", done)
ShowHealthDetail(n) == Show(n, "health")

\* performHealthCheck is called once, when the page is loaded.
PerformHealthCheck == Fetch("healthCheck", "health", None)
UpdateHealthUI(n) ==
  /\ Tell(n, "healthCheck")
  /\ icon' = IF Ok(n) THEN "online" ELSE "offline"

ServeAdmin(n) ==
  \/ calls[n].kind \in {"runJobs", "approveDelegation", "createDelegation"} /\ ServeWrite(n)
  \/ calls[n].kind = "healthCheck" /\ ServeRead(n, None)

AdminStep == (RunJobs \/ ApproveDelegation \/ CreateDelegation) /\ UNCHANGED icon

AdminCallback(n) ==
  \/ /\ \/ ShowAdminJobs(n) \/ JobsRun(n) \/ ShowAdminConfig(n) \/ ShowDelegations(n)
        \/ DelegationApproved(n) \/ DelegationCreated(n) \/ ShowHealthDetail(n)
     /\ UNCHANGED icon
  \/ UpdateHealthUI(n)
=============================================================================
