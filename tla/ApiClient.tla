----------------------------- MODULE ApiClient -----------------------------
(***************************************************************************)
(* public/static/js/api-client.js: every request of the browser is a fetch *)
(* that the page does not wait for.  The server serves the fetches one at  *)
(* a time, in any order; their callbacks run in any order again.  There is *)
(* no timeout and no retry: a request or an answer that is lost comes back *)
(* as a reply with the status 0.                                           *)
(***************************************************************************)
EXTENDS Integers, Sequences

CONSTANTS
  MaxClicks, MaxFaults,   \* bounds of a model
  None

VARIABLES
  calls,    \* the fetches whose callback has not run, by number
  sent,     \* number of fetches that were ever made
  clicks,   \* what the user did
  faults

browser == <<calls, sent, clicks, faults>>

BrowserInit ==
  /\ sent = 0 /\ clicks = 0 /\ faults = 0

\* Bound: what the user does and what goes wrong, together.
InBounds == clicks + faults < MaxClicks

Click == InBounds /\ clicks' = clicks + 1 /\ UNCHANGED faults
Fault == InBounds /\ faults < MaxFaults /\ faults' = faults + 1 /\ UNCHANGED clicks

Reply(status, data) == [status |-> status, data |-> data]
Ok(n) == calls[n].reply # None /\ calls[n].reply.status = 200
Data(n) == calls[n].reply.data

Answered(n) == calls[n].reply # None

\* request: the calls of the sequence new leave in a step that ends those of done.
Request(done, new) ==
  /\ sent' = sent + Len(new)
  /\ calls' = [n \in (DOMAIN calls \ done) \cup (sent + 1 .. sent + Len(new)) |->
                 IF n > sent THEN new[n - sent] ELSE calls[n]]

\* resp.json: the server's answer to call n is on its way.
Answer(n, reply) ==
  /\ calls' = [calls EXCEPT ![n].reply = reply]
  /\ UNCHANGED sent

\* The catch of request: call n never reaches the server, or its answer never
\* reaches the page.
NetworkError(n) ==
  /\ Answered(n) => calls[n].reply.status # 0
  /\ Fault
  /\ Answer(n, Reply(0, None))
=============================================================================
