----------------------------- MODULE WebConsole -----------------------------
(***************************************************************************)
(* web/app.js in a browser, against an agent that stops and starts.  The   *)
(* page never waits for one request before it makes another: the timer,    *)
(* the buttons and the forms have calls of their own, whose answers come   *)
(* in any order, late, or not at all.                                      *)
(*                                                                         *)
(* A call is one asynchronous function under way.  A slot is room for one; *)
(* a form or the refresh button is disabled during its call and needs one  *)
(* slot only, while the buttons of the table are replaced, enabled, by     *)
(* every list that is shown.  Of the agent there is what the page can      *)
(* tell: the jobs, and whether requests reach it.                          *)
(***************************************************************************)
EXTENDS Naturals

CONSTANTS
  Ids,
  Refreshes,  \* slots for refreshes, of the timer and of the button
  Forms,      \* the forms that create jobs
  Retriers,   \* slots for retry buttons
  Inspectors, \* slots for detail buttons
  Opening,    \* the slot of start(), of the first refresh
  MaxRetries  \* bound: retries the agent accepts

Slots == Refreshes \cup Forms \cup Retriers \cup Inspectors

ASSUME ConsoleAssumption ==
  /\ MaxRetries \in Nat
  /\ Opening \in Refreshes
  /\ (Forms \cup Retriers) \cap (Refreshes \cup Inspectors) = {}
  /\ Forms \cap Retriers = {} /\ Refreshes \cap Inspectors = {}

VARIABLES
  jobs,     \* the agent's jobs
  retries,  \* how many retries it has accepted
  up,       \* whether requests reach it
  page,     \* how far start() has come
  printers, \* whether the selection holds a printer
  shown,    \* the table
  busy,     \* slots whose button is disabled and still in the document
  error,    \* errorState.source; "none" is a hidden line
  call      \* each slot's call: its phase, the answer that is there, a list in it,
            \* the job it is about, and (history) what the agent made of its POST

agent == <<jobs, retries, up>>
vars == <<agent, page, printers, shown, busy, error, call>>

NoJobs == [i \in Ids |-> "absent"]

Init ==
  /\ jobs \in [Ids -> {"absent", "waiting", "failed", "done"}] /\ shown = NoJobs
  /\ retries = 0
  /\ up \in BOOLEAN
  /\ page = "looking"
  /\ printers = FALSE
  /\ busy = {}
  /\ error = "none"
  /\ \E i \in Ids :
       call = [s \in Slots |-> [phase |-> "idle", answer |-> "none", list |-> NoJobs,
                                job |-> i, did |-> "nothing"]]

InFlight(s) == call[s].phase # "idle" /\ call[s].answer = "none"

\* The name under which a call reports its own errors.
Source(s) == IF s \in Forms THEN "create" ELSE IF s \in Retriers THEN "retry"
             ELSE IF s \in Inspectors THEN "detail" ELSE "refresh"

\* A plausible slip: the failure of a background refresh takes the line.
BugWithError(source) == source

\* showError: a refresh leaves the error of another operation alone.
WithError(source) ==
  IF source = "refresh" /\ error \notin {"none", "refresh"} THEN error ELSE source

\* clearError, for each of the sources.
Without(sources) == IF error \in sources THEN "none" ELSE error

\* A call sends a request and awaits its answer.
Asks(s, phase) ==
  call' = [call EXCEPT ![s].phase = phase, ![s].answer = "none", ![s].list = NoJobs]

\* A call is over: its button comes back, and with it those of replaced rows.
Ends(s, replaced) ==
  /\ call' = [call EXCEPT ![s].phase = "idle", ![s].answer = "none",
                          ![s].list = NoJobs, ![s].did = "nothing"]
  /\ busy' = busy \ ({s} \cup replaced)

------------------------------------------------------------------------------
\* start: the health of the agent is asked for, and answered in time or not.
Connects ==
  /\ page = "looking"
  /\ \/ /\ up
        /\ page' = "opening"
        /\ error' = Without({"connection"})
        /\ Asks(Opening, "printers")
     \/ /\ page' = "unconnected"
        /\ error' = WithError("connection")
        /\ UNCHANGED call
  /\ UNCHANGED <<agent, printers, shown, busy>>

\* loadPrinters, with which the first refresh begins, whatever came of it.
LoadPrinters ==
  /\ call[Opening].phase = "printers"
  /\ call[Opening].answer # "none"
  /\ printers' = (call[Opening].answer = "ok")
  /\ error' = CASE call[Opening].answer = "ok" -> Without({"printer"})
                [] call[Opening].answer = "empty" -> error
                [] OTHER -> WithError("printer")
  /\ Asks(Opening, "list")
  /\ UNCHANGED <<agent, page, shown, busy>>

\* The timer.
Tick(s) ==
  /\ page = "watching"
  /\ call[s].phase = "idle"
  /\ Asks(s, "list")
  /\ UNCHANGED <<agent, page, printers, shown, busy, error>>

\* The refresh button; before the page is connected it does nothing.
ClickRefresh(s) ==
  /\ page \in {"opening", "watching"}
  /\ call[s].phase = "idle" /\ Refreshes \cap busy = {}
  /\ Asks(s, "list")
  /\ busy' = busy \cup {s}
  /\ UNCHANGED <<agent, page, printers, shown, error>>

\* createJob.
Submit(s) ==
  /\ call[s].phase = "idle" /\ s \notin busy
  /\ \/ /\ ~printers
        /\ error' = WithError("create")
        /\ UNCHANGED <<busy, call>>
     \/ /\ printers
        /\ error' = Without({"create"})
        /\ busy' = busy \cup {s}
        /\ call' = [call EXCEPT ![s].phase = "post"]
  /\ UNCHANGED <<agent, page, printers, shown>>

\* A button in the row of a job, unless a call of its own has disabled it.
RowButton(s, i, kind) ==
  /\ shown[i] # "absent"
  /\ call[s].phase = "idle"
  /\ \A t \in kind \cap busy : call[t].job # i

\* retryJob.
ClickRetry(s, i) ==
  /\ RowButton(s, i, Retriers)
  /\ shown[i] = "failed"
  /\ error' = Without({"retry"})
  /\ busy' = busy \cup {s}
  /\ call' = [call EXCEPT ![s].phase = "post", ![s].job = i]
  /\ UNCHANGED <<agent, page, printers, shown>>

\* loadDetail.
ClickDetail(s, i) ==
  /\ RowButton(s, i, Inspectors)
  /\ error' = Without({"detail"})
  /\ busy' = busy \cup {s}
  /\ call' = [call EXCEPT ![s].phase = "get", ![s].job = i]
  /\ UNCHANGED <<agent, page, printers, shown>>

\* The answer to the detail's request.
EndDetail(s) ==
  /\ call[s].phase = "get" /\ call[s].answer # "none"
  /\ error' = IF call[s].answer = "ok" THEN Without({"detail"}) ELSE WithError("detail")
  /\ Ends(s, {})
  /\ UNCHANGED <<agent, page, printers, shown>>

\* The answer to a POST: an error ends the call, otherwise the list is asked for.
EndPost(s) ==
  /\ call[s].phase = "post" /\ call[s].answer # "none"
  /\ \/ /\ call[s].answer = "ok"
        /\ Asks(s, "list")
        /\ UNCHANGED <<busy, error>>
     \/ /\ call[s].answer = "failed"
        /\ error' = WithError(Source(s))
        /\ Ends(s, {})
  /\ UNCHANGED <<agent, page, printers, shown>>

\* A plausible slip: a refresh that fails is reported as the failure of the POST.
BugOnFailure(s) == Source(s)

\* The error of a list is the refresh's, whatever it was asked for.
OnFailure(s) == "refresh"

\* A plausible slip: start() does not catch the failure of the first refresh.
BugStartsTimer(s) == page = "opening" /\ s = Opening /\ call[s].answer = "ok"

\* The timer starts after the first refresh, whether or not it brought a list.
StartsTimer(s) == page = "opening" /\ s = Opening

\* refreshJobs, and the end of the call it was made for: a list takes the place of
\* the rows, buttons included.
EndList(s) ==
  /\ call[s].phase = "list" /\ call[s].answer # "none"
  /\ \/ /\ call[s].answer = "ok"
        /\ Ends(s, Retriers \cup Inspectors)
        /\ shown' = call[s].list
        /\ error' = Without({"refresh", Source(s)})
     \/ /\ call[s].answer = "failed"
        /\ Ends(s, {})
        /\ error' = WithError(OnFailure(s))
        /\ UNCHANGED shown
  /\ page' = IF StartsTimer(s) THEN "watching" ELSE page
  /\ UNCHANGED <<agent, printers>>

------------------------------------------------------------------------------
\* The agent answers.
Answers(s, answer, did) ==
  call' = [call EXCEPT ![s].answer = answer, ![s].did = did]

\* POST: a job is created, or a failed one queued again; or the agent refuses.
ServePost(s) ==
  /\ call[s].phase = "post"
  /\ \/ /\ s \in Forms
        /\ \E i \in Ids : jobs[i] = "absent" /\ jobs' = [jobs EXCEPT ![i] = "waiting"]
        /\ Answers(s, "ok", "accepted")
        /\ UNCHANGED retries
     \/ /\ s \in Retriers
        /\ jobs[call[s].job] = "failed" /\ retries < MaxRetries
        /\ jobs' = [jobs EXCEPT ![call[s].job] = "waiting"]
        /\ retries' = retries + 1
        /\ Answers(s, "ok", "accepted")
     \/ Answers(s, "failed", "refused") /\ UNCHANGED <<jobs, retries>>

\* GET: the list and a job are what they are now, the printers what the system says.
ServeGet(s) ==
  /\ \/ /\ call[s].phase = "list"
        /\ call' = [call EXCEPT ![s].answer = "ok", ![s].list = jobs]
     \/ call[s].phase = "get" /\ Answers(s, "ok", "nothing")
     \/ /\ call[s].phase = "printers"
        /\ \E answer \in {"ok", "empty", "failed"} : Answers(s, answer, "nothing")
  /\ UNCHANGED <<jobs, retries>>

Serve(s) ==
  /\ up
  /\ InFlight(s)
  /\ ServePost(s) \/ ServeGet(s)
  /\ UNCHANGED <<up, page, printers, shown, busy, error>>

\* The request or its answer is lost with an agent that is down.
Lose(s) ==
  /\ ~up
  /\ call[s].phase # "idle" /\ call[s].answer # "failed"
  /\ call' = [call EXCEPT ![s].answer = "failed", ![s].list = NoJobs,
                          ![s].did = IF call[s].phase = "post" THEN "lost" ELSE @]
  /\ UNCHANGED <<agent, page, printers, shown, busy, error>>

\* The worker settles a job.
Work ==
  /\ up
  /\ \E i \in Ids, outcome \in {"failed", "done"} :
       jobs[i] = "waiting" /\ jobs' = [jobs EXCEPT ![i] = outcome]
  /\ UNCHANGED <<retries, up, page, printers, shown, busy, error, call>>

\* The agent stops, or starts again.
StopOrStart ==
  /\ up' = ~up
  /\ UNCHANGED <<jobs, retries, page, printers, shown, busy, error, call>>

------------------------------------------------------------------------------
\* What a call does next, without anybody's doing: its request is answered or lost,
\* or it goes on with the answer; the timer makes the next call.
Proceeds(s) == \/ s = Opening /\ (Connects \/ LoadPrinters)
               \/ s \in Refreshes /\ Tick(s)
               \/ Serve(s) \/ Lose(s)
               \/ EndPost(s) \/ EndList(s) \/ EndDetail(s)

Click == \/ \E s \in Refreshes : ClickRefresh(s)
         \/ \E s \in Forms : Submit(s)
         \/ \E s \in Retriers, i \in Ids : ClickRetry(s, i)
         \/ \E s \in Inspectors, i \in Ids : ClickDetail(s, i)

Next == Click \/ Work \/ StopOrStart \/ \E s \in Slots : Proceeds(s)

\* The browser runs the timer and the continuations, and every request comes to an
\* end: it is answered, or its connection is refused or reset.  Nothing is assumed of
\* clicks, of the worker or of the agent's coming back.
Spec == Init /\ [][Next]_vars /\ \A s \in Slots : WF_vars(Proceeds(s))
------------------------------------------------------------------------------
\* Lists overlap, and an older one can be shown over a newer one (app.js:69); but
\* the page follows the agent in the end.  One that stays up has its jobs in the table,
\* and they stay there; one that is gone for good is noticed, for again and again the
\* error line says something (app.js:9-18, 69, 75).
PageFollowsAgent ==
  /\ <>[]up => <>[](page = "unconnected" \/ shown = jobs)
  /\ <>[]~up => []<>(error # "none")

\* What the page says of a creation or a retry is what came of it: it reports a
\* failure only if the agent refused or the answer was lost, however the refresh that
\* follows ends (operation = "refresh" of app.js:69-72), and success only if the agent
\* accepted; else operators would print twice, or not at all.
ToldIsTrue ==
  [][\A s \in Forms \cup Retriers :
       (call[s].phase # "idle" /\ call'[s].phase = "idle") =>
         IF error' = Source(s)
         THEN call[s].did \in {"refused", "lost"} \/ error = error'
         ELSE call[s].did = "accepted"]_vars

\* An operator's error stays until the operator's own calls change it: the timer does not
\* touch it, and the success of an operation of another kind does not clear it, though
\* its failure may take its place (app.js:9-18).  Besides these only start() may, while it opens the page, with the connection or the printers.
OperatorErrorStays ==
  [][(error \in {"create", "retry", "detail"} /\ error' # error) =>
       \/ page # "watching" /\ error' \in {"connection", "printer"}
       \/ ~printers /\ error' = "create"
       \/ \E s \in Forms \cup Retriers \cup Inspectors :
            call[s] # call'[s] /\ Source(s) \in {error, error'}]_vars
==============================================================================
