------------------------------- MODULE HttpApi ------------------------------
(***************************************************************************)
(* httpapi in front of a service: the route of a request, what createJob   *)
(* refuses before it calls the service, and the answer the client gets     *)
(* for each outcome.  One router per service, one request at a time; the   *)
(* services of other routers, the receiver and those who break the         *)
(* contract of the channel act meanwhile.  The answers are named by their  *)
(* error codes, the successes by what their status says.                   *)
(***************************************************************************)
EXTENDS QueueOwnership, JobDocument, SequencesExt

CONSTANT Routers  \* the services that have a router

ASSUME RoutersAssumption == Routers \subseteq Services

\* The paths.  What stands below /api/v1/print-jobs/ is a sequence of segments as sent,
\* and a segment with an escaped slash in it is several parts once decoded.
Below ==
  {<<<<i>>>> : i \in Ids \cup {"", "unknown"}} \cup
  {<<<<i, "retry">>>> : i \in Ids} \cup
  (UNION {{<<<<i>>, <<a>>>> : a \in {"preview", "retry", "", "other"}} : i \in Ids \cup {"unknown"}})
Paths ==
  [base : {"/health", "/api/v1/printers", "/api/v1/print-jobs", "/", "/elsewhere"},
   below : {<<>>}] \cup
  [base : {"/api/v1/print-jobs/"}, below : Below]
Methods == {"GET", "HEAD", "POST", "DELETE", "OPTIONS"}

\* What createJob can be sent: no JSON object of its own fields, or one that is then
\* admitted or not; which one of these makes no difference to the call.
Bodies == {"other type", "too large", "malformed", "null", "two values", "object"}
Objects == {CHOOSE r \in Requests : Admitted(r), CHOOSE r \in Requests : ~Admitted(r)}

\* A plausible slip: only the decoded path is looked at.
BugJobRoute(below) == FlattenSeq(below)

\* jobRoute: the parts of the path, as many decoded as sent.
JobRoute(below) == IF Len(FlattenSeq(below)) = Len(below) THEN FlattenSeq(below) ELSE <<>>

\* What a path is about, for ServeHTTP.
Resource(path) ==
  IF path.below = <<>> THEN path.base
  ELSE LET part == JobRoute(path.below)
       IN  IF Len(part) \notin {1, 2} \/ \E n \in DOMAIN part : part[n] = "" THEN "/elsewhere"
           ELSE IF Len(part) = 1 THEN "job"
           ELSE IF part[2] \in {"preview", "retry"} THEN part[2] ELSE "unknown"

Allowed(resource) ==
  CASE resource = "/api/v1/print-jobs" -> {"GET", "POST"}
    [] resource = "retry" -> {"POST"}
    [] resource = "unknown" -> Methods
    [] resource \in {"/", "/elsewhere"} -> {"GET", "HEAD"}
    [] OTHER -> {"GET"}

\* The answers to requests that change nothing: health, the printers, the list, a job,
\* its preview, and the files of the page.
Reads(resource, job) ==
  CASE resource = "/api/v1/printers" -> {"OK", "PRINTER_LIST_FAILED"}
    [] resource = "/api/v1/print-jobs" -> {"OK", "INTERNAL_ERROR"}
    [] resource = "job" -> {"INTERNAL_ERROR", IF Exists(job) THEN "OK" ELSE "NOT_FOUND"}
    [] resource = "preview" -> {"INTERNAL_ERROR"} \cup
         (IF Exists(job) THEN {"OK", "PREVIEW_NOT_READY"} ELSE {"NOT_FOUND"})
    [] resource \in {"unknown", "/elsewhere"} -> {"NOT_FOUND"}
    [] OTHER -> {"OK"}

\* createJob, and Create up to the mutex: the answer to a body that is refused.
BodyRefusal(body, object) ==
  CASE body = "other type" -> "UNSUPPORTED_MEDIA_TYPE"
    [] body = "too large" -> "REQUEST_BODY_TOO_LARGE"
    [] body = "object" /\ Admitted(object) -> "none"
    [] OTHER -> "INVALID_REQUEST"

\* corsForFileOrigin: a preflight request that it may answer, before anything is routed.
Preflight(method, path) == method = "OPTIONS" /\ path.base \notin {"/", "/elsewhere"}

Replies(s, answer) == call' = [call EXCEPT ![s].phase = "replied", ![s].answer = answer]

\* The request goes on to the service, about the job in its path if there is one.
Calls(s, op, path) ==
  call' = [call EXCEPT ![s].phase = "entering", ![s].op = op,
             ![s].named = IF op = "retry" THEN JobRoute(path.below)[1] ELSE Nobody,
             ![s].meant = IF op = "retry" /\ Len(path.below[1]) = 1 THEN path.below[1][1]
                          ELSE Nobody]

\* ServeHTTP: the request is answered, or goes on to the service.  A preflight request
\* has its answer if it comes from a file with the right token, and is routed if not.
Request(s, method, path) ==
  LET resource == Resource(path)
      job == IF resource \in {"job", "preview"} THEN JobRoute(path.below)[1] ELSE Nobody
  IN  /\ service[s].made
      /\ call[s].phase = "idle"
      /\ \/ Preflight(method, path) /\ Replies(s, "NO_CONTENT")
         \/ CASE method \notin Allowed(resource) -> Replies(s, "METHOD_NOT_ALLOWED")
              [] resource = "retry" /\ method = "POST" -> Calls(s, "retry", path)
              [] resource = "/api/v1/print-jobs" /\ method = "POST" ->
                   \E body \in Bodies, object \in Objects :
                     IF BodyRefusal(body, object) = "none" THEN Calls(s, "create", path)
                     ELSE Replies(s, BodyRefusal(body, object))
              [] OTHER -> \E answer \in Reads(resource, job) : Replies(s, answer)
      /\ UNCHANGED <<status, channel, open, owner, service>>

\* writeJobError, or the success; the names of errors inside are not passed on.
WriteJobError(s) ==
  IF call[s].answer \in {"STORE_ERROR", "CONTEXT_CANCELED"} THEN "INTERNAL_ERROR"
  ELSE call[s].answer

Reply(s) ==
  /\ call[s].phase = "answered"
  /\ Replies(s, WriteJobError(s))
  /\ UNCHANGED <<status, channel, open, owner, service>>

Done(s) ==
  /\ call[s].phase = "replied"
  /\ call' = [call EXCEPT ![s] = Idle]
  /\ UNCHANGED <<status, channel, open, owner, service>>

Next ==
  \/ \E s \in Services : NewService(s) \/ Close(s)
  \/ \E s \in Routers :
       \/ \E method \in Methods, path \in Paths : Request(s, method, path)
       \/ Enter(s) \/ Store(s) \/ Deliver(s) \/ Reply(s) \/ Done(s)
  \/ Receive \/ Interfere

Spec == Init /\ [][Next]_vars
------------------------------------------------------------------------------
\* Whatever was sent, and whoever interferes with the channel, the answer says what was
\* done: a success that the job was stored and sent; QUEUE_DELIVERY_FAILED that it was
\* not sent; INTERNAL_ERROR that the running agent does not have it as queued, while its
\* file may, for the next start to print; any other error that not even the file was
\* changed.  And a retry changes only the job that its path names (jobs.go:30-121,
\* 256-278, router.go:183-204, service.go:90-132, 165-198, 246-269, json_store.go:91-97,
\* 230-239).
AnswerIsTrue ==
  \A s \in Services : call[s].phase = "replied" =>
    /\ (call[s].sent # Nobody) = (call[s].answer = "OK" /\ call[s].op # "none")
    /\ call[s].sent \in {call[s].wrote, Nobody}
    /\ call[s].answer \notin {"OK", "QUEUE_DELIVERY_FAILED"} => call[s].wrote = Nobody
    /\ call[s].answer \notin {"OK", "QUEUE_DELIVERY_FAILED", "INTERNAL_ERROR"} =>
         call[s].filed = Nobody
    /\ call[s].op = "retry" => {call[s].filed, call[s].wrote} \subseteq {call[s].meant, Nobody}

\* A job that is created can be printed, at the first attempt and at every retry, and
\* prints what was sent.  The renderer repeats the checks of the admission in code of
\* its own, and a job that only the admission accepts fails for ever (validate.go:26-141,
\* balloon.go:30-97, source.go:41-98).  A call of Create stands for all requests that
\* get as far.
AdmittedPrints ==
  \A s \in Services : call[s].op = "create" => AdmissionIsFaithful
==============================================================================
