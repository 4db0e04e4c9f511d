------------------------------ MODULE JobRecords ------------------------------
(***************************************************************************)
(* A print job as internal/jobs models it: the record kept in the store,   *)
(* the table of legal status changes and the one function that applies     *)
(* them.  Every other module takes the job life cycle from here.           *)
(*                                                                         *)
(* A job keeps the fields that the program decides on: its status, the     *)
(* number of times it was started, the code of its error and its time of   *)
(* creation (an abstract clock reading; the order of two jobs at restart   *)
(* depends on it).  Payload, printer name and the other three timestamps   *)
(* are data no decision of this layer reads.                               *)
(***************************************************************************)
EXTENDS Naturals

\* The life cycle statuses of model.go.
Live == {"queued", "rendering", "printing", "succeeded", "failed"}

\* Statuses of an ID; "absent" is the status of an ID the store has no job for.
Status == Live \cup {"absent"}

\* What a job's Error field tells its reader.
ErrorCode == {"none", "RENDER_FAILED", "PRINT_COMMAND_FAILED", "SERVICE_RESTARTED"}

Job == [status : Status, attempts : Nat, error : ErrorCode, created : Nat]

\* The value of an ID that names no job.
NoJob == [status |-> "absent", attempts |-> 0, error |-> "none", created |-> 0]

\* The job a creation request stores, at clock reading now.
NewJob(now) ==
  [status |-> "queued", attempts |-> 0, error |-> "none", created |-> now]

\* The arrows of the life cycle.
Arrows == { <<"queued", "rendering">>,
            <<"rendering", "printing">>, <<"rendering", "failed">>,
            <<"printing", "succeeded">>, <<"printing", "failed">>,
            <<"failed", "queued">> }

CanTransition(from, to) == <<from, to>> \in Arrows

\* A job's fields after a legal change of status: only a start counts an
\* attempt, and only a failure keeps the error its caller has set.
Transition(job, to) ==
  [status   |-> to,
   attempts |-> job.attempts + (IF to = "rendering" THEN 1 ELSE 0),
   error    |-> IF to \in {"failed", "printing"} THEN job.error ELSE "none",
   created  |-> job.created]

\* A job that ends in failure with the given code.
Failed(job, code) == Transition([job EXCEPT !.error = code], "failed")

InProgress(job) == job.status \in {"rendering", "printing"}

\* Plausible slips: a status the table does not know; a restart that lets
\* interrupted jobs run again; one that fails the waiting jobs, too.
BugUnknownStatus(job) ==
  IF InProgress(job) THEN [job EXCEPT !.status = "interrupted"] ELSE job
BugRunAgain(job) ==
  IF InProgress(job) THEN [job EXCEPT !.status = "queued"] ELSE job
BugFailWaiting(job) ==
  IF job.status \in {"queued", "rendering", "printing"}
  THEN [job EXCEPT !.status = "failed", !.error = "SERVICE_RESTARTED"]
  ELSE job

\* What a restart makes of a job its last process left in progress.
Interrupted(job) ==
  IF InProgress(job)
  THEN [job EXCEPT !.status = "failed", !.error = "SERVICE_RESTARTED"]
  ELSE job
===============================================================================
