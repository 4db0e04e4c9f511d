----------------------------- MODULE JobLifecycle -----------------------------
(***************************************************************************)
(* What the print agent promises about jobs, seen from outside: each job   *)
(* follows the life cycle of internal/jobs, whatever crashes in between,   *)
(* and each request of an operator (a creation or a retry) leads to at     *)
(* most one document handed to the operating system's spooler.             *)
(*                                                                         *)
(* `sent' counts the hand-overs since the operator last asked.  The        *)
(* detailed specification PrintPipeline implements this one.               *)
(***************************************************************************)
EXTENDS JobRecords

CONSTANT Ids

VARIABLES jobs, sent

vars == <<jobs, sent>>

Init == /\ jobs = [i \in Ids |-> NoJob]
        /\ sent = [i \in Ids |-> 0]

\* Replaces the record of one job.
Put(i, job) == jobs' = [jobs EXCEPT ![i] = job]

\* A new job is accepted.
Accept(i) == /\ jobs[i].status = "absent"
             /\ jobs'[i].created \in Nat
             /\ Put(i, NewJob(jobs'[i].created))
             /\ UNCHANGED sent

\* An operator asks for a failed job again.  The request alone changes no job:
\* it can reach the disk and still be reported to its caller as an error.
Ask(i) == /\ jobs[i].status = "failed"
          /\ sent' = [sent EXCEPT ![i] = 0]
          /\ UNCHANGED jobs

\* A failed job an operator has asked for waits for the worker again.
Requeue(i) == /\ jobs[i].status = "failed"
              /\ Put(i, Transition(jobs[i], "queued"))
              /\ sent' = [sent EXCEPT ![i] = 0]

\* The worker starts a waiting job nobody has printed since it was asked for.
Start(i) == /\ jobs[i].status = "queued"
            /\ sent[i] = 0
            /\ Put(i, Transition(jobs[i], "rendering"))
            /\ UNCHANGED sent

Rendered(i) == /\ jobs[i].status = "rendering"
               /\ Put(i, Transition(jobs[i], "printing"))
               /\ UNCHANGED sent

\* The spooler takes the document: once per request, and only of a job whose
\* record says it is printing.
Submit(i) == /\ jobs[i].status = "printing"
             /\ sent[i] = 0
             /\ sent' = [sent EXCEPT ![i] = 1]
             /\ UNCHANGED jobs

\* Success is recorded only of a document the spooler has taken.
Succeed(i) == /\ jobs[i].status = "printing"
              /\ sent[i] = 1
              /\ Put(i, Transition(jobs[i], "succeeded"))
              /\ UNCHANGED sent

\* A failure says which stage failed; a rendering failure means that nothing
\* was handed over.
Fail(i) == /\ \/ /\ jobs[i].status = "rendering"
                 /\ sent[i] = 0
                 /\ Put(i, Failed(jobs[i], "RENDER_FAILED"))
              \/ /\ jobs[i].status = "printing"
                 /\ Put(i, Failed(jobs[i], "PRINT_COMMAND_FAILED"))
           /\ UNCHANGED sent

\* A restart settles every job in progress at once.
Interrupt == /\ jobs' = [i \in Ids |-> Interrupted(jobs[i])]
             /\ UNCHANGED sent

Next == \/ \E i \in Ids : \/ Accept(i) \/ Ask(i) \/ Requeue(i) \/ Start(i)
                          \/ Rendered(i) \/ Submit(i) \/ Succeed(i) \/ Fail(i)
        \/ Interrupt

Spec == Init /\ [][Next]_vars
===============================================================================
