---------------------------- MODULE PrintPipeline ----------------------------
(***************************************************************************)
(* The core of the print agent: the job service (internal/jobs), the job   *)
(* store (internal/store) as one atomic write per call, the single worker  *)
(* (internal/worker) and the process they live in (cmd/local-print-agent), *)
(* which can be stopped by a signal or die at any point and be started     *)
(* again on the same data directory.                                       *)
(*                                                                         *)
(* Actors: HTTP handlers (Clients) calling Create and Retry concurrently,  *)
(* the worker goroutine, and the process life cycle.  A handler holds the  *)
(* service's mutex mu from its first step to its return; the store's own   *)
(* mutex makes each of its calls a single step.                            *)
(***************************************************************************)
EXTENDS JobRecords, Sequences, FiniteSets

CONSTANTS
  Ids,          \* IDs of jobs; their order stands for that of the ID strings
  Clients,      \* concurrent HTTP handlers
  Nobody,       \* the holder of a free mutex
  Capacity,     \* QueueCapacity
  MaxAttempts,  \* bound: no job is retried once started this many times
  Ticks         \* by how much the clock may advance between two creations

ASSUME ConstantsAssumption ==
  /\ Ids \subseteq Nat \ {0}
  /\ IsFiniteSet(Ids)
  /\ Nobody \notin Clients
  /\ Capacity \in Nat \ {0}
  /\ MaxAttempts \in Nat
  /\ Ticks \subseteq Nat

NoId == 0

VARIABLES
  mem,     \* JSONStore.jobs, the collection the program reads
  disk,    \* jobs.json, the collection a restart loads
  queue,   \* the buffered channel of job IDs
  mu,      \* the client that holds Service.mu
  closed,  \* Service.closed
  call,    \* what each client's call has still to do
  worker,  \* what the worker goroutine has still to do
  phase,   \* where the process is in its life
  sent,    \* history: documents the spooler took since the operator last asked
  line     \* history: the order of acceptance of the jobs not yet started

store   == <<mem, disk>>
service == <<mu, closed, call>>
history == <<sent, line>>
vars    == <<mem, disk, queue, mu, closed, call, worker, phase, sent, line>>

Phases == {"off", "loaded", "recovered", "up", "stopping"}

\* A call or a worker with nothing to do.
Resting(at) == [at |-> at, id |-> NoId, job |-> NoJob]
Idle == Resting("idle")

\* A program counter with the ID and the copy of the job it works on.
Activity(points) == [at : points, id : Ids \cup {NoId}, job : Job]

TypeOK ==
  /\ mem \in [Ids -> Job]
  /\ disk \in [Ids -> Job]
  /\ queue \in Seq(Ids)
  /\ mu \in Clients \cup {Nobody}
  /\ closed \in BOOLEAN
  /\ call \in [Clients -> Activity({"idle", "update", "deliver"})]
  /\ worker \in Activity({"idle", "get", "persist", "render", "print", "stopped", "done"})
  /\ phase \in Phases
  /\ sent \in [Ids -> Nat]
  /\ line \in SUBSET (Ids \X Ids)

Empty == [i \in Ids |-> NoJob]

Init ==
  /\ mem = Empty
  /\ disk = Empty
  /\ queue = <<>>
  /\ mu = Nobody
  /\ closed = FALSE
  /\ call = [c \in Clients |-> Idle]
  /\ worker = Idle
  /\ phase = "off"
  /\ sent = [i \in Ids |-> 0]
  /\ line = {}
------------------------------------------------------------------------------
(***************************************************************************)
(* The store.  A write replaces the whole file by the collection in memory *)
(* with one job changed, then commits the collection to memory.  It can    *)
(* fail before the file is replaced (nothing changed) or after it (the     *)
(* file is ahead of the memory and the caller is told of an error).        *)
(***************************************************************************)
WriteOk(i, job)   == /\ mem' = [mem EXCEPT ![i] = job]
                     /\ disk' = [mem EXCEPT ![i] = job]

\* A plausible slip: the memory is committed before the file is replaced.
BugWriteLate(i, job) == /\ mem' = [mem EXCEPT ![i] = job]
                        /\ UNCHANGED disk

WriteLate(i, job) == /\ disk' = [mem EXCEPT ![i] = job]
                     /\ UNCHANGED mem
WriteLost         == UNCHANGED store

\* The line: <<i, j>> is in it when i was accepted before j and neither has
\* been started, and <<i, i>> when i is such a job.
InLine    == {i \in Ids : <<i, i>> \in line}
Joins(i)  == line' = line \cup {<<j, i>> : j \in InLine \cup {i}}
Leaves(i) == line' = {p \in line : i \notin {p[1], p[2]}}
------------------------------------------------------------------------------
(***************************************************************************)
(* The service: calls of HTTP handlers.                                    *)
(***************************************************************************)
\* Handlers run until the server has shut down.
Serving == phase \in {"up", "stopping"}

\* mu.Lock(), then the check that the service is open.
Enter(c) == /\ Serving
            /\ mu = Nobody
            /\ ~closed
            /\ call[c].at = "idle"

\* A plausible slip: an early return keeps the mutex.
BugReturn(c) == /\ UNCHANGED mu
                /\ call' = [call EXCEPT ![c] = Idle]

\* Return from the call: mu.Unlock().
Return(c) == /\ mu' = Nobody
             /\ call' = [call EXCEPT ![c] = Idle]

\* A plausible slip: the mutex guards the write only.
BugGoDeliver(c, i) ==
  /\ mu' = Nobody
  /\ call' = [call EXCEPT ![c] = [at |-> "deliver", id |-> i, job |-> NoJob]]

\* Go on to the delivery of job i, which the store has accepted.
GoDeliver(c, i) ==
  /\ mu' = c
  /\ call' = [call EXCEPT ![c] = [at |-> "deliver", id |-> i, job |-> NoJob]]

\* What the clock may read: some ticks after the latest creation on record, or zero
\* with none there.  It may repeat a reading; it is assumed not to step back between
\* two creations.
Newest == {i \in Ids : \A j \in Ids : mem[j].created =< mem[i].created}
Clock  == IF mem = Empty THEN {0} ELSE {mem[i].created + d : i \in Newest, d \in Ticks}

\* Create: the service is open, the queue is not full, the ID is fresh (the
\* generator is asked again on a collision) and the store takes the new job.
Create(c, i) ==
  /\ Enter(c)
  /\ Len(queue) < Capacity
  /\ mem[i].status = "absent"
  /\ \E now \in Clock :
       \/ /\ WriteOk(i, NewJob(now))
          /\ GoDeliver(c, i)
          /\ Joins(i)
       \/ /\ WriteLate(i, NewJob(now))
          /\ UNCHANGED <<mu, call, line>>
  /\ UNCHANGED <<queue, closed, worker, phase, sent>>

\* Plausible slips: the status is read outside the mutex; every settled job can
\* be retried.
BugRetryUnlocked(c, i) ==
  /\ Serving
  /\ ~closed
  /\ call[c].at = "idle"
  /\ mem[i].status = "failed"
  /\ mem[i].attempts < MaxAttempts
  /\ mu' = c
  /\ call' = [call EXCEPT ![c] = [at |-> "update", id |-> i, job |-> mem[i]]]
  /\ UNCHANGED <<mem, disk, queue, closed, worker, phase, sent, line>>
BugRetrySettled(c, i) ==
  /\ Enter(c)
  /\ mem[i].status \in {"failed", "succeeded"}
  /\ mem[i].attempts < MaxAttempts
  /\ mu' = c
  /\ call' = [call EXCEPT ![c] = [at |-> "update", id |-> i, job |-> mem[i]]]
  /\ UNCHANGED <<mem, disk, queue, closed, worker, phase, sent, line>>

\* Retry, first half: lock and read a copy of the job, which must have failed.
RetryGet(c, i) ==
  /\ Enter(c)
  /\ mem[i].status = "failed"
  /\ mem[i].attempts < MaxAttempts
  /\ mu' = c
  /\ call' = [call EXCEPT ![c] = [at |-> "update", id |-> i, job |-> mem[i]]]
  /\ UNCHANGED <<mem, disk, queue, closed, worker, phase, sent, line>>

\* Retry, second half: with room in the queue, write the copy back as queued.
RetryUpdate(c) ==
  LET i   == call[c].id
      job == Transition(call[c].job, "queued")
  IN /\ call[c].at = "update"
     /\ \/ /\ Len(queue) >= Capacity
           /\ Return(c)
           /\ UNCHANGED <<mem, disk, history>>
        \/ /\ Len(queue) < Capacity
           /\ WriteOk(i, job)
           /\ GoDeliver(c, i)
           /\ sent' = [sent EXCEPT ![i] = 0]
           /\ Joins(i)
        \/ /\ Len(queue) < Capacity
           /\ WriteLate(i, job)
           /\ Return(c)
           /\ sent' = [sent EXCEPT ![i] = 0]
           /\ UNCHANGED line
        \/ /\ Len(queue) < Capacity
           /\ WriteLost
           /\ Return(c)
           /\ UNCHANGED history
     /\ UNCHANGED <<queue, closed, worker, phase>>

\* The last step of both calls: send the ID without blocking and return.  With
\* no room the send fails, and the stored job is in no queue.
Deliver(c) ==
  /\ call[c].at = "deliver"
  /\ queue' = IF Len(queue) < Capacity THEN Append(queue, call[c].id) ELSE queue
  /\ Return(c)
  /\ UNCHANGED <<mem, disk, closed, worker, phase, history>>
------------------------------------------------------------------------------
(***************************************************************************)
(* The worker goroutine.                                                   *)
(***************************************************************************)
Work(at, i, job) == worker' = [at |-> at, id |-> i, job |-> job]

\* Run returns; the deferred function has still to close the service.
Quit == worker' = Resting("stopped")

\* A job ID is received.
Dequeue ==
  /\ phase = "up"
  /\ worker.at = "idle"
  /\ queue # <<>>
  /\ Work("get", Head(queue), NoJob)
  /\ queue' = Tail(queue)
  /\ UNCHANGED <<store, service, phase, history>>

\* With the context cancelled and IDs waiting, select may take either: an ID
\* received now is dropped, and the job stays queued in the store.
QuitIdle ==
  /\ phase = "stopping"
  /\ worker.at = "idle"
  /\ queue' \in {queue} \cup {Tail(q) : q \in {queue} \ {<<>>}}
  /\ Quit
  /\ UNCHANGED <<store, service, phase, history>>

\* The job is read; only a queued one is started.  A failing read is repeated
\* until it succeeds or the context is cancelled.
Get ==
  /\ worker.at = "get"
  /\ IF phase = "stopping" THEN Quit
     ELSE IF mem[worker.id].status = "queued"
          THEN Work("persist", worker.id, Transition(mem[worker.id], "rendering"))
          ELSE worker' = Idle
  /\ UNCHANGED <<store, queue, service, phase, history>>

\* Where a successful write takes the worker.
Continue(job) == CASE job.status = "rendering" -> "render"
                [] job.status = "printing"  -> "print"
                [] OTHER                    -> "idle"

AfterPersist ==
  IF phase = "stopping" THEN Quit
  ELSE IF Continue(worker.job) = "idle" THEN worker' = Idle
  ELSE Work(Continue(worker.job), worker.id, worker.job)

\* The worker's copy is written.
Persist ==
  /\ worker.at = "persist"
  /\ WriteOk(worker.id, worker.job)
  /\ AfterPersist
  /\ Leaves(worker.id)
  /\ UNCHANGED <<queue, service, phase, sent>>

\* A plausible slip: the worker drops the job when the store fails.
BugPersistFails ==
  /\ worker.at = "persist"
  /\ \/ WriteLate(worker.id, worker.job)
     \/ WriteLost
  /\ IF phase = "stopping" THEN Quit ELSE worker' = Idle
  /\ UNCHANGED <<queue, service, phase, history>>

\* The write fails.  It is repeated, with the same copy, unless the context is
\* cancelled.
PersistFails ==
  /\ worker.at = "persist"
  /\ \/ WriteLate(worker.id, worker.job)
     \/ WriteLost
  /\ IF phase = "stopping" THEN Quit ELSE UNCHANGED worker
  /\ UNCHANGED <<queue, service, phase, history>>

\* A plausible slip: a rendering error is reported but not recorded.
BugRender ==
  /\ worker.at = "render"
  /\ IF phase = "stopping" THEN Quit
     ELSE \/ Work("persist", worker.id, Transition(worker.job, "printing"))
          \/ worker' = Idle
  /\ UNCHANGED <<store, queue, service, phase, history>>

\* The renderer returns.  Once the context is cancelled no later write of this
\* worker can succeed, so whatever it returns the worker comes to its end.
Render ==
  /\ worker.at = "render"
  /\ IF phase = "stopping" THEN Quit
     ELSE \E job \in {Transition(worker.job, "printing"),
                      Failed(worker.job, "RENDER_FAILED")} :
            Work("persist", worker.id, job)
  /\ UNCHANGED <<store, queue, service, phase, history>>

\* A plausible slip: an error of the print command is not looked at.
BugPrintOutcomes == [taken : BOOLEAN, ok : {TRUE}]

\* What Print may come to: the spooler took the document and Print says so; it
\* refused it; or it took it and Print reports an error (a command killed at
\* its timeout).
PrintOutcomes == {[taken |-> TRUE,  ok |-> TRUE],
                  [taken |-> FALSE, ok |-> FALSE],
                  [taken |-> TRUE,  ok |-> FALSE]}

PrintPDF ==
  /\ worker.at = "print"
  /\ \E r \in PrintOutcomes :
       /\ sent' = IF r.taken THEN [sent EXCEPT ![worker.id] = @ + 1] ELSE sent
       /\ IF phase = "stopping" THEN Quit
          ELSE Work("persist", worker.id,
                    IF r.ok THEN Transition(worker.job, "succeeded")
                            ELSE Failed(worker.job, "PRINT_COMMAND_FAILED"))
  /\ UNCHANGED <<store, queue, service, phase, line>>

\* Service.Close, deferred by Run: it waits for the call that holds mu.
Close ==
  /\ worker.at = "stopped"
  /\ mu = Nobody
  /\ closed' = TRUE
  /\ worker' = Resting("done")
  /\ UNCHANGED <<store, queue, mu, call, phase, history>>
------------------------------------------------------------------------------
(***************************************************************************)
(* The process.                                                            *)
(***************************************************************************)
\* Everything but the disk is gone.
ProcessEnds ==
  /\ mem' = Empty
  /\ queue' = <<>>
  /\ mu' = Nobody
  /\ closed' = FALSE
  /\ call' = [c \in Clients |-> Idle]
  /\ worker' = Idle
  /\ phase' = "off"

\* The process starts: NewJSONStore reads the file.
Load ==
  /\ phase = "off"
  /\ mem' = disk
  /\ phase' = "loaded"
  /\ line' = {p \in line : \A i \in {p[1], p[2]} : disk[i].status = "queued"}
  /\ UNCHANGED <<disk, queue, service, worker, sent>>

\* RecoverInterrupted: one write settles every job left in progress; without
\* one there is nothing to write.  Any error ends the start-up.
Recover ==
  LET next == [i \in Ids |-> Interrupted(mem[i])]
  IN /\ phase = "loaded"
     /\ \/ /\ mem' = next
           /\ disk' = next
           /\ phase' = "recovered"
           /\ UNCHANGED <<queue, service, worker>>
        \/ /\ next # mem
           /\ disk' = next
           /\ ProcessEnds
     /\ UNCHANGED history

\* The line in which the elements of a sequence stand.
OrderOf(s) == {p \in Ids \X Ids : \E m, n \in DOMAIN s : m =< n /\ p = <<s[m], s[n]>>}

Waiting == {i \in Ids : mem[i].status = "queued"}

\* A plausible slip: the sort looks at the IDs only.
BugBefore(i, j) == i < j

\* The order in which ResumeQueued sorts the jobs it finds.
Before(i, j) == \/ mem[i].created < mem[j].created
                \/ mem[i].created = mem[j].created /\ i < j

InOrder(s) == \A m, n \in DOMAIN s : m < n => Before(s[m], s[n])

\* ResumeQueued fills the new queue with the jobs that wait on disk, after
\* checking that all of them fit; then the server and the worker start.
Resume ==
  /\ phase = "recovered"
  /\ \/ /\ Cardinality(Waiting) =< Capacity
        /\ \E s \in [1..Cardinality(Waiting) -> Waiting] :
             /\ InOrder(s)
             /\ queue' = s
             /\ line' = OrderOf(s)
        /\ phase' = "up"
        /\ UNCHANGED <<mem, service, worker>>
     \/ /\ Cardinality(Waiting) > Capacity
        /\ ProcessEnds
        /\ UNCHANGED line
  /\ UNCHANGED <<disk, sent>>

\* SIGTERM, an interrupt, or the HTTP server failing: the context of the
\* worker is cancelled and the server starts to shut down.
Cancel ==
  /\ phase = "up"
  /\ phase' = "stopping"
  /\ UNCHANGED <<store, queue, service, worker, history>>

\* The orderly end, after the worker's: shutdown has returned, drained or not.
Exit ==
  /\ phase = "stopping"
  /\ worker.at = "done"
  /\ ProcessEnds
  /\ UNCHANGED <<disk, history>>

\* The process dies (or a start-up step fails).
Crash ==
  /\ phase # "off"
  /\ ProcessEnds
  /\ UNCHANGED <<disk, history>>
------------------------------------------------------------------------------
ServiceStep(c) == \/ \E i \in Ids : Create(c, i) \/ RetryGet(c, i)
                  \/ RetryUpdate(c)
                  \/ Deliver(c)

WorkerStep == \/ Dequeue \/ QuitIdle \/ Get \/ Persist \/ PersistFails
              \/ Render \/ PrintPDF \/ Close

Next == \/ \E c \in Clients : ServiceStep(c)
        \/ WorkerStep
        \/ Load \/ Recover \/ Resume \/ Cancel \/ Exit \/ Crash

Spec == Init /\ [][Next]_vars

(***************************************************************************)
(* Fairness.  A goroutine that can run does run.  The store accepts a      *)
(* write in the end (WF on Persist, which a failing attempt leaves         *)
(* enabled).  Go's mutex goes to a waiter after a while, however often     *)
(* other calls take it in between (SF on Close).  Nothing makes clients    *)
(* call, an operator start or stop the agent, or a process die.            *)
(***************************************************************************)
Fairness ==
  /\ \A c \in Clients : WF_vars(RetryUpdate(c)) /\ WF_vars(Deliver(c))
  /\ WF_vars(Dequeue) /\ WF_vars(QuitIdle) /\ WF_vars(Get)
  /\ WF_vars(Persist) /\ WF_vars(Persist \/ PersistFails)
  /\ WF_vars(Render) /\ WF_vars(PrintPDF)
  /\ SF_vars(Close) /\ WF_vars(Exit)
------------------------------------------------------------------------------
(***************************************************************************)
(* Properties.                                                             *)
(***************************************************************************)
\* The worker goroutine is running its loop.
Working == phase \in {"up", "stopping"} /\ worker.at \notin {"stopped", "done"}

\* The worker has taken an ID it has not recorded as started.
Taken == IF \/ worker.at = "get"
            \/ worker.at = "persist" /\ worker.job.status = "rendering"
         THEN <<worker.id>> ELSE <<>>

\* The mutex holder has a stored job to send.
Delivered == IF mu \in Clients /\ call[mu].at = "deliver" THEN <<call[mu].id>> ELSE <<>>

\* The jobs on their way to the worker, the next one first.
Held == Taken \o queue \o Delivered

Places(i) == Cardinality({n \in DOMAIN Held : Held[n] = i})

\* While the worker runs, a queued job is on its way to it exactly once, and
\* no other job is: no durable job is stranded outside the queue and none is
\* processed twice (store first, send second, under one mutex).
QueuedIsHeldOnce ==
  Working => \A i \in Ids :
    Places(i) = IF mem[i].status = "queued" THEN 1 ELSE 0

\* While the worker runs, a job that reads rendering or printing is the one in
\* the worker's hands, at that stage: the status a client polls never sticks.
InProgressIsHeld ==
  Working => \A i \in Ids : InProgress(mem[i]) =>
    /\ worker.id = i
    /\ worker.job.status = mem[i].status \/ worker.at = "persist"

\* Jobs reach the worker in the order in which creations and retries were
\* accepted by the store.
HeldInAcceptanceOrder == Working => OrderOf(Held) = line

\* One request of an operator hands the spooler at most one document, whatever
\* crashes, restarts and failed writes come between (at-least-once is left to
\* the operator's own retry).
PrintedOncePerRequest == \A i \in Ids : sent[i] =< 1

\* What the program shows of its jobs: its memory, or the file when it is off.
Shown == IF phase = "off" THEN disk ELSE mem

\* What a settled job says is true: a success was taken by the spooler, and a
\* job that failed in rendering left nothing there.
OutcomeIsTrue ==
  \A i \in Ids : \A job \in {Shown[i], disk[i]} :
    /\ job.status = "succeeded" => sent[i] = 1
    /\ job.error = "RENDER_FAILED" => sent[i] = 0

\* Whatever failed writes there were, the file is the collection in memory or
\* one legal step of one job ahead of it: what a crash can bring to light.
DiskOneStepAhead ==
  phase # "off" =>
    \/ disk = mem
    \/ \E i \in Ids : /\ disk = [mem EXCEPT ![i] = disk[i]]
                      /\ \/ CanTransition(mem[i].status, disk[i].status)
                         \/ mem[i] = NoJob /\ disk[i].status = "queued"

\* A job that was accepted and not started is still waiting on the disk, where
\* a restart finds it (started on disk at most by a write reported as failed).
AcceptedSurvives == \A i \in InLine : disk[i].status \in {"queued", "rendering"}

\* A restart brings up what is waiting in the order in which it was accepted,
\* between jobs that no operator has retried and that the clock tells apart,
\* whatever jobs with equal readings stand around them (service.go:222-233).
NeverRetried(p) == \A i \in {p[1], p[2]} : disk[i].attempts = 0
ToldApart(p) == disk[p[1]].created # disk[p[2]].created
ResumeKeepsOrder ==
  [][(phase = "recovered" /\ phase' = "up") =>
       \A p \in line : NeverRetried(p) /\ ToldApart(p) => p \in line']_vars

\* What the FIFO of README.md:115 and docs/api.md:289 makes of a restart: the
\* same order between all waiting jobs, the retried ones included.
ResumeKeepsWholeOrder ==
  [][(phase = "recovered" /\ phase' = "up") => line \subseteq line']_vars

\* The agent can be started on every collection it left behind, as service.go:200
\* and docs/testing.md:34 have it: no more than Capacity jobs are ever waiting.
WaitingJobsFit == phase = "recovered" => Cardinality(Waiting) =< Capacity

\* Every job follows the life cycle across handlers, worker, failed writes,
\* crashes and restarts.
Lifecycle == INSTANCE JobLifecycle WITH jobs <- Shown
ImplementsLifecycle == Lifecycle!Spec

\* A job found waiting while the agent is up is settled unless the agent stops.
EventuallySettled ==
  \A i \in Ids : (phase = "up" /\ mem[i].status = "queued") ~>
                    (phase # "up" \/ mem[i].status \in {"succeeded", "failed"})

\* A stop comes to its end, whatever calls and writes are under way.
StopCompletes == (phase = "stopping") ~> (phase = "off")
==============================================================================
