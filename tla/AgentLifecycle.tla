---------------------------- MODULE AgentLifecycle ----------------------------
(***************************************************************************)
(* cmd/local-print-agent/main.go with internal/instance: agent processes   *)
(* started on one data directory.  A start takes the directory's lock      *)
(* before it reads anything; a stop lets go of it after the HTTP server    *)
(* has shut down, or five seconds have passed, and the worker is done.     *)
(*                                                                         *)
(* Inside a process: handlers, which reach the store under the mutex of    *)
(* the service; the worker, whose last act is to close the service; the    *)
(* goroutines that serve, that shut the server down and that wait for both *)
(* (startWithBuilder).  What is stored is reduced to the set of jobs in    *)
(* jobs.json: each write puts the writer's own collection in its place.    *)
(***************************************************************************)
EXTENDS Naturals, FiniteSets

CONSTANTS
  Processes,
  Handlers,   \* HTTP handlers of each process
  Jobs,
  Free        \* the holder of a lock nobody has

ASSUME LifecycleAssumption == Free \notin Processes \cup Handlers

VARIABLES
  lock,     \* the process that holds .local-print-agent.lock
  disk,     \* the jobs in jobs.json
  acked,    \* history: the jobs whose creation was answered with success
  pc,       \* how far main is
  mem,      \* the jobs in the process's memory
  stop,     \* "no", or what has come of the cancelled context: the server is
            \* shut down by a goroutine that waits for it
  serving,  \* Serve has not returned
  worker,   \* the worker goroutine; "busy" holds a job, "writing" its record
  mu,       \* the handler that holds the service's mutex
  closed,   \* the service is closed
  call      \* what each handler is doing

data == <<disk, acked, mem>>
main == <<lock, pc, stop, serving>>
service == <<mu, closed, call>>
vars == <<data, main, worker, service>>

TypeOK ==
  /\ lock \in Processes \cup {Free}
  /\ disk \subseteq Jobs /\ acked \subseteq Jobs
  /\ pc \in [Processes -> {"off", "locked", "loaded", "ready", "up", "released"}]
  /\ mem \in [Processes -> SUBSET Jobs]
  /\ stop \in [Processes -> {"no", "cancelled", "draining", "drained"}]
  /\ serving \in [Processes -> BOOLEAN]
  /\ worker \in [Processes -> {"idle", "busy", "writing", "stopped", "done"}]
  /\ mu \in [Processes -> Handlers \cup {Free}]
  /\ closed \in [Processes -> BOOLEAN]
  /\ call \in [Processes -> [Handlers -> {"idle", "reading", "writing"}]]

Init ==
  /\ lock = Free
  /\ disk = {} /\ acked = {}
  /\ pc = [p \in Processes |-> "off"]
  /\ mem = [p \in Processes |-> {}]
  /\ stop = [p \in Processes |-> "no"]
  /\ serving = [p \in Processes |-> FALSE]
  /\ worker = [p \in Processes |-> "idle"]
  /\ mu = [p \in Processes |-> Free]
  /\ closed = [p \in Processes |-> FALSE]
  /\ call = [p \in Processes |-> [h \in Handlers |-> "idle"]]
------------------------------------------------------------------------------
(***************************************************************************)
(* Starting.                                                               *)
(***************************************************************************)
At(p, from, to) == pc[p] = from /\ pc' = [pc EXCEPT ![p] = to]

\* The lock is taken without waiting; a process that does not get it has
\* touched nothing and is over.
Acquire(p) ==
  /\ At(p, "off", "locked")
  /\ lock = Free
  /\ lock' = p
  /\ UNCHANGED <<data, stop, serving, worker, service>>

\* The application is built: jobs.json is read,
Load(p) ==
  /\ At(p, "locked", "loaded")
  /\ mem' = [mem EXCEPT ![p] = disk]
  /\ UNCHANGED <<disk, acked, lock, stop, serving, worker, service>>

\* interrupted jobs are settled in it, and the queue is filled.
Recover(p) ==
  /\ At(p, "loaded", "ready")
  /\ disk' = mem[p]
  /\ UNCHANGED <<acked, mem, lock, stop, serving, worker, service>>

\* A port is found, and the goroutines start.
Up(p) ==
  /\ At(p, "ready", "up")
  /\ serving' = [serving EXCEPT ![p] = TRUE]
  /\ UNCHANGED <<data, lock, stop, worker, service>>

\* A plausible slip: a start that fails keeps the lock.
BugStartFails(p) ==
  /\ \E from \in {"locked", "loaded", "ready"} : At(p, from, "released")
  /\ UNCHANGED <<data, lock, stop, serving, worker, service>>

\* Any step of the start can fail; the deferred function releases the lock.
StartFails(p) ==
  /\ \E from \in {"locked", "loaded", "ready"} : At(p, from, "released")
  /\ lock' = Free
  /\ UNCHANGED <<data, stop, serving, worker, service>>
------------------------------------------------------------------------------
(***************************************************************************)
(* Handlers.  They are not tied to the server: one that is running when    *)
(* Shutdown gives up goes on until the process is gone.                    *)
(***************************************************************************)
Handling(p, h, at) == call' = [call EXCEPT ![p][h] = at]

\* A request is accepted while the listener is open.
Request(p, h) ==
  /\ serving[p]
  /\ stop[p] \in {"no", "cancelled"}
  /\ call[p][h] = "idle"
  /\ Handling(p, h, "reading")
  /\ UNCHANGED <<data, main, worker, mu, closed>>

\* A plausible slip: the mutex is recorded in the name of the process.
BugEnter(p, h) ==
  /\ call[p][h] = "reading"
  /\ mu[p] = Free
  /\ mu' = [mu EXCEPT ![p] = p]
  /\ Handling(p, h, "writing")
  /\ UNCHANGED <<data, main, worker, closed>>

\* The body has come in; with the mutex, a closed service refuses the call.
Enter(p, h) ==
  /\ call[p][h] = "reading"
  /\ mu[p] = Free
  /\ IF closed[p] THEN Handling(p, h, "idle") /\ UNCHANGED mu
     ELSE Handling(p, h, "writing") /\ mu' = [mu EXCEPT ![p] = h]
  /\ UNCHANGED <<data, main, worker, closed>>

\* The client goes away before its request is complete.
Abandon(p, h) ==
  /\ call[p][h] = "reading"
  /\ Handling(p, h, "idle")
  /\ UNCHANGED <<data, main, worker, mu, closed>>

\* The service writes a job, new or retried, and answers; or the write fails,
\* before or after the file was replaced.
Write(p, h) ==
  /\ call[p][h] = "writing"
  /\ \E j \in Jobs, ok \in BOOLEAN :
       /\ disk' \in {mem[p] \cup {j}} \cup (IF ok THEN {} ELSE {disk})
       /\ mem' = IF ok THEN [mem EXCEPT ![p] = @ \cup {j}] ELSE mem
       /\ acked' = IF ok THEN acked \cup {j} ELSE acked
  /\ mu' = [mu EXCEPT ![p] = Free]
  /\ Handling(p, h, "idle")
  /\ UNCHANGED <<main, worker, closed>>
------------------------------------------------------------------------------
(***************************************************************************)
(* The worker.                                                             *)
(***************************************************************************)
Works(p, from, to) == worker[p] = from /\ worker' = [worker EXCEPT ![p] = to]

\* It takes a job, renders and prints it, and writes its record now and then.
Work(p) ==
  /\ pc[p] = "up"
  /\ stop[p] = "no"
  /\ \/ Works(p, "idle", "busy") \/ Works(p, "busy", "writing") \/ Works(p, "busy", "idle")
  /\ UNCHANGED <<data, main, service>>

\* A write that was under way when the context was cancelled may still succeed.
Record(p) ==
  /\ Works(p, "writing", "busy")
  /\ disk' \in {disk, mem[p]}
  /\ UNCHANGED <<acked, mem, main, service>>

\* Run's loop ends; a renderer or printer at work has cleaned up by then.
WorkerStops(p) ==
  /\ pc[p] = "up"
  /\ stop[p] # "no"
  /\ Works(p, "idle", "stopped") \/ Works(p, "busy", "stopped")
  /\ UNCHANGED <<data, main, service>>

\* A plausible slip: the service is closed without its mutex.
BugCloseService(p) ==
  /\ Works(p, "stopped", "done")
  /\ closed' = [closed EXCEPT ![p] = TRUE]
  /\ UNCHANGED <<data, main, mu, call>>

\* Service.Close waits for the call that holds the mutex; then Done is closed.
CloseService(p) ==
  /\ Works(p, "stopped", "done")
  /\ mu[p] = Free
  /\ closed' = [closed EXCEPT ![p] = TRUE]
  /\ UNCHANGED <<data, main, mu, call>>
------------------------------------------------------------------------------
(***************************************************************************)
(* Stopping.                                                               *)
(***************************************************************************)
Stops(p, from, to) == stop[p] = from /\ stop' = [stop EXCEPT ![p] = to]

\* A signal, or Serve returning with an error, cancels the context.
Cancel(p) ==
  /\ pc[p] = "up"
  /\ Stops(p, "no", "cancelled")
  /\ serving' \in {serving, [serving EXCEPT ![p] = FALSE]}
  /\ UNCHANGED <<data, lock, pc, worker, service>>

\* Shutdown begins: the listener is closed.
Shutdown(p) ==
  /\ Stops(p, "cancelled", "draining")
  /\ UNCHANGED <<data, lock, pc, serving, worker, service>>

\* Serve returns as soon as Shutdown has begun.
ServeReturns(p) ==
  /\ serving[p]
  /\ stop[p] \in {"draining", "drained"}
  /\ serving' = [serving EXCEPT ![p] = FALSE]
  /\ UNCHANGED <<data, lock, pc, stop, worker, service>>

\* A plausible slip: Shutdown has no deadline.
BugShutdownReturns(p) ==
  /\ Stops(p, "draining", "drained")
  /\ \A h \in Handlers : call[p][h] = "idle"
  /\ UNCHANGED <<data, lock, pc, serving, worker, service>>

\* Shutdown returns once no handler is running, or after five seconds.
ShutdownReturns(p) ==
  /\ Stops(p, "draining", "drained")
  /\ UNCHANGED <<data, lock, pc, serving, worker, service>>

\* A plausible slip: the worker is not waited for.
BugRelease(p) ==
  /\ At(p, "up", "released")
  /\ ~serving[p] /\ stop[p] = "drained"
  /\ lock' = Free
  /\ UNCHANGED <<data, stop, serving, worker, service>>

\* With Serve and Shutdown returned and the worker done the lock is released.
Release(p) ==
  /\ At(p, "up", "released")
  /\ ~serving[p] /\ stop[p] = "drained" /\ worker[p] = "done"
  /\ lock' = Free
  /\ UNCHANGED <<data, stop, serving, worker, service>>

\* Nothing of the process is left.
Ends(p) ==
  /\ pc' = [pc EXCEPT ![p] = "off"]
  /\ mem' = [mem EXCEPT ![p] = {}]
  /\ stop' = [stop EXCEPT ![p] = "no"]
  /\ serving' = [serving EXCEPT ![p] = FALSE]
  /\ worker' = [worker EXCEPT ![p] = "idle"]
  /\ mu' = [mu EXCEPT ![p] = Free]
  /\ closed' = [closed EXCEPT ![p] = FALSE]
  /\ call' = [call EXCEPT ![p] = [h \in Handlers |-> "idle"]]
  /\ UNCHANGED <<disk, acked>>

\* main returns (or reports an error and exits).
Exit(p) == pc[p] = "released" /\ Ends(p) /\ UNCHANGED lock

\* The process dies; the system takes its lock back.
Crash(p) ==
  /\ pc[p] # "off"
  /\ Ends(p)
  /\ lock' = IF lock = p THEN Free ELSE lock
------------------------------------------------------------------------------
HandlerStep(p) == \E h \in Handlers : \/ Request(p, h) \/ Enter(p, h)
                                      \/ Abandon(p, h) \/ Write(p, h)

Step(p) == \/ Acquire(p) \/ Load(p) \/ Recover(p) \/ Up(p) \/ StartFails(p)
           \/ HandlerStep(p)
           \/ Work(p) \/ Record(p) \/ WorkerStops(p) \/ CloseService(p)
           \/ Cancel(p) \/ Shutdown(p) \/ ServeReturns(p) \/ ShutdownReturns(p)
           \/ Release(p) \/ Exit(p) \/ Crash(p)

Next == \E p \in Processes : Step(p)

Spec == Init /\ [][Next]_vars

(***************************************************************************)
(* Fairness.  Goroutines that can run do run; a cancelled renderer or      *)
(* printer returns; a mutex is not kept from a waiter for ever (SF on      *)
(* CloseService: Go's mutexes hand over to a starving waiter).  A client   *)
(* may take as long as it likes over its request: nothing is assumed of    *)
(* Enter and Abandon.                                                      *)
(***************************************************************************)
Fairness ==
  \A p \in Processes :
    /\ \A h \in Handlers : WF_vars(Write(p, h))
    /\ WF_vars(Record(p)) /\ WF_vars(WorkerStops(p)) /\ SF_vars(CloseService(p))
    /\ WF_vars(Shutdown(p)) /\ WF_vars(ServeReturns(p))
    /\ WF_vars(ShutdownReturns(p)) /\ WF_vars(Release(p))

FairSpec == Spec /\ Fairness
------------------------------------------------------------------------------
\* A process is reading or writing the data directory, or about to.
UsesData(p) == \/ pc[p] \in {"locked", "loaded", "ready"}
               \/ worker[p] \in {"busy", "writing"}
               \/ mu[p] # Free

\* Only the holder of the lock uses the data directory: not a second start, and
\* not a handler or a worker that outlives the shutdown (main.go:124, 175-186 with
\* service.go:73 and worker.go:74).  And a process whose start has failed, at whatever
\* step, or whose stop is done keeps the lock from nobody (main.go:129-133).
OnlyOwnerUsesData ==
  \A p \in Processes : /\ UsesData(p) => lock = p
                       /\ lock = p => pc[p] \notin {"off", "released"}

\* No job that a client was told of is lost from the file, whichever process
\* writes it and however the one before it ended.
AcknowledgedStays == acked \subseteq disk

\* A stop gets to the point where another start can have the directory, even
\* with a client that never completes its request.
StopReleases == \A p \in Processes : (stop[p] # "no") ~> (lock # p)

\* What docs/testing.md:37 says of a stop: the lock is released after the handlers
\* that were running have returned.
LockOutlivesHandlers ==
  \A p \in Processes : pc[p] = "released" => \A h \in Handlers : call[p][h] = "idle"
==============================================================================
