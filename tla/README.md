# A verification of local-print-agent

local-print-agent takes print jobs over HTTP on the loopback interface, renders
them to PDF with Chromium and hands them to the system's spooler, one after the
other. Jobs are kept in one JSON file and survive restarts. This directory holds
TLA+ models of the parts of the program that decide whether a job gets lost,
printed twice, reported wrongly or stuck, TLC configurations that check them and
proofs that TLAPS checks.

## 1. Inventory

| Component | State it keeps | Operations | Talks to |
|---|---|---|---|
| Job model (`internal/jobs/model.go`, `state.go`) | the job record | `CanTransition`, `Transition` | used by all |
| Job service (`internal/jobs/service.go`) | mutex, `closed`, number of deliveries, queue | `Create`, `Retry`, `Get`, `List`, `ResumeQueued`, `Close` | called by HTTP handlers and `main`; calls the store; sends IDs to the worker through the buffered channel |
| Worker (`internal/worker/worker.go`) | the job in hand | `Run` (receive, `process`, `persist`, `fail`), `Done`, `Errors` | receives IDs; calls store, renderer, printer; closes the service at its end |
| Job store (`internal/store/json_store.go`) | map of jobs, `jobs.json`, lock | `NewJSONStore`, `Create`, `Update`, `Get`, `List`, `RecoverInterrupted` | called by service, worker, `main` |
| Process (`cmd/local-print-agent/main.go`) | context, four goroutines | `startWithBuilder`, shutdown | assembles everything |
| Instance lock (`internal/instance`) | lock on the data directory | `Acquire`, `Close` | taken by `main` before anything is read |
| HTTP API (`internal/httpapi`) | the launch's token for file pages | routes, methods, limits, error codes, preview, grant to file pages | calls service, printer list, files |
| Validation (`internal/jobs/validate.go`) | none | `NormalizeCreateRequest` | called by `Create` |
| PDF renderer (`internal/render/pdf.go`, ...) | permit, `data/jobs/<id>/` | `Render`, `recoverInterruptedPublishes` | called by the worker; runs Chromium |
| Printer adapters (`internal/printer`) | none | `List`, `Print` | run `lp`, `lpstat`, SumatraPDF |
| Web console (`web/app.js`) | shown jobs, busy buttons, error line | refresh, detail, retry, create | polls the HTTP API |
| Configuration, listener (`internal/config`, `internal/server`) | candidate ports | `ListenFirstAvailable` | `main` at start-up; the page asks the same ports |
| HTML templates (`internal/render/*.html`, `balloon.go`, `source.go`) | none | decode the payload again, fill in the document | called by the renderer |
| Fake renderer and printer, start scripts | none | | stand in for the real ones; start the program |

How they interact. A handler holds the service's mutex while the store writes and
while the ID goes to the channel. The worker owns a job from the moment it receives
its ID, and writes each stage to the store before it goes on. A stop cancels the
worker's context; the worker closes the service; the lock of the directory goes
last. A start reads the file, fails the jobs that were in progress, sends the waiting
ones to the new channel and only then serves.

What is hard here:

* handlers, the worker and a stop interleave around two pieces of state that must
  agree: the job's status in the store and the ID in the channel;
* a store write can fail before or after it has replaced the file, and is repeated;
* the process can die between any two steps, and what the spooler did is not undone;
* `lp` can be killed at its timeout after it has handed the document over;
* a stop has a deadline: handlers may outlive it, and another agent may start;
* the page's calls overlap, each with its own button, answers come late or not at all, and all
  of them write to one table and one error line;
* agents of several directories, earlier launches and other programs share eight ports;
* a service trusts its channel only as far as it can count.

What makes each component correct:

* service and worker: a waiting job is in the queue exactly once; jobs go in the order of
  their acceptance; no job is printed twice without an operator's request; a success is
  true; nothing stays "rendering" for ever; a stop ends;
* store: interleaved, failing writes are whole writes in some order; a crash finds a
  file that decodes and is at most one write away from what was reported;
* process and lock: one process at a time uses the directory, and a stop lets go of it;
* renderer: the preview on disk is always whole, and of the attempt it is reported for;
* printer: what is printed is the file that was checked;
* web console: what it says of a creation or a retry is what came of it; an operator's error
  is not hidden by the timer once the page is open; the table follows the agent in the end;
* discovery: a page finds the launch whose token it has, and reads no other;
* HTTP API: an answer says what was done, whoever interferes with the channel;
* validation: what is admitted can be printed, and prints as it was sent.

## 2. Modules

| Module | Models | Abstract specification it implements |
|---|---|---|
| `JobRecords` | job record, table of changes, `Transition`, recovery of one job | |
| `JobLifecycle` | what the outside may see of a job: accepted, asked for again, started, rendered, submitted, settled | abstract |
| `AtomicStore` | what the store promises | abstract |
| `PrintPipeline` | service, worker, process; the store as one write per call | `JobLifecycle` |
| `PowerLosses` | `PrintPipeline` on a machine that loses its power, and with it the last writes of the file | |
| `JSONStore` | the store's write path step by step | `AtomicStore` |
| `AgentLifecycle` | processes on one data directory, lock, goroutines of a stop | |
| `RenderPublish` | the documents of one job, from staging to the readers of its preview | |
| `QueueOwnership` | the registry of channels, services that share one, and others who use it | |
| `JobDocument` | a request's content, from admission to the document | |
| `HttpApi` | routes and answers; composes `QueueOwnership` and `JobDocument` | |
| `AgentDiscovery` | launches and other programs on the candidate ports, a page that looks for its launch | |
| `WebConsole` | the page's overlapping calls, its table, buttons and error line | |
| `PrintPromise` | what a call of `Print` may come to | abstract |
| `PrintAdapter` | `Print` on Linux and on Windows, with the system around it | `PrintPromise` |
| `PrintPipelineProofs`, `JSONStoreProofs`, `AgentLifecycleProofs`, `RenderPublishProofs`, `PrintAdapterProofs`, `HttpApiProofs`, `AgentDiscoveryProofs`, `WebConsoleProofs` | theorems about the module of that name | |
| `MC...` | instances for TLC | |

`AtomicStore` says what the code of the store comes to, and `JSONStore` implements it
(`ImplementsAtomicStore`). `PrintPipeline` and `PowerLosses` write the same promise out once more, one action per outcome
of a write (`WriteOk`, `WriteLate`, `WriteLost`) and one for each kind of loss (`Crash`, `PowerLoss`). That the two are the same is read, not
checked: that `PrintPipeline` does nothing outside `AtomicStore` would hold of a store that never fails too, and shows nothing.
`AgentLifecycle` justifies that `PrintPipeline` has
one process at a time with the file to itself, and that a handler which outlives a
stop writes nothing.

### PrintPipeline

Handlers (`Clients`) run `Create` (one step up to the store write, one for the send)
and `RetryGet`, `RetryUpdate`, `Deliver`, holding `mu` throughout. The worker goes
`Dequeue`, `Get`, `Persist`, `Render`, `Persist`, `PrintPDF`, `Persist`; its copy of the job is
`worker.job`. `PersistFails` is a write that reports an error, before (`WriteLost`) or after
(`WriteLate`) the file was replaced. `Cancel`, `QuitIdle`, `Close`, `Exit` are a stop, `Crash` is the
death of the process at any point, `Load`, `Recover`, `Resume` a start. `sent`
counts what the spooler took since the operator last asked for the job; `line` is the
order of acceptance of the jobs that were not started yet. Both are history variables.

Abstractions: error codes of the renderer are one code, so are those of the printer; an
ID collision is a draw of another ID; cancelled requests are calls that did nothing, or lost
writes. The clock may repeat a reading and is assumed not to step back between creations.
`Recover` and `Resume` fail the start as the code does, a crash standing for their other errors.
A write in flight when the context is cancelled may still succeed.

### PowerLosses

The pipeline with the file a power loss leaves behind (`durable`). A write flushes the temporary file before the rename and never the
directory, so a loss may bring back an earlier `jobs.json`, a whole one. Whether a new file is written out before the loss, before the next
replaces it, or never is decided when it is made (`WrittenOut`), which comes to the same. `PowerLoss` is a `Crash` that
puts `durable` in place of the file. `undone` is a history variable: the jobs whose own record went back, until a retry of them has reached
the file; `line` loses their places. What holds of every job in `PrintPipeline` cannot hold of these: one that was printed can be found
queued, one that was acknowledged can be gone. `OnlyUndoneAreHarmed` says that it stops there.

### JSONStore

One action per system call of `writeLocked`; a cancelled context and a failed call are the same
disjunct. `Finish` has the case in which the deferred removal reports an error after the
rename: the file is new, the map is not. `Reported` is what the callers may count on, the file before the rename until the write has
reported. The system writes the directory out when it likes (`Flush`); a power loss brings back the
directory entry it has written last (`onPlatter`) or the newer one, and bytes that were not flushed come
back torn. The code does not flush the directory, so an acknowledged write can be lost to a power loss;
`AtomicStore` has that in its `durable` file, and no document of the repository promises more.

### AgentLifecycle

Per process: how far `main` is, the context and what `Shutdown` has come to (`stop`), `Serve`
(`serving`), the worker, the service's mutex and flag, the handlers. The file is the set of
jobs in it, and each write replaces it by the writer's own collection, so a writer that
does not own the directory undoes what others stored. `ShutdownReturns` needs no handler to have
ended: it covers the shutdown that waited and the one that gave up after five seconds.

### RenderPublish

One action per step of `renderLocked` that another actor or a death can come after: the directory, the
temporary HTML, Chromium, the temporary PDF, the two renames, the deferred clean-up (`Undo`). Each can fail; so a cancelled
context, an unsafe directory and a removal that fails need no steps of their own. `Repair` is
`recoverInterruptedPublishes`, which a start runs before the store recovers the jobs; `Init` includes
the two states in which a version that swapped directories can have died. A reader is a `previewJob`:
`AskPreview`, `StatPreview`, `OpenPreview`, `Answer`. A document is the number of the attempt
that made it, which also stands for the time of its file. The record of the job is written
in one step: the store and its failures are in `PrintPipeline`, and a worker that stops in between is one
that takes no further step before the process ends.

### PrintAdapter

One action per check and command of `Print`; `List` is its middle part (`QueryPowerShell`, or `QueryDestinations`
and `QueryDefault`). `system` is what the adapter looks at and does not control; `SystemChanges` may change all
of it between any two steps. `seen` is a history variable: what has held during the call, of file and program since the
list. `CommandEndsBadly` is a command that reports an error or is killed. That exit code zero means the spooler has
the document is an assumption about `lp` and SumatraPDF. The error codes are all kept here; the pipeline, which treats them
alike, has one. The outcomes of `PrintPromise` are the set `PrintOutcomes` of `PrintPipeline`.

### QueueOwnership, JobDocument and HttpApi

`NewPipeline` keeps its channel to itself, and there `PrintPipeline` is all there is; `QueueOwnership` is the
contract of `NewService` below it. `Enter` is `Create` or `Retry` up to the store, `Store` the write with the
collisions of IDs, `Deliver` the send; each service's mutex is its `call`. `Interfere` is what others may do to the
channel: send, receive, close. The store's write is one step here. One that reports an error changes the answer and not the memory, but may have
reached the file: a call keeps, as history, the job it filed (`filed`) and the job it changed in memory (`wrote`).

`JobDocument` has no state. A text is a core with blanks around it or without; the optional fields, which the code
treats alike, are one. `Admitted` and `Kept` are `NormalizeCreateRequest`, `Renders` and `Document` what the renderers
make of the record they find in the store, with decoders and tables of their own: `Decodes` is the decoder of the admission, `DecodesRender` the copy in the renderer.

`HttpApi` extends both. `Request` is `ServeHTTP` with `jobRoute` on paths given as segments, a segment being several parts if
it has an escaped slash in it; a preflight (`Preflight`) is answered before any route. It answers, or goes on to the service; `Reply` is `writeJobError`. A call keeps, as history, the job its
path means, and the jobs written and sent. The dependencies a router can be built without are always there.

### AgentDiscovery

A launch searches the candidate ports once, in order (`Listen`), and listens until it stops. The page is opened from a
file with the token of some launch, or is served by one. `Probe` is a health request that is answered or refused, `Abort` one
that is given up after a second; `Ask` and `Fetch` are a request and its preflight, between which the port can change
hands. `MayRead` is `corsForFileOrigin` as the browser applies it. `missed` is a history variable: the launch was away at some time of
the search, or let a probe wait. Tokens are drawn at random and taken to be different.

### WebConsole

A slot is room for one call; its phase is the request it awaits. `Proceeds` is what goes on without anybody's doing:
answers, continuations and the timer; `Click...` and `Submit` are the operator. A button of the table is disabled only while it is in
the document, and a list that is shown replaces it by an enabled one (`replaced`), so that with two slots a second retry of a job can overlap the first. `Lose` is a
request or an answer lost with an agent that is down. `did` is a history variable: what the agent made of a POST.
The page may open on an agent that has jobs already, in any state. The kinds of slots
are disjoint: a form, a retry, a detail view and a refresh are different functions.

## 3. Runs

| Run | Instance | Shows |
|---|---|---|
| `pipeline` | 3 jobs, 2 handlers, capacity 2, 2 attempts per job, a clock that may repeat a reading | type and safety invariants, life cycle, order at restart |
| `power_losses` | 2 jobs, 1 handler, capacity 1, 1 power loss | only jobs whose own record went back are harmed; a waiting job is settled; a stop ends |
| `store` | 2 jobs, 2 callers, crashes and power losses | writes are atomic and ordered, the file always decodes, the lock comes back |
| `agents` | 2 processes, 2 handlers each, 2 jobs | one owner, nobody keeps the lock who is done, nothing acknowledged is lost, a stop releases the directory |
| `previews` | 2 readers, 4 attempts | the job keeps a whole PDF, the newest; readers see no mixture |
| `print_call` | 2 printers, both platforms | what is run was checked, errors are true, the promise is kept, a call returns |
| `requests` | 3 services on one channel, one with a router, 2 jobs, capacity 1 | answers are true, one sender, what is admitted prints |
| `discovery` | 3 launches, 3 ports | a page finds its launch and reads no other; its search ends |
| `console` | 1 job; a refresh, a form, a retry and a detail at a time | the page says what came of a call, keeps errors, follows the agent |
| `durable_queue_overflow`, `restart_order`, `handler_outlives_lock` | the smallest that show it | disagreements, section 6 |

Bounds, and why they are enough. `Ids`: three jobs are a job in the worker's hands, one in the queue
and one being accepted, and let the queue of two fill up; two suffice in `power_losses`, one whose record
goes back and one whose record does not. `Clients`: two handlers race for the mutex, a third adds no new pair; the one of `power_losses` contends with
the worker and with `Close`. `MaxLosses`: after a loss the file is all there is, and a second one starts from such a file again. `Capacity`: 2
(or 1) stands for `QueueCapacity` (100); full, empty and in between all occur.
`MaxAttempts` bounds the retries, nothing else does: a job started twice has every history a
third start could begin from. `Ticks` is by how much the clock may move between creations; with 0 in it
readings repeat and ties are broken by ID. Two `Callers` contend for the store's lock. Two `Processes` are an owner and one that
wants to be; each may start again any number of times. Four attempts in `previews` are two of an older version of the
program and two that can replace each other's document; with two `Readers` one can hold the older document while the other asks for the newer.
Of two `Printers` one is asked for and one is there instead.
Three `Services` are an owner, one made while it holds the channel, and one made after it is closed. One channel slot is full and empty by turns. `MaxDeliveries` (2) lets a
service count below and above what is in the channel; `MaxCollisions` (2, in the program 8) is reached with two jobs. The limits of a source are the
program's own, and the sources used are one byte below, at and above them.
Three `Launches` are the page's, an earlier or a later one, and another directory's; three ports are a first, a middle and a last, in the program eight.
In `console` one slot of each kind makes four calls that overlap, three of which bring lists in any order; two retries of one job at
a time, which replaced buttons allow, need a second slot and are beyond the run; `MaxRetries` bounds what the agent accepts, the operator may ask at any time.
Symmetry is used for the handlers of `pipeline` and the readers of `previews`, never in a run with a liveness property.
The models have no deadlock: checking for it is on in every run.

Fairness. `power_losses`: goroutines that can run do run (weak fairness of each handler and worker
step); the store accepts a write in the end (weak fairness of `Persist`: the worker repeats without
limit, and this is the assumption under which repeating helps); Go's mutex hands over to a waiter that starves
(strong fairness of `Close`). Nothing is assumed of clients, operators, crashes or losses of power.
`store`: a system call returns, with success or not. `agents`: as `power_losses`; a client
may leave its request incomplete for ever. `discovery`: a port nobody listens on refuses, and the browser's timer fires after a second; a program
that accepts and never answers is allowed. `console`: the browser runs its timer and the continuations, and a request is answered or its connection refused or
reset; nothing is assumed of clicks, the worker, or the agent's coming back. `print_call`: each step of a call comes to its end, for every command is killed after
thirty seconds (weak fairness of the call, none of the command); a killed command leaves no descendant with its pipes.

Every property has a mutant in `PROJECT.json`: a slip in one definition (`Bug...`, placed before the definition
it would replace) under which TLC finds the property violated.

## 4. Properties

| Property | In words |
|---|---|
| `QueuedIsHeldOnce` | a job reads queued exactly if it is once on its way to the worker |
| `InProgressIsHeld` | a job that reads rendering or printing is in the worker's hands |
| `HeldInAcceptanceOrder` | jobs reach the worker in the order in which they were accepted |
| `PrintedOncePerRequest` | one request, at most one document at the spooler |
| `OutcomeIsTrue` | succeeded means taken once; a rendering failure means not taken |
| `DiskOneStepAhead` | the file is the memory, or one legal step of one job ahead |
| `AcceptedSurvives` | an accepted job that was not started waits on disk |
| `ResumeKeepsOrder` | a restart keeps the order of jobs never retried whose creation times differ, whatever jobs with equal times stand between them |
| `OnlyUndoneAreHarmed` | after a power loss every job whose own record did not go back is printed once per request, reads true and still waits if it was accepted |
| `ImplementsLifecycle`, `ImplementsAtomicStore` | refinements |
| `EventuallySettled`, `StopCompletes`, `LockIsReleased`, `StopReleases` | liveness |
| `FileIsWhole` | `jobs.json` decodes after any crash or power loss |
| `PathNamesPreview` | while the agent is up, a job that names a PDF has one |
| `PreviewIsOfAttempt` | what is printed, and what a success shows, is the document of this attempt |
| `ServedIsWhole`, `StampNotNewer` | a reader gets a complete document, and never a later time with an earlier document |
| `NewestStays` | the newest published document is never lost or replaced by an older one |
| `ToPresentPrinter`, `ChecksAreFresh` | a command is run for a printer, with a file and by a program that were there during the call, the latter two since the list |
| `NotFoundIsTrue` | a printer reported missing was missing |
| `ImplementsPromise`, `PrintReturns` | `Print` keeps `PrintPromise`, and returns |
| `AnswerIsTrue` | a success was stored and sent; an undelivered job was stored and not sent; an internal error sent nothing and changed no memory, though the file may have the job; any other error changed neither; a retry was of the job in the path |
| `OnlyOwnerSends` | only the service that owns the channel sends to it |
| `AdmittedPrints` | what is admitted renders, and shows what was sent |
| `ReadsItsLaunch` | a page from a file reads only the launch whose token it has |
| `FoundIfThere`, `SearchEnds` | a page that gives up has not overlooked its launch; it does not search for ever |
| `ToldIsTrue` | a failure is reported only if the agent refused or the answer was lost, and a success only if it accepted |
| `OperatorErrorStays` | an operator's error is not hidden by the timer or by a success of another kind; a later failure of a call of the operator's may replace it; the exception is `start()`, which may replace it while it opens the page |
| `PageFollowsAgent` | a list may be older than the one it replaces, but in the end the table is the agent's, and an agent that is gone is noticed |
| `OnlyOwnerUsesData`, `AcknowledgedStays` | one user of the directory, and no lock kept after a failed start or a stop; no acknowledged job overwritten |

## 5. Proofs

Every invariant, action property and refinement of a passing run but `OnlyUndoneAreHarmed` is also proved, for every value of the constants.
Each proof has an inductive invariant, which TLC agreed with before it was proved, and one lemma per action or group of actions that
shows that the step keeps it. The assumptions are those of the module (`...Assumption`) and nothing else.

**`PrintPipelineProofs`**: any sets of jobs and handlers, any capacity, any bound on retries. `ConstantsAssumption`: finitely many IDs, a
positive capacity, a `Nobody` that is no client.

| Theorem | Property | What its invariant adds |
|---|---|---|
| `TypeCorrect` | `TypeOK` | a busy worker or call points at an ID (`Pointed`) |
| `AtMostOneHandOver`, `RecordsTellTheTruth` | `PrintedOncePerRequest`, `OutcomeIsTrue` | `LedgerInv`, `WorkerInv`, `CallInv` |
| `DiskStaysClose` | `DiskOneStepAhead` | `StoreInv`, `CopyInv` |
| `JobsFollowTheirLifecycle` | `ImplementsLifecycle` | the same |
| `AcceptedJobsSurvive`, `ProgressIsTrue` | `AcceptedSurvives`, `InProgressIsHeld` | `LineInv`, `SettledInv`, `StageInv` |
| `QueuedJobsAreHeldOnce`, `QueueKeepsOrder` | `QueuedIsHeldOnce`, `HeldInAcceptanceOrder` | `HeldInv`, `RoomInv` |
| `RestartKeepsOrder` | `ResumeKeepsOrder` | `StartedInv`, `OrderInv` |

`PrintedOncePerRequest` is not inductive: `PrintPDF` keeps it only if nothing was sent before, and
that is a fact about records, not about the counter. So `LedgerInv` relates each record, in memory and on disk, to `sent`; `WorkerInv` does the
same for the copy in the worker's hands and relates it to memory and disk, since a write reported as failed may have put it on disk;
`CallInv` says that the copy a retry holds failed.
`DiskOneStepAhead` needs that the copy the worker is about to write is a successor of what memory has (`CopyInv`): a write that was lost, or came
late, is repeated with the same copy, and so stays one step ahead.
What the two queue properties have in common is `LinedUp`: the jobs held by the worker, the channel and the call that is about to send, in that order, are the
queued jobs without repetition, and the order of that sequence is `line`. Three lemmas say what a job appended at its
end, the first job taken off, and a whole sequence sorted at a restart do to it. `RoomInv` is why the send never blocks: the mutex is held between the look at the
queue's length and the send.
`RestartKeepsOrder` speaks of jobs whose creation times differ: with equal times the ID decides, which is random. A
job that was started once has its attempts to show for it (`StartedInv`), and the others are in the order of creation (`OrderInv`).

**`JSONStoreProofs`**: any processes and IDs (`StoreAssumption`: at least one ID, a `Nobody` that is no caller). `TypeCorrect`; `FileStaysWhole`
(`FileIsWhole`); `StoreIsAtomic` (`ImplementsAtomicStore`). Only the holder of the lock has a write under way (`LockInv`), the collection it
writes differs from memory by one legal write (`WriteInv`), only a flushed file gets the name (`FileInv`). In the refinement the rename is the abstract write of the
file, the return of a write that of memory, and what comes before the rename is a stutter.

**`AgentLifecycleProofs`**: any number of processes, handlers and jobs. `TypeCorrect`; `OneOwner` (`OnlyOwnerUsesData`), which needs
that a closed service has no call under way, that a worker which is done has closed it, and that the lock is held from
`Acquire` to the failure or the release and at no other time (`OwnerInv`); `AcknowledgedJobsStay`
(`AcknowledgedStays`), which needs in addition that an owner which has read the file knows every acknowledged job (`KnowsInv`).

**`RenderPublishProofs`**: any readers and any number of attempts. `TypeCorrect`, `PathHasPreview` (`PathNamesPreview`), `PreviewOfThisAttempt`
(`PreviewIsOfAttempt`), `WholeIsServed` (`ServedIsWhole`), `StampIsNotNewer` (`StampNotNewer`), `NewestIsKept` (`NewestStays`). `PreviewInv`: a document
is whole and no newer than the latest attempt; `WorkerInv`: what a step of the render has behind it; `ReaderInv`: a reader knows a time no later than the document
it will open; `LegacyInv`: the directory of an older version is there only before the repair, and its document is no newer than
the latest attempt. Without that last clause the invariant is not inductive: the repair could bring in a document newer than the job.

**`PrintAdapterProofs`**: any set of printers, either platform. `TypeCorrect`, `CommandHasPrinter` (`ToPresentPrinter`), `CommandHasFreshChecks` (`ChecksAreFresh`),
`MissingPrinterIsTrue` (`NotFoundIsTrue`) and `PromiseKept` (`ImplementsPromise`), so what `PrintPipeline` assumes of
`Print` holds of the code. What is remembered as seen includes what there is now (`SeenInv`), the list
was true when it was made (`ListInv`), and each point of the call has its checks behind it (`CheckInv`, `ResultInv`). The refinement maps the
steps that end a call to `Return`, the spooler's step to `Take`, a new call to `Call` and every other step to a stutter.

**`HttpApiProofs`**: any services, jobs, limits of a source and interferences with the channel. `AnswersAreTrue` (`AnswerIsTrue`), `OwnerSends` (`OnlyOwnerSends`),
`AdmissionFaithful` (`AdmissionIsFaithful`: what `NormalizeCreateRequest` admits renders and shows what was sent, whatever the request) and
with it `AdmittedJobsPrint` (`AdmittedPrints`). `CallInv` says at each point of a call what it has written, in memory and in the file, and sent; `OwnerInv` that an open service which was first on the channel owns
it, and that a call which may send found its service so and has held the mutex since.

**`AgentDiscoveryProofs`**: any launches and any range of ports (`DiscoveryAssumption`: what listens and is no launch, and nobody, are no launches).
`OnlyItsLaunchIsRead` (`ReadsItsLaunch`); `LaunchIsFound` (`FoundIfThere`), by `AheadInv`: as long as the launch was not missed, it listens on a
port the search has not passed.

**`WebConsoleProofs`**: any number of calls of each kind that overlap (`ConsoleAssumption`: the kinds are disjoint). `ToldTrue` (`ToldIsTrue`), by `TellInv`: a call that is
about to speak of a success was accepted, one about to speak of a failure refused or lost; `ErrorsStay` (`OperatorErrorStays`).
The proof of the latter corrected the property. Without an exception for `start()` it is false of the code: while `start()` waits for the printers, the operator can
refresh the table and retry a job in it, and the error of that retry is replaced when the printers cannot be listed. `Init` has an agent that
may have jobs already, which takes TLC there. The exception is as narrow as this: the errors of the connection and of the printers, while the page is
being opened, and the form's own error when no printer is selected.

Model-checked only:

* Liveness, which is out of the prover's reach: `EventuallySettled`, `StopCompletes`, `LockIsReleased`, `StopReleases`, `PrintReturns`, `SearchEnds`,
  `PageFollowsAgent`.
* `OnlyUndoneAreHarmed`.
* What section 6 shows to be violated.

Induction over data is out of reach too: what `FlattenSeq` makes of any number of segments is not proved, only of the one and two segments that
the paths of `HttpApi` have below `/api/v1/print-jobs/`.

## 6. Where the program and its documents disagree

* **A full queue can make the agent unstartable** (`durable_queue_overflow`). `Create` and `Retry` compare
  the channel with its capacity. The worker takes an ID out before it records the start, so one job
  more than the capacity can be waiting on disk; a crash or a stop at that moment, or a store that fails for the worker's
  write, and `ResumeQueued` refuses with `QUEUE_FULL` at every start.
* **A restart reorders retried jobs** (`restart_order`). The queue has them by acceptance, a restart sorts by creation.
* **The lock does not wait for handlers** (`handler_outlives_lock`). `docs/testing.md` has it that a running handler keeps the
  lock; after five seconds it does not. `OnlyOwnerUsesData` shows that this is harmless for the data.

One more was met that no run shows. `docs/reports/day-08.md` and `day-09-final.md` list invalid UTF-8 among what a creation
rejects; the decoder replaces it by U+FFFD and the request goes on (bytes that are no text are outside `JobDocument`).

## 7. Not modelled

* Chromium, the layout of documents, highlighting, the escaping of the template engine; the discovery of the browser.
* The output of the CUPS and PowerShell commands beyond what it lists, and the phrases by which `lpstat`'s "no printers" is told from
  its other failures (`NothingListed` takes them to be told apart); processes that outlive a killed command and hold its
  pipes, for which `print_call` assumes that there are none.
* The worker's stream of errors and the log, the lengths of delays, the choice of the printer adapter.
* The permit of the renderer: there is one worker and it never waits for it.
* `fake.go` of renderer and printer: what they return is among the outcomes of the real ones.
* The start scripts, which set an environment up and start the program.
* Others who use the channel while `ResumeQueued` runs, before the service is known to anybody else.
* The wording of the page, and the detail view beyond its error.

## 8. Plan

Done, in this order: `JobRecords`, `JobLifecycle`, `PrintPipeline` with its proofs, `AtomicStore`, `JSONStore`, `AgentLifecycle` with its proofs, `RenderPublish`, `PrintAdapter` with its proofs, power losses in `JSONStore`,
`WebConsole`, `AgentDiscovery`, `QueueOwnership`, `JobDocument`, `HttpApi`, `PowerLosses`.

Left, in this order:

1. A proof of `OnlyUndoneAreHarmed`: the invariants of `PrintPipelineProofs`, with `LedgerInv`, `WorkerInv` and `CallInv` for the jobs that are not undone.
2. An abstract specification of the directory's ownership that `AgentLifecycle` implements, in place of `OnlyOwnerUsesData` and `AcknowledgedStays` side by side.
3. That a job which the file shows queued comes back at every start that does not fail, as one theorem over `PrintPipeline` and `JSONStore`.
