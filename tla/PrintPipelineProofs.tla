------------------------- MODULE PrintPipelineProofs -------------------------
(***************************************************************************)
(* Theorems about PrintPipeline for all values of its constants.           *)
(***************************************************************************)
EXTENDS PrintPipeline, FiniteSetTheorems, SequenceTheorems, TLAPS

LEMMA TransitionType ==
  ASSUME NEW job \in Job, NEW to \in Status
  PROVE  Transition(job, to) \in Job
BY DEF Transition, Job, ErrorCode

LEMMA FailedType ==
  ASSUME NEW job \in Job, NEW code \in ErrorCode
  PROVE  Failed(job, code) \in Job
BY DEF Failed, Transition, Job, Status, Live, ErrorCode

LEMMA RecordTypes ==
  /\ NoJob \in Job
  /\ \A now \in Nat : NewJob(now) \in Job
  /\ \A job \in Job : Interrupted(job) \in Job
BY DEF NoJob, NewJob, Interrupted, Job, Status, Live, ErrorCode

LEMMA EmptyTypes ==
  /\ <<>> \in Seq(Ids)
  /\ Empty \in [Ids -> Job]
  /\ [c \in Clients |-> Idle] \in [Clients -> Activity({"idle", "update", "deliver"})]
  /\ \A at \in {"idle", "stopped", "done"} :
       Resting(at) \in Activity({"idle", "get", "persist", "render", "print", "stopped", "done"})
<1>1. <<>> \in Seq(Ids)
  BY EmptySeq
<1> QED BY <1>1, RecordTypes DEF Empty, Idle, Resting, Activity

LEMMA ClockType == TypeOK => Clock \subseteq Nat
<1> SUFFICES ASSUME TypeOK PROVE Clock \subseteq Nat
  OBVIOUS
<1>1. ASSUME NEW i \in Newest, NEW d \in Ticks PROVE mem[i].created + d \in Nat
  BY ConstantsAssumption DEF Newest, Job, TypeOK
<1> QED BY <1>1 DEF Clock

LEMMA ListIsSeq ==
  ASSUME NEW S, NEW n \in Nat, NEW s \in [1..n -> S]
  PROVE  s \in Seq(S)
OBVIOUS

LEMMA WaitingIsFinite == IsFiniteSet(Waiting) /\ Cardinality(Waiting) \in Nat
BY ConstantsAssumption, FS_Subset, FS_CardinalityType DEF Waiting

LEMMA StoreTypes ==
  ASSUME TypeOK, NEW i, NEW job \in Job, WriteOk(i, job) \/ WriteLate(i, job)
  PROVE  mem' \in [Ids -> Job] /\ disk' \in [Ids -> Job]
BY DEF TypeOK, WriteOk, WriteLate

LEMMA JoinsType ==
  ASSUME TypeOK, NEW i \in Ids, Joins(i)
  PROVE  line' \in SUBSET (Ids \X Ids)
<1>1. \A j \in InLine \cup {i} : <<j, i>> \in Ids \X Ids
  BY DEF InLine
<1>2. {<<j, i>> : j \in InLine \cup {i}} \subseteq Ids \X Ids
  BY <1>1
<1> QED BY <1>2 DEF TypeOK, Joins

(***************************************************************************)
(* Types.  TypeOK is not inductive: a worker or a call that goes on must    *)
(* point to a job.                                                         *)
(***************************************************************************)
Pointed ==
  /\ worker.at \in {"get", "persist", "render", "print"} => worker.id \in Ids
  /\ \A c \in Clients : call[c].at \in {"update", "deliver"} => call[c].id \in Ids

TypeInv == TypeOK /\ Pointed

LEMMA TypeInvInit == Init => TypeInv
<1> SUFFICES ASSUME Init PROVE TypeInv
  OBVIOUS
<1>1. TypeOK
  BY EmptyTypes DEF Init, TypeOK, Idle, Phases
<1>2. Pointed
  BY DEF Init, Pointed, Idle, Resting
<1> QED BY <1>1, <1>2 DEF TypeInv

LEMMA EndType ==
  ASSUME ProcessEnds, disk' \in [Ids -> Job], sent' \in [Ids -> Nat],
         line' \in SUBSET (Ids \X Ids)
  PROVE  TypeInv'
<1>1. TypeOK'
  BY EmptyTypes DEF ProcessEnds, TypeOK, Idle, Phases
<1>2. Pointed'
  BY DEF ProcessEnds, Pointed, Idle, Resting
<1> QED BY <1>1, <1>2 DEF TypeInv

LEMMA TypeInvStep == TypeInv /\ [Next]_vars => TypeInv'
<1> SUFFICES ASSUME TypeInv, [Next]_vars PROVE TypeInv'
  OBVIOUS
<1> USE RecordTypes, ConstantsAssumption DEF TypeInv, TypeOK, Pointed, Activity, store, service, history
<1>1. ASSUME NEW c \in Clients, NEW i \in Ids, Create(c, i) PROVE TypeInv'
  <2>1. PICK now \in Clock : \/ WriteOk(i, NewJob(now)) /\ GoDeliver(c, i) /\ Joins(i)
                             \/ WriteLate(i, NewJob(now)) /\ UNCHANGED <<mu, call, line>>
    BY <1>1 DEF Create
  <2>2. NewJob(now) \in Job
    BY ClockType
  <2>3. mem' \in [Ids -> Job] /\ disk' \in [Ids -> Job] /\ line' \in SUBSET (Ids \X Ids)
    BY <2>1, <2>2, StoreTypes, JoinsType
  <2>4. mu' \in Clients \cup {Nobody} /\ Pointed'
        /\ call' \in [Clients -> Activity({"idle", "update", "deliver"})]
    BY <1>1, <2>1 DEF Create, GoDeliver
  <2> QED BY <1>1, <2>3, <2>4 DEF Create
<1>2. ASSUME NEW c \in Clients, NEW i \in Ids, RetryGet(c, i) PROVE TypeInv'
  BY <1>2 DEF RetryGet, Enter
<1>3. ASSUME NEW c \in Clients, RetryUpdate(c) PROVE TypeInv'
  <2>1. Transition(call[c].job, "queued") \in Job
    BY TransitionType DEF Status, Live
  <2>2. mem' \in [Ids -> Job] /\ disk' \in [Ids -> Job] /\ line' \in SUBSET (Ids \X Ids)
    BY <1>3, <2>1, StoreTypes, JoinsType DEF RetryUpdate, WriteLost
  <2>3. sent' \in [Ids -> Nat]
    BY <1>3 DEF RetryUpdate
  <2>4. mu' \in Clients \cup {Nobody} /\ Pointed'
        /\ call' \in [Clients -> Activity({"idle", "update", "deliver"})]
    BY <1>3 DEF RetryUpdate, GoDeliver, Return, Idle, Resting
  <2> QED BY <1>3, <2>2, <2>3, <2>4 DEF RetryUpdate
<1>4. ASSUME NEW c \in Clients, Deliver(c) PROVE TypeInv'
  BY <1>4, AppendProperties DEF Deliver, Return, Idle, Resting
<1>5. CASE Dequeue
  BY <1>5, HeadTailProperties DEF Dequeue, Work
<1>6. CASE QuitIdle
  <2>1. queue' \in Seq(Ids)
    BY <1>6, HeadTailProperties DEF QuitIdle
  <2> QED BY <1>6, <2>1 DEF QuitIdle, Quit, Resting
<1>7. CASE Get
  <2>1. Transition(mem[worker.id], "rendering") \in Job
    BY <1>7, TransitionType DEF Get, Status, Live
  <2> QED BY <1>7, <2>1 DEF Get, Quit, Work, Idle, Resting
<1>8. CASE Persist
  BY <1>8 DEF Persist, WriteOk, AfterPersist, Continue, Leaves, Quit, Work, Idle, Resting
<1>9. CASE PersistFails
  BY <1>9 DEF PersistFails, WriteLate, WriteLost, Quit, Resting
<1>10. CASE Render
  BY <1>10, TransitionType, FailedType DEF Render, Quit, Work, Resting, Status, Live, ErrorCode
<1>11. CASE PrintPDF
  <2>1. Transition(worker.job, "succeeded") \in Job /\ Failed(worker.job, "PRINT_COMMAND_FAILED") \in Job
    BY TransitionType, FailedType DEF Status, Live, ErrorCode
  <2>2. sent' \in [Ids -> Nat]
    <3>1. sent' = sent \/ sent' = [sent EXCEPT ![worker.id] = @ + 1]
      BY <1>11 DEF PrintPDF
    <3> QED BY <3>1
  <2>3. worker' \in Activity({"idle", "get", "persist", "render", "print", "stopped", "done"})
        /\ (worker'.at = "persist" => worker'.id = worker.id) /\ worker'.at \in {"stopped", "persist"}
    BY <1>11, <2>1 DEF PrintPDF, Quit, Work, Resting
  <2> QED BY <1>11, <2>2, <2>3 DEF PrintPDF
<1>12. CASE Close
  BY <1>12 DEF Close, Resting
<1>13. CASE Load
  BY <1>13 DEF Load, Phases
<1>14. CASE Recover
  BY <1>14, EndType DEF Recover, Phases
<1>15. CASE Resume
  <2>1. ASSUME NEW s \in [1..Cardinality(Waiting) -> Waiting] PROVE s \in Seq(Ids)
    <3>1. s \in Seq(Waiting)
      BY WaitingIsFinite, ListIsSeq
    <3> QED BY <3>1, SeqMonotonic DEF Waiting
  <2> QED BY <1>15, <2>1, EndType DEF Resume, OrderOf, Phases
<1>16. CASE Cancel
  BY <1>16 DEF Cancel, Phases
<1>17. CASE Exit
  BY <1>17, EndType DEF Exit
<1>18. CASE Crash
  BY <1>18, EndType DEF Crash
<1>19. CASE UNCHANGED vars
  BY <1>19 DEF vars
<1> QED BY <1>1, <1>2, <1>3, <1>4, <1>5, <1>6, <1>7, <1>8, <1>9, <1>10, <1>11, <1>12,
           <1>13, <1>14, <1>15, <1>16, <1>17, <1>18, <1>19
        DEF Next, ServiceStep, WorkerStep

\* Every variable keeps its type, for any number of jobs, clients and slots.
THEOREM TypeCorrect == Spec => []TypeOK
<1>1. TypeInv => TypeOK
  BY DEF TypeInv
<1> QED BY <1>1, TypeInvInit, TypeInvStep, PTL DEF Spec
------------------------------------------------------------------------------
(***************************************************************************)
(* One hand-over per request.  The strengthening says, of the file, of the  *)
(* memory and of the worker's copy alike, what a record's status implies   *)
(* about `sent'; that while the worker has a job under way no other step   *)
(* can change that job's record; and that a handler between its two steps  *)
(* holds a copy that is still current, because it holds the mutex and the  *)
(* worker never touches a failed job.                                      *)
(***************************************************************************)
Ledger(job, n) ==
  /\ n \in {0, 1}
  /\ job.status \in {"absent", "queued", "rendering"} => n = 0
  /\ job.status = "succeeded" => n = 1
  /\ job.error = "RENDER_FAILED" => n = 0 /\ job.status = "failed"

LedgerInv ==
  \A i \in Ids : /\ Ledger(disk[i], sent[i])
                 /\ phase # "off" => Ledger(mem[i], sent[i])

WorkerInv ==
  LET i == worker.id
  IN /\ worker.at # "idle" => Serving
     /\ worker.at = "persist" =>
          /\ worker.job.status # "queued"
          /\ CanTransition(mem[i].status, worker.job.status)
          /\ Ledger(worker.job, sent[i])
          /\ worker.job.status = "printing" => sent[i] = 0
     /\ worker.at \in {"render", "print"} =>
          /\ mem[i] = worker.job
          /\ disk[i] = worker.job
          /\ sent[i] = 0
          /\ worker.job.status = IF worker.at = "render" THEN "rendering" ELSE "printing"

CallInv ==
  \A c \in Clients :
    /\ call[c].at # "idle" => mu = c /\ Serving
    /\ call[c].at = "update" => /\ call[c].job = mem[call[c].id]
                                /\ call[c].job.status = "failed"


Inv == LedgerInv /\ WorkerInv /\ CallInv

LEMMA LedgerOfNewRecords ==
  /\ \A now : Ledger(NewJob(now), 0)
  /\ Ledger(NoJob, 0)
  /\ \A job, n : Ledger(job, n) => Ledger(Interrupted(job), n)
  /\ \A job : Ledger(Transition(job, "queued"), 0)
  /\ \A job : Ledger(Transition(job, "rendering"), 0)
  /\ \A job : Ledger(Failed(job, "RENDER_FAILED"), 0)
  /\ \A job, n : n \in {0, 1} => Ledger(Failed(job, "PRINT_COMMAND_FAILED"), n)
  /\ \A job : Ledger(Transition(job, "succeeded"), 1)
BY DEF Ledger, NewJob, NoJob, Interrupted, InProgress, Failed, Transition

LEMMA HandOverInit == Init => Inv
BY LedgerOfNewRecords DEF Init, Inv, LedgerInv, WorkerInv, CallInv, Empty, Idle, Resting

LEMMA HandOverEnd ==
  ASSUME ProcessEnds, \A i \in Ids : Ledger(disk'[i], sent'[i])
  PROVE  Inv'
BY DEF ProcessEnds, Inv, LedgerInv, WorkerInv, CallInv, Idle, Resting

\* The worker's record is never that of an absent or a failed job.
LEMMA WorkerOwnsItsJob ==
  ASSUME WorkerInv, worker.at \in {"persist", "render", "print"}
  PROVE  mem[worker.id].status \in {"queued", "rendering", "printing"}
BY DEF WorkerInv, CanTransition, Arrows

\* A handler's write, whatever comes of it, leaves the worker's job alone.
LEMMA HandlerWrite ==
  ASSUME TypeInv, Inv, Serving, NEW i \in Ids, NEW job \in Job,
         mem[i].status \in {"absent", "failed"},
         Ledger(job, 0), WriteOk(i, job) \/ WriteLate(i, job),
         sent' = [sent EXCEPT ![i] = 0],
         mem[i].status = "absent" => sent[i] = 0,
         UNCHANGED <<worker, phase>>
  PROVE  LedgerInv' /\ WorkerInv'
<1> USE DEF TypeInv, TypeOK, Inv
<1>1. \A j \in Ids : j # i => mem'[j] = mem[j] /\ disk'[j] = mem[j] /\ sent'[j] = sent[j]
  BY DEF WriteOk, WriteLate
<1>2. sent'[i] = 0 /\ disk'[i] = job /\ mem'[i] \in {mem[i], job}
  BY DEF WriteOk, WriteLate
<1>3. phase # "off"
  BY DEF Serving
<1>4. \A j \in Ids : Ledger(mem[j], sent[j])
  BY <1>3 DEF LedgerInv
<1>5. Ledger(mem[i], 0)
  BY <1>4 DEF Ledger
<1>6. LedgerInv'
  BY <1>1, <1>2, <1>4, <1>5 DEF LedgerInv
<1>7. ASSUME worker.at \in {"persist", "render", "print"} PROVE worker.id \in Ids /\ worker.id # i
  BY <1>7, WorkerOwnsItsJob DEF Pointed
<1>8. WorkerInv'
  <2>1. Serving'
    BY DEF Serving
  <2>2. CASE worker.at \in {"persist", "render", "print"}
    BY <2>1, <2>2, <1>1, <1>7 DEF WorkerInv
  <2>3. CASE worker.at \notin {"persist", "render", "print"}
    BY <2>1, <2>3 DEF WorkerInv
  <2> QED BY <2>2, <2>3
<1> QED BY <1>6, <1>8

LEMMA CreateStep ==
  ASSUME TypeInv, Inv, NEW c \in Clients, NEW i \in Ids, Create(c, i)
  PROVE  Inv'
<1> USE DEF TypeInv, TypeOK, Inv
<1>1. PICK now \in Clock : \/ WriteOk(i, NewJob(now)) /\ GoDeliver(c, i)
                           \/ WriteLate(i, NewJob(now)) /\ UNCHANGED <<mu, call>>
  BY DEF Create
<1>2. Serving /\ mu = Nobody /\ call[c].at = "idle" /\ mem[i].status = "absent"
      /\ UNCHANGED <<worker, phase, sent>>
  BY DEF Create, Enter
<1>3. sent[i] = 0
  BY <1>2 DEF LedgerInv, Ledger, Serving
<1>4. LedgerInv' /\ WorkerInv'
  <2>1. NewJob(now) \in Job /\ Ledger(NewJob(now), 0)
    BY ClockType, RecordTypes, LedgerOfNewRecords
  <2>2. sent' = [sent EXCEPT ![i] = 0]
    BY <1>2, <1>3
  <2> QED BY <1>1, <1>2, <1>3, <2>1, <2>2, HandlerWrite
<1>5. CallInv'
  <2>1. \A d \in Clients : call[d].at = "idle"
    BY <1>2, ConstantsAssumption DEF CallInv
  <2>2. Serving'
    BY <1>2 DEF Serving
  <2> QED BY <1>1, <2>1, <2>2 DEF CallInv, GoDeliver
<1> QED BY <1>4, <1>5

LEMMA RetryGetStep ==
  ASSUME TypeInv, Inv, NEW c \in Clients, NEW i \in Ids, RetryGet(c, i)
  PROVE  Inv'
<1> USE DEF TypeInv, TypeOK, Inv
<1>1. Serving /\ mu = Nobody /\ mem[i].status = "failed" /\ mu' = c
      /\ call' = [call EXCEPT ![c] = [at |-> "update", id |-> i, job |-> mem[i]]]
      /\ UNCHANGED <<mem, disk, worker, phase, sent>>
  BY DEF RetryGet, Enter
<1>2. LedgerInv' /\ WorkerInv'
  BY <1>1 DEF LedgerInv, WorkerInv, Serving
<1>3. \A d \in Clients : call[d].at = "idle"
  BY <1>1, ConstantsAssumption DEF CallInv
<1>4. CallInv'
  BY <1>1, <1>3 DEF CallInv, Serving
<1> QED BY <1>2, <1>4

LEMMA RetryUpdateStep ==
  ASSUME TypeInv, Inv, NEW c \in Clients, RetryUpdate(c)
  PROVE  Inv'
<1> USE DEF TypeInv, TypeOK, Inv
<1> DEFINE i == call[c].id
           job == Transition(call[c].job, "queued")
<1>1. call[c].at = "update" /\ UNCHANGED <<worker, phase>>
  BY DEF RetryUpdate
<1>2. mu = c /\ Serving /\ i \in Ids /\ mem[i].status = "failed" /\ call[c].job \in Job
  BY <1>1 DEF CallInv, Pointed, Activity
<1>3. \A d \in Clients : d # c => call[d].at = "idle"
  BY <1>2 DEF CallInv
<1>4. LedgerInv' /\ WorkerInv'
  <2>1. CASE UNCHANGED <<mem, disk, sent>>
    BY <1>1, <2>1 DEF LedgerInv, WorkerInv, Serving
  <2>2. CASE (WriteOk(i, job) \/ WriteLate(i, job)) /\ sent' = [sent EXCEPT ![i] = 0]
    <3>1. job \in Job
      BY <1>2, TransitionType DEF Status, Live
    <3>2. Ledger(job, 0)
      BY LedgerOfNewRecords
    <3> QED BY <1>1, <1>2, <2>2, <3>1, <3>2, HandlerWrite
  <2> QED BY <2>1, <2>2 DEF RetryUpdate, WriteLost, store, history
<1>5. CallInv'
  <2>1. Serving'
    BY <1>1, <1>2 DEF Serving
  <2>2. \A d \in Clients : d # c => call'[d].at = "idle"
    BY <1>3 DEF RetryUpdate, Return, GoDeliver
  <2>3. \/ call'[c].at = "idle"
        \/ call'[c].at = "deliver" /\ mu' = c
    BY DEF RetryUpdate, Return, GoDeliver, Idle, Resting
  <2> QED BY <2>1, <2>2, <2>3 DEF CallInv
<1> QED BY <1>4, <1>5

LEMMA DeliverStep ==
  ASSUME TypeInv, Inv, NEW c \in Clients, Deliver(c)
  PROVE  Inv'
<1> USE DEF TypeInv, TypeOK, Inv
<1>1. UNCHANGED <<mem, disk, worker, phase, sent>> /\ call' = [call EXCEPT ![c] = Idle]
  BY DEF Deliver, Return, history
<1>2. LedgerInv' /\ WorkerInv'
  BY <1>1 DEF LedgerInv, WorkerInv, Serving
<1>3. \A d \in Clients : call'[d].at = "idle"
  BY <1>1 DEF CallInv, Deliver, Idle, Resting
<1> QED BY <1>2, <1>3 DEF CallInv

\* A handler with a copy in hand is not disturbed by a write of the worker.
LEMMA WorkerWrite ==
  ASSUME TypeInv, Inv, worker.at = "persist",
         WriteOk(worker.id, worker.job) \/ WriteLate(worker.id, worker.job) \/ WriteLost,
         UNCHANGED <<mu, call, phase>>
  PROVE  CallInv'
<1> USE DEF TypeInv, TypeOK, Inv
<1>1. worker.id \in Ids /\ mem[worker.id].status # "failed"
  BY WorkerOwnsItsJob DEF Pointed
<1>2. ASSUME NEW c \in Clients, call[c].at = "update"
      PROVE  call[c].id \in Ids /\ call[c].id # worker.id
  BY <1>1, <1>2 DEF CallInv, Pointed
<1>3. \A j \in Ids : j # worker.id => mem'[j] = mem[j]
  BY DEF WriteOk, WriteLate, WriteLost, store
<1> QED BY <1>2, <1>3 DEF CallInv, Serving

LEMMA PersistStep ==
  ASSUME TypeInv, Inv, Persist
  PROVE  Inv'
<1> USE DEF TypeInv, TypeOK, Inv
<1> DEFINE i == worker.id
           job == worker.job
<1>1. worker.at = "persist" /\ WriteOk(i, job) /\ AfterPersist
      /\ UNCHANGED <<mu, call, phase, sent>>
  BY DEF Persist, service
<1>2. i \in Ids /\ Serving /\ Ledger(job, sent[i])
      /\ job.status \in {"rendering", "printing", "succeeded", "failed"}
      /\ (job.status = "printing" => sent[i] = 0)
  BY <1>1 DEF Pointed, WorkerInv, CanTransition, Arrows
<1>3. /\ mem'[i] = job /\ disk'[i] = job
      /\ \A j \in Ids : j # i => mem'[j] = mem[j] /\ disk'[j] = mem[j]
  BY <1>1, <1>2 DEF WriteOk
<1>4. LedgerInv'
  BY <1>1, <1>2, <1>3 DEF LedgerInv, Serving
<1>5. WorkerInv'
  <2>1. Serving'
    BY <1>1, <1>2 DEF Serving
  <2>2. CASE worker'.at \in {"idle", "stopped"}
    BY <2>1, <2>2 DEF WorkerInv
  <2>3. CASE worker' = [at |-> Continue(job), id |-> i, job |-> job] /\ Continue(job) # "idle"
    <3>1. \/ job.status = "rendering" /\ worker'.at = "render"
          \/ job.status = "printing" /\ worker'.at = "print"
      BY <2>3, <1>2 DEF Continue
    <3>2. sent[i] = 0
      BY <1>2, <3>1 DEF Ledger
    <3> QED BY <1>1, <1>3, <2>1, <2>3, <3>1, <3>2 DEF WorkerInv
  <2> QED BY <1>1, <2>2, <2>3 DEF AfterPersist, Quit, Work, Idle, Resting
<1>6. CallInv'
  BY <1>1, WorkerWrite
<1> QED BY <1>4, <1>5, <1>6

LEMMA PersistFailsStep ==
  ASSUME TypeInv, Inv, PersistFails
  PROVE  Inv'
<1> USE DEF TypeInv, TypeOK, Inv
<1> DEFINE i == worker.id
           job == worker.job
<1>1. worker.at = "persist" /\ (WriteLate(i, job) \/ WriteLost)
      /\ UNCHANGED <<mu, call, phase, sent>> /\ (worker' = worker \/ Quit)
  BY DEF PersistFails, service, history
<1>2. i \in Ids /\ Serving /\ Ledger(job, sent[i])
  BY <1>1 DEF Pointed, WorkerInv
<1>3. /\ mem' = mem
      /\ \/ disk' = disk
         \/ disk'[i] = job /\ \A j \in Ids : j # i => disk'[j] = mem[j]
  BY <1>1, <1>2 DEF WriteLate, WriteLost, store
<1>4. LedgerInv'
  BY <1>1, <1>2, <1>3 DEF LedgerInv, Serving
<1>5. WorkerInv'
  BY <1>1, <1>2, <1>3 DEF WorkerInv, Serving, Quit, Resting
<1>6. CallInv'
  BY <1>1, WorkerWrite
<1> QED BY <1>4, <1>5, <1>6

\* The steps of the worker that touch neither the store nor the ledger.
LEMMA QuietWorkerStep ==
  ASSUME TypeInv, Inv, Dequeue \/ QuitIdle \/ Get \/ Close
  PROVE  Inv'
<1> USE DEF TypeInv, TypeOK, Inv
<1>1. UNCHANGED <<mem, disk, mu, call, phase, sent>>
  BY DEF Dequeue, QuitIdle, Get, Close, store, service, history
<1>2. LedgerInv' /\ CallInv'
  BY <1>1 DEF LedgerInv, CallInv, Serving
<1>3. CASE Get /\ worker'.at = "persist"
  <2> DEFINE i == worker.id
  <2>1. i \in Ids /\ Serving /\ mem[i].status = "queued"
        /\ worker' = [at |-> "persist", id |-> i, job |-> Transition(mem[i], "rendering")]
    BY <1>3 DEF Get, Quit, Work, Idle, Resting, Pointed, WorkerInv
  <2>2. sent[i] = 0
    BY <2>1 DEF LedgerInv, Ledger, Serving
  <2>3. Ledger(Transition(mem[i], "rendering"), 0)
    BY LedgerOfNewRecords
  <2>4. Transition(mem[i], "rendering").status = "rendering"
    BY DEF Transition
  <2> QED BY <1>1, <1>2, <2>1, <2>2, <2>3, <2>4 DEF WorkerInv, Serving, CanTransition, Arrows
<1>4. CASE Dequeue \/ QuitIdle \/ Close \/ (Get /\ worker'.at # "persist")
  <2>1. Serving /\ worker'.at \in {"idle", "get", "stopped", "done"}
    BY <1>4 DEF Dequeue, QuitIdle, Get, Close, Quit, Work, Idle, Resting, Serving, WorkerInv
  <2> QED BY <1>1, <1>2, <2>1 DEF WorkerInv, Serving
<1> QED BY <1>3, <1>4

LEMMA RenderStep ==
  ASSUME TypeInv, Inv, Render
  PROVE  Inv'
<1> USE DEF TypeInv, TypeOK, Inv
<1> DEFINE i == worker.id
           job == worker.job
<1>1. worker.at = "render" /\ UNCHANGED <<mem, disk, mu, call, phase, sent>>
  BY DEF Render, store, service, history
<1>2. LedgerInv' /\ CallInv'
  BY <1>1 DEF LedgerInv, CallInv, Serving
<1>3. i \in Ids /\ Serving /\ mem[i] = job /\ job.status = "rendering" /\ sent[i] = 0
  BY <1>1 DEF WorkerInv, Pointed
<1>4. Ledger(job, 0)
  BY <1>3 DEF LedgerInv, Serving
<1>5. CASE Quit
  BY <1>1, <1>2, <1>3, <1>5 DEF WorkerInv, Serving, Quit, Resting
<1>6. CASE Work("persist", i, Transition(job, "printing"))
  <2>1. Ledger(Transition(job, "printing"), 0) /\ Transition(job, "printing").status = "printing"
    BY <1>3, <1>4 DEF Ledger, Transition
  <2> QED BY <1>1, <1>2, <1>3, <1>6, <2>1 DEF WorkerInv, Work, Serving, CanTransition, Arrows
<1>7. CASE Work("persist", i, Failed(job, "RENDER_FAILED"))
  <2>1. Ledger(Failed(job, "RENDER_FAILED"), 0) /\ Failed(job, "RENDER_FAILED").status = "failed"
    BY LedgerOfNewRecords DEF Failed, Transition
  <2> QED BY <1>1, <1>2, <1>3, <1>7, <2>1 DEF WorkerInv, Work, Serving, CanTransition, Arrows
<1> QED BY <1>2, <1>5, <1>6, <1>7 DEF Render

LEMMA PrintStep ==
  ASSUME TypeInv, Inv, PrintPDF
  PROVE  Inv'
<1> USE DEF TypeInv, TypeOK, Inv
<1> DEFINE i == worker.id
           job == worker.job
<1>1. worker.at = "print" /\ UNCHANGED <<mem, disk, mu, call, phase>>
  BY DEF PrintPDF, store, service
<1>2. i \in Ids /\ Serving /\ mem[i] = job /\ disk[i] = job /\ job.status = "printing" /\ sent[i] = 0
  BY <1>1 DEF WorkerInv, Pointed
<1>3. PICK r \in PrintOutcomes :
        /\ sent' = IF r.taken THEN [sent EXCEPT ![i] = @ + 1] ELSE sent
        /\ IF phase = "stopping" THEN Quit
           ELSE Work("persist", i, IF r.ok THEN Transition(job, "succeeded")
                                   ELSE Failed(job, "PRINT_COMMAND_FAILED"))
  BY DEF PrintPDF
<1>4. /\ sent'[i] \in {0, 1}
      /\ r.ok => sent'[i] = 1
      /\ \A j \in Ids : j # i => sent'[j] = sent[j]
  BY <1>2, <1>3 DEF PrintOutcomes
<1>5. Ledger(job, 0)
  BY <1>2 DEF LedgerInv, Serving
<1>6. Ledger(job, sent'[i])
  BY <1>2, <1>4, <1>5 DEF Ledger
<1>7. LedgerInv' /\ CallInv'
  BY <1>1, <1>2, <1>4, <1>6 DEF LedgerInv, CallInv, Serving
<1>8. CASE Quit
  BY <1>1, <1>2, <1>7, <1>8 DEF WorkerInv, Serving, Quit, Resting
<1>9. CASE r.ok /\ Work("persist", i, Transition(job, "succeeded"))
  <2>1. Ledger(Transition(job, "succeeded"), 1) /\ Transition(job, "succeeded").status = "succeeded"
    BY LedgerOfNewRecords DEF Transition
  <2> QED BY <1>1, <1>2, <1>4, <1>7, <1>9, <2>1 DEF WorkerInv, Work, Serving, CanTransition, Arrows
<1>10. CASE Work("persist", i, Failed(job, "PRINT_COMMAND_FAILED"))
  <2>1. Ledger(Failed(job, "PRINT_COMMAND_FAILED"), sent'[i])
        /\ Failed(job, "PRINT_COMMAND_FAILED").status = "failed"
    BY <1>4, LedgerOfNewRecords DEF Failed, Transition
  <2> QED BY <1>1, <1>2, <1>7, <1>10, <2>1 DEF WorkerInv, Work, Serving, CanTransition, Arrows
<1> QED BY <1>3, <1>7, <1>8, <1>9, <1>10

LEMMA ProcessStep ==
  ASSUME TypeInv, Inv, Load \/ Recover \/ Resume \/ Cancel \/ Exit \/ Crash
  PROVE  Inv'
<1> USE DEF TypeInv, TypeOK, Inv, store, service, history
<1>1. \A i \in Ids : Ledger(disk[i], sent[i])
  BY DEF LedgerInv
<1>2. ~ Serving => worker.at = "idle" /\ \A c \in Clients : call[c].at = "idle"
  BY DEF WorkerInv, CallInv
<1>3. CASE Load
  BY <1>1, <1>2, <1>3 DEF Load, LedgerInv, WorkerInv, CallInv, Serving
<1>4. CASE Recover
  <2> DEFINE next == [i \in Ids |-> Interrupted(mem[i])]
  <2>1. \A i \in Ids : Ledger(next[i], sent[i])
    BY <1>4, LedgerOfNewRecords DEF Recover, LedgerInv
  <2>2. CASE mem' = next /\ disk' = next /\ phase' = "recovered" /\ UNCHANGED <<mu, call, worker, sent>>
    BY <1>2, <1>4, <2>1, <2>2 DEF Recover, LedgerInv, WorkerInv, CallInv, Serving
  <2>3. CASE disk' = next /\ ProcessEnds /\ UNCHANGED sent
    BY <2>1, <2>3, HandOverEnd
  <2> QED BY <1>4, <2>2, <2>3 DEF Recover
<1>5. CASE Resume
  <2>1. CASE phase' = "up" /\ UNCHANGED <<mem, disk, mu, call, worker, sent>>
    BY <1>2, <1>5, <2>1 DEF Resume, LedgerInv, WorkerInv, CallInv, Serving
  <2>2. CASE ProcessEnds /\ UNCHANGED <<disk, sent>>
    BY <1>1, <2>2, HandOverEnd
  <2> QED BY <1>5, <2>1, <2>2 DEF Resume
<1>6. CASE Cancel
  BY <1>6 DEF Cancel, LedgerInv, WorkerInv, CallInv, Serving
<1>7. CASE Exit \/ Crash
  BY <1>1, <1>7, HandOverEnd DEF Exit, Crash
<1> QED BY <1>3, <1>4, <1>5, <1>6, <1>7

LEMMA HandOverStep == TypeInv /\ Inv /\ [Next]_vars => Inv'
<1> SUFFICES ASSUME TypeInv, Inv, [Next]_vars PROVE Inv'
  OBVIOUS
<1>1. CASE UNCHANGED vars
  BY <1>1 DEF vars, Inv, LedgerInv, WorkerInv, CallInv, Serving
<1>2. CASE \E c \in Clients : ServiceStep(c)
  BY <1>2, CreateStep, RetryGetStep, RetryUpdateStep, DeliverStep DEF ServiceStep
<1>3. CASE WorkerStep
  BY <1>3, QuietWorkerStep, PersistStep, PersistFailsStep, RenderStep, PrintStep DEF WorkerStep
<1> QED BY <1>1, <1>2, <1>3, ProcessStep DEF Next

LEMMA HandOverInvariant == Spec => [](TypeInv /\ Inv)
<1>1. TypeInv /\ Inv /\ [Next]_vars => (TypeInv /\ Inv)'
  BY TypeInvStep, HandOverStep
<1> QED BY <1>1, TypeInvInit, HandOverInit, PTL DEF Spec

\* One request of an operator hands the spooler at most one document: over any
\* interleaving of handlers and worker, any failed write, crash and restart.
THEOREM AtMostOneHandOver == Spec => []PrintedOncePerRequest
<1>1. TypeInv /\ Inv => PrintedOncePerRequest
  BY DEF Inv, LedgerInv, Ledger, PrintedOncePerRequest
<1> QED BY <1>1, HandOverInvariant, PTL

\* What a settled job says of the hand-over is true, in memory and in the file.
THEOREM RecordsTellTheTruth == Spec => []OutcomeIsTrue
<1>1. TypeInv /\ Inv => OutcomeIsTrue
  BY DEF Inv, LedgerInv, Ledger, OutcomeIsTrue, Shown
<1> QED BY <1>1, HandOverInvariant, PTL
------------------------------------------------------------------------------
(***************************************************************************)
(* Memory and file.  A write that has reached only the file is one step of *)
(* one job's life cycle ahead of the memory: the worker's copy always is   *)
(* the next record of its job, and a handler writes none but a new job or  *)
(* the retry of a failed one.                                              *)
(***************************************************************************)
WorkerSuccessor(old, new) ==
  \/ /\ old.status = "queued"
     /\ new = Transition(old, "rendering")
  \/ /\ old.status = "rendering"
     /\ new \in {Transition(old, "printing"), Failed(old, "RENDER_FAILED")}
  \/ /\ old.status = "printing"
     /\ new \in {Transition(old, "succeeded"), Failed(old, "PRINT_COMMAND_FAILED")}

Successor(old, new) ==
  \/ old = NoJob /\ new = NewJob(new.created)
  \/ old.status = "failed" /\ new = Transition(old, "queued")
  \/ WorkerSuccessor(old, new)

OneStepAhead ==
  \/ disk = mem
  \/ \E i \in Ids : disk = [mem EXCEPT ![i] = disk[i]] /\ Successor(mem[i], disk[i])

StoreInv ==
  /\ phase = "off" => mem = Empty
  /\ phase \in {"loaded", "recovered"} => disk = mem
  /\ phase # "off" => OneStepAhead
  /\ \A i \in Ids : \A job \in {mem[i], disk[i]} : job.status = "absent" => job = NoJob

CopyInv == worker.at = "persist" => WorkerSuccessor(mem[worker.id], worker.job)

LEMMA SuccessorStatus ==
  ASSUME NEW old, NEW new, Successor(old, new)
  PROVE  /\ new.status # "absent"
         /\ \/ CanTransition(old.status, new.status)
            \/ old = NoJob /\ new.status = "queued"
<1>1. CASE old = NoJob /\ new = NewJob(new.created)
  <2>1. NewJob(new.created).status = "queued"
    BY DEF NewJob
  <2> QED BY <1>1, <2>1
<1>2. CASE old.status = "failed" /\ new = Transition(old, "queued")
  BY <1>2 DEF Transition, CanTransition, Arrows
<1>3. CASE WorkerSuccessor(old, new)
  <2>1. \A job, to : Transition(job, to).status = to
    BY DEF Transition
  <2>2. \A job, code : Failed(job, code).status = "failed"
    BY DEF Failed, Transition
  <2> QED BY <1>3, <2>1, <2>2 DEF WorkerSuccessor, CanTransition, Arrows
<1> QED BY <1>1, <1>2, <1>3 DEF Successor

\* What a step can do to the memory, the file and the hand-overs.
Quiet == /\ UNCHANGED store
         /\ phase # "off" /\ phase' # "off"
         /\ phase' \in {"loaded", "recovered"} => phase' = phase

Writes(i, job) == /\ Serving /\ UNCHANGED phase
                  /\ WriteOk(i, job) \/ WriteLate(i, job)
                  /\ Successor(mem[i], job)
                  /\ sent' = IF job.status = "queued" THEN [sent EXCEPT ![i] = 0] ELSE sent

Submits(i) == /\ mem[i].status = "printing" /\ sent[i] = 0
              /\ sent' = [sent EXCEPT ![i] = 1]

Ends == ProcessEnds /\ phase # "off" /\ UNCHANGED <<disk, sent>>

LEMMA ServiceKinds ==
  ASSUME TypeInv, Inv, StoreInv, NEW c \in Clients, ServiceStep(c)
  PROVE  \/ Quiet /\ UNCHANGED sent
         \/ \E i \in Ids, job \in Job : Writes(i, job) /\ mem[i].status \in {"absent", "failed"}
<1> USE DEF TypeInv, TypeOK, Inv
<1>0. Serving /\ UNCHANGED phase /\ phase # "off"
  BY DEF ServiceStep, Create, RetryGet, RetryUpdate, Deliver, Enter, Serving, CallInv
<1>1. ASSUME NEW i \in Ids, Create(c, i)
      PROVE  \E job \in Job : Writes(i, job) /\ mem[i].status = "absent"
  <2>1. PICK now \in Clock : WriteOk(i, NewJob(now)) \/ WriteLate(i, NewJob(now))
    BY <1>1 DEF Create
  <2>2. NewJob(now) \in Job
    BY ClockType, RecordTypes
  <2>3. mem[i].status = "absent" /\ mem[i] = NoJob /\ UNCHANGED sent
    BY <1>1 DEF Create, StoreInv
  <2>4. sent[i] = 0
    BY <1>0, <2>3 DEF LedgerInv, Ledger
  <2>5. Successor(mem[i], NewJob(now))
    BY <2>3 DEF Successor, NewJob
  <2> QED BY <1>0, <2>1, <2>2, <2>3, <2>4, <2>5 DEF Writes
<1>2. ASSUME NEW i \in Ids, RetryGet(c, i) \/ Deliver(c)
      PROVE  Quiet /\ UNCHANGED sent
  BY <1>0, <1>2 DEF RetryGet, Deliver, Quiet, Serving, store, history
<1>3. CASE RetryUpdate(c)
  <2> DEFINE i == call[c].id
             job == Transition(call[c].job, "queued")
  <2>1. i \in Ids /\ call[c].job = mem[i] /\ mem[i].status = "failed"
    BY <1>3 DEF RetryUpdate, CallInv, Pointed
  <2>2. job \in Job /\ job.status = "queued" /\ Successor(mem[i], job)
    BY <2>1, TransitionType DEF Status, Live, Successor, Transition
  <2>3. CASE (WriteOk(i, job) \/ WriteLate(i, job)) /\ sent' = [sent EXCEPT ![i] = 0]
    BY <1>0, <2>1, <2>2, <2>3 DEF Writes
  <2>4. CASE UNCHANGED <<mem, disk, sent>>
    BY <1>0, <2>4 DEF Quiet, Serving, store
  <2> QED BY <1>3, <2>3, <2>4 DEF RetryUpdate, WriteLost, store, history
<1>4. CASE Deliver(c)
  BY <1>0, <1>4 DEF Deliver, Quiet, Serving, store, history
<1> QED BY <1>1, <1>2, <1>3, <1>4 DEF ServiceStep

LEMMA WorkerKinds ==
  ASSUME TypeInv, Inv, CopyInv, WorkerStep
  PROVE  \/ Quiet /\ UNCHANGED sent
         \/ Quiet /\ \E i \in Ids : Submits(i)
         \/ Writes(worker.id, worker.job) /\ worker.id \in Ids /\ worker.job \in Job
<1> USE DEF TypeInv, TypeOK, Inv
<1>0. Serving /\ UNCHANGED phase /\ phase # "off"
  BY DEF WorkerStep, Dequeue, QuitIdle, Get, Persist, PersistFails, Render, PrintPDF, Close, Serving, WorkerInv
<1>1. CASE Dequeue \/ QuitIdle \/ Get \/ Render \/ Close
  BY <1>0, <1>1 DEF Dequeue, QuitIdle, Get, Render, Close, Quiet, Serving, store, history
<1>2. CASE Persist \/ PersistFails
  <2>1. worker.at = "persist" /\ worker.id \in Ids /\ worker.job \in Job /\ UNCHANGED sent
    BY <1>2 DEF Persist, PersistFails, Pointed, Activity, history
  <2>2. Successor(mem[worker.id], worker.job) /\ worker.job.status # "queued"
    BY <2>1 DEF CopyInv, Successor, WorkerInv
  <2>3. CASE WriteOk(worker.id, worker.job) \/ WriteLate(worker.id, worker.job)
    BY <1>0, <2>1, <2>2, <2>3 DEF Writes
  <2>4. CASE WriteLost
    BY <1>0, <2>1, <2>4 DEF WriteLost, Quiet, Serving
  <2> QED BY <1>2, <2>3, <2>4 DEF Persist, PersistFails
<1>3. CASE PrintPDF
  <2>1. Quiet
    BY <1>0, <1>3 DEF PrintPDF, Quiet, Serving
  <2>2. worker.id \in Ids /\ mem[worker.id].status = "printing" /\ sent[worker.id] = 0
    BY <1>3 DEF PrintPDF, WorkerInv, Pointed
  <2>3. sent' = sent \/ sent' = [sent EXCEPT ![worker.id] = 0 + 1]
    BY <1>3, <2>2 DEF PrintPDF
  <2> QED BY <2>1, <2>2, <2>3 DEF Submits
<1> QED BY <1>1, <1>2, <1>3 DEF WorkerStep

LEMMA ProcessKinds ==
  ASSUME Load \/ Recover \/ Resume \/ Cancel \/ Exit \/ Crash
  PROVE  Load \/ Recover \/ Ends \/ (Quiet /\ UNCHANGED sent)
BY DEF Resume, Cancel, Exit, Crash, Ends, Quiet, store, history

\* A write keeps what holds between memory and file.
LEMMA WritesStore ==
  ASSUME TypeOK, StoreInv, NEW i \in Ids, NEW job \in Job, Writes(i, job)
  PROVE  StoreInv'
<1>1. job.status # "absent" /\ phase \in {"up", "stopping"} /\ UNCHANGED phase
  BY SuccessorStatus DEF Writes, Serving
<1>2. \A j \in Ids : \A r \in {mem'[j], disk'[j]} : r \in {mem[j], job}
  BY DEF Writes, WriteOk, WriteLate, TypeOK
<1>3. OneStepAhead'
  <2>1. CASE WriteOk(i, job)
    BY <2>1 DEF WriteOk, OneStepAhead
  <2>2. CASE WriteLate(i, job)
    <3>1. disk' = [mem' EXCEPT ![i] = disk'[i]] /\ disk'[i] = job /\ mem' = mem
      BY <2>2 DEF WriteLate, TypeOK
    <3> QED BY <3>1 DEF OneStepAhead, Writes
  <2> QED BY <2>1, <2>2 DEF Writes
<1> QED BY <1>1, <1>2, <1>3 DEF StoreInv

LEMMA EndsStore ==
  ASSUME ProcessEnds, \A i \in Ids : disk'[i].status = "absent" => disk'[i] = NoJob
  PROVE  StoreInv'
BY DEF ProcessEnds, StoreInv, Empty

LEMMA SettledRecords ==
  ASSUME NEW job \in Job, job.status = "absent" => job = NoJob
  PROVE  Interrupted(job).status = "absent" => Interrupted(job) = NoJob
BY DEF Interrupted, InProgress, Job

LEMMA StoreInvStep ==
  ASSUME TypeInv, Inv, StoreInv, CopyInv, [Next]_vars
  PROVE  StoreInv'
<1> USE DEF TypeInv, TypeOK
<1>1. CASE UNCHANGED vars
  BY <1>1 DEF vars, StoreInv, OneStepAhead
<1>2. CASE Quiet
  BY <1>2 DEF Quiet, store, StoreInv, OneStepAhead
<1>3. CASE \E i \in Ids, job \in Job : Writes(i, job)
  BY <1>3, WritesStore
<1>4. CASE Load
  BY <1>4 DEF Load, StoreInv, OneStepAhead
<1>5. CASE Recover
  <2> DEFINE next == [i \in Ids |-> Interrupted(mem[i])]
  <2>1. \A i \in Ids : next[i].status = "absent" => next[i] = NoJob
    BY SettledRecords DEF StoreInv
  <2>2. CASE mem' = next /\ disk' = next /\ phase' = "recovered"
    BY <2>1, <2>2 DEF StoreInv, OneStepAhead
  <2>3. CASE disk' = next /\ ProcessEnds
    BY <2>1, <2>3, EndsStore
  <2> QED BY <1>5, <2>2, <2>3 DEF Recover
<1>6. CASE Ends
  BY <1>6, EndsStore DEF Ends, StoreInv
<1> QED BY <1>1, <1>2, <1>3, <1>4, <1>5, <1>6, ServiceKinds, WorkerKinds, ProcessKinds DEF Next

LEMMA CopyInvStep ==
  ASSUME TypeInv, Inv, StoreInv, CopyInv, [Next]_vars
  PROVE  CopyInv'
<1> USE DEF TypeInv, TypeOK, Inv
<1>1. CASE UNCHANGED <<mem, worker>>
  BY <1>1 DEF CopyInv
<1>2. CASE \E c \in Clients : ServiceStep(c)
  <2>1. UNCHANGED worker
    BY <1>2 DEF ServiceStep, Create, RetryGet, RetryUpdate, Deliver
  <2>2. CASE Quiet
    BY <2>1, <2>2, <1>1 DEF Quiet, store
  <2>3. ASSUME NEW i \in Ids, NEW job \in Job, Writes(i, job), mem[i].status \in {"absent", "failed"},
               worker.at = "persist"
        PROVE  mem'[worker.id] = mem[worker.id]
    <3>1. worker.id \in Ids /\ worker.id # i
      BY <2>3, WorkerOwnsItsJob DEF Pointed
    <3> QED BY <2>3, <3>1 DEF Writes, WriteOk, WriteLate
  <2> QED BY <1>2, <2>1, <2>2, <2>3, ServiceKinds DEF CopyInv
<1>3. CASE Get
  BY <1>3 DEF Get, Quit, Work, Idle, Resting, store, CopyInv, WorkerSuccessor
<1>4. CASE PersistFails
  BY <1>4 DEF PersistFails, WriteLate, WriteLost, Quit, Resting, store, CopyInv
<1>5. CASE Render
  <2>1. mem'[worker.id] = worker.job /\ worker.job.status = "rendering"
    BY <1>5 DEF Render, WorkerInv, store
  <2> QED BY <1>5, <2>1 DEF Render, Quit, Work, Resting, CopyInv, WorkerSuccessor
<1>6. CASE PrintPDF
  <2>1. mem'[worker.id] = worker.job /\ worker.job.status = "printing"
    BY <1>6 DEF PrintPDF, WorkerInv, store
  <2> QED BY <1>6, <2>1 DEF PrintPDF, Quit, Work, Resting, CopyInv, WorkerSuccessor
<1>7. CASE Dequeue \/ QuitIdle \/ Persist \/ Close
  BY <1>7 DEF Dequeue, QuitIdle, Persist, Close, AfterPersist, Continue, Quit, Work, Idle, Resting, CopyInv
<1>8. CASE Load \/ Recover \/ Resume \/ Cancel \/ Exit \/ Crash
  BY <1>8 DEF Load, Recover, Resume, Cancel, Exit, Crash, ProcessEnds, Idle, Resting, Serving, WorkerInv,
              store, service, CopyInv
<1>9. CASE UNCHANGED vars
  BY <1>9 DEF vars, CopyInv
<1> QED BY <1>2, <1>3, <1>4, <1>5, <1>6, <1>7, <1>8, <1>9 DEF Next, WorkerStep

LEMMA StoreInvariant == Spec => [](TypeInv /\ Inv /\ StoreInv /\ CopyInv)
<1>1. Init => StoreInv /\ CopyInv
  BY DEF Init, StoreInv, CopyInv, Empty, Idle, Resting
<1> QED BY <1>1, HandOverInvariant, StoreInvStep, CopyInvStep, PTL DEF Spec

\* The file is never more than one legal step of one job ahead of the memory.
THEOREM DiskStaysClose == Spec => []DiskOneStepAhead
<1>1. StoreInv => DiskOneStepAhead
  BY SuccessorStatus DEF StoreInv, OneStepAhead, DiskOneStepAhead
<1> QED BY <1>1, StoreInvariant, PTL
------------------------------------------------------------------------------
(***************************************************************************)
(* The refinement.  Every step of the pipeline is one of the life cycle of *)
(* jobs, or leaves them alone.                                             *)
(***************************************************************************)
\* The life cycle's copies of the operators on records.
LEMMA SameRecords ==
  /\ Lifecycle!NoJob = NoJob
  /\ \A now : Lifecycle!NewJob(now) = NewJob(now)
  /\ \A job, to : Lifecycle!Transition(job, to) = Transition(job, to)
  /\ \A job, code : Lifecycle!Failed(job, code) = Failed(job, code)
  /\ \A job : Lifecycle!Interrupted(job) = Interrupted(job)
BY DEF NoJob, Lifecycle!NoJob, NewJob, Lifecycle!NewJob, Transition, Lifecycle!Transition,
       Failed, Lifecycle!Failed, Interrupted, Lifecycle!Interrupted, InProgress, Lifecycle!InProgress

\* One step of a job's record, with what the ledger says of the hand-overs, is a
\* step of the life cycle.
LEMMA SuccessorIsLegal ==
  ASSUME TypeOK, NEW i \in Ids, NEW job \in Job, Successor(mem[i], job),
         Shown = mem, Shown' = [mem EXCEPT ![i] = job],
         Ledger(mem[i], sent[i]), Ledger(job, sent'[i]),
         sent' = IF job.status = "queued" THEN [sent EXCEPT ![i] = 0] ELSE sent
  PROVE  Lifecycle!Next
<1> USE SameRecords DEF Lifecycle!Next, Lifecycle!Put
<1>0. Shown'[i] = job
  BY DEF TypeOK
<1>1. \A r, to : Transition(r, to).status = to
  BY DEF Transition
<1>2. \A r, code : Failed(r, code).status = "failed"
  BY DEF Failed, Transition
<1>3. CASE mem[i] = NoJob /\ job = NewJob(job.created)
  <2>1. mem[i].status = "absent" /\ job.status = "queued" /\ job.created \in Nat
    BY <1>3 DEF NoJob, NewJob, Job
  <2>2. sent[i] = 0
    BY <2>1 DEF Ledger
  <2>3. sent' = sent
    BY <2>1, <2>2 DEF TypeOK
  <2>4. Lifecycle!Accept(i)
    BY <1>0, <1>3, <2>1, <2>3 DEF Lifecycle!Accept
  <2> QED BY <2>4
<1>4. CASE mem[i].status = "failed" /\ job = Transition(mem[i], "queued")
  BY <1>1, <1>4 DEF Lifecycle!Requeue
<1>5. CASE mem[i].status = "queued" /\ job = Transition(mem[i], "rendering")
  BY <1>1, <1>5 DEF Lifecycle!Start, Ledger
<1>6. CASE mem[i].status = "rendering" /\ job = Transition(mem[i], "printing")
  BY <1>1, <1>6 DEF Lifecycle!Rendered
<1>7. CASE mem[i].status = "rendering" /\ job = Failed(mem[i], "RENDER_FAILED")
  BY <1>2, <1>7 DEF Lifecycle!Fail, Ledger
<1>8. CASE mem[i].status = "printing" /\ job = Transition(mem[i], "succeeded")
  BY <1>1, <1>8 DEF Lifecycle!Succeed, Ledger
<1>9. CASE mem[i].status = "printing" /\ job = Failed(mem[i], "PRINT_COMMAND_FAILED")
  BY <1>2, <1>9 DEF Lifecycle!Fail
<1> QED BY <1>3, <1>4, <1>5, <1>6, <1>7, <1>8, <1>9 DEF Successor, WorkerSuccessor

\* A write is a step of the life cycle; one that has only reached the file shows
\* nothing yet, but may be the request for another run.
LEMMA WritesAreLegal ==
  ASSUME TypeInv, Inv, Inv', NEW i \in Ids, NEW job \in Job, Writes(i, job)
  PROVE  Lifecycle!Next \/ UNCHANGED Lifecycle!vars
<1> USE DEF TypeInv, TypeOK, Inv
<1>1. phase # "off" /\ phase' # "off" /\ Shown = mem /\ Shown' = mem'
  BY DEF Writes, Serving, Shown
<1>2. Ledger(mem[i], sent[i])
  BY <1>1 DEF LedgerInv
<1>3. disk'[i] = job /\ Ledger(job, sent'[i])
  BY DEF Writes, WriteOk, WriteLate, LedgerInv
<1>4. CASE WriteOk(i, job)
  BY <1>1, <1>2, <1>3, <1>4, SuccessorIsLegal DEF WriteOk, Writes
<1>5. CASE WriteLate(i, job)
  <2>1. UNCHANGED mem
    BY <1>5 DEF WriteLate
  <2>2. CASE sent' = sent
    BY <1>1, <2>1, <2>2 DEF Lifecycle!vars
  <2>3. CASE sent' # sent
    <3>1. job.status = "queued" /\ sent' = [sent EXCEPT ![i] = 0] /\ sent[i] # 0
      BY <2>3 DEF Writes
    <3>2. mem[i].status = "failed"
      <4>1. mem[i] # NoJob
        BY <1>2, <3>1 DEF Ledger, NoJob
      <4>2. ~ WorkerSuccessor(mem[i], job)
        BY <3>1 DEF WorkerSuccessor, Transition, Failed
      <4> QED BY <4>1, <4>2 DEF Writes, Successor
    <3> QED BY <1>1, <2>1, <3>1, <3>2 DEF Lifecycle!Next, Lifecycle!Ask
  <2> QED BY <2>2, <2>3
<1> QED BY <1>4, <1>5 DEF Writes

LEMMA LifecycleStep ==
  ASSUME TypeInv, Inv, StoreInv, CopyInv, Inv', [Next]_vars
  PROVE  Lifecycle!Next \/ UNCHANGED Lifecycle!vars
<1> USE SameRecords DEF TypeInv, TypeOK, Lifecycle!vars
<1>1. CASE UNCHANGED vars
  BY <1>1 DEF vars, Shown
<1>2. CASE Quiet /\ UNCHANGED sent
  BY <1>2 DEF Quiet, Shown, store
<1>3. ASSUME Quiet, NEW i \in Ids, Submits(i)
      PROVE  Lifecycle!Next
  BY <1>3 DEF Quiet, Submits, Shown, store, Lifecycle!Next, Lifecycle!Submit
<1>4. ASSUME NEW i \in Ids, NEW job \in Job, Writes(i, job)
      PROVE  Lifecycle!Next \/ UNCHANGED Lifecycle!vars
  BY <1>4, WritesAreLegal
<1>5. CASE Load
  BY <1>5 DEF Load, Shown
<1>6. CASE Recover
  <2>1. Shown = mem /\ Shown' = [i \in Ids |-> Interrupted(mem[i])] /\ UNCHANGED sent
    BY <1>6 DEF Recover, ProcessEnds, Shown, history
  <2> QED BY <2>1 DEF Lifecycle!Next, Lifecycle!Interrupt
<1>7. CASE Ends
  <2>1. Shown = mem /\ Shown' = disk /\ UNCHANGED sent
    BY <1>7 DEF Ends, ProcessEnds, Shown
  <2>2. CASE disk = mem
    BY <2>1, <2>2
  <2>3. ASSUME NEW i \in Ids, disk = [mem EXCEPT ![i] = disk[i]], Successor(mem[i], disk[i])
        PROVE  Lifecycle!Next
    <3>1. Ledger(mem[i], sent[i]) /\ Ledger(disk[i], sent[i])
      BY <1>7 DEF Inv, LedgerInv, Ends
    <3>2. disk[i].status = "queued" => sent[i] = 0
      BY <3>1 DEF Ledger
    <3>3. sent' = IF disk[i].status = "queued" THEN [sent EXCEPT ![i] = 0] ELSE sent
      BY <2>1, <3>2
    <3> QED BY <2>1, <2>3, <3>1, <3>3, SuccessorIsLegal
  <2> QED BY <1>7, <2>2, <2>3 DEF Ends, StoreInv, OneStepAhead
<1> QED BY <1>1, <1>2, <1>3, <1>4, <1>5, <1>6, <1>7, ServiceKinds, WorkerKinds, ProcessKinds DEF Next

\* Across handlers, worker, failed writes, crashes and restarts every job follows
\* its life cycle, with one hand-over per request at most.
THEOREM JobsFollowTheirLifecycle == Spec => ImplementsLifecycle
<1>1. Init => Lifecycle!Init
  BY SameRecords DEF Init, Shown, Empty, Lifecycle!Init
<1>2. TypeInv /\ Inv /\ StoreInv /\ CopyInv /\ Inv' /\ [Next]_vars => [Lifecycle!Next]_(Lifecycle!vars)
  BY LifecycleStep
<1> QED BY <1>1, <1>2, StoreInvariant, PTL DEF Spec, ImplementsLifecycle, Lifecycle!Spec
------------------------------------------------------------------------------
(***************************************************************************)
(* Acceptance.  Whoever stands in the line waits in memory, and in the     *)
(* file is at most started; jobs in progress are in the worker's hands.    *)
(***************************************************************************)
LineInv ==
  /\ \A p \in line : p[1] \in InLine /\ p[2] \in InLine
  /\ \A i \in InLine : /\ disk[i].status \in {"queued", "rendering"}
                       /\ phase # "off" => mem[i].status = "queued"

\* Nothing is in progress between the repair at start-up and the worker's start.
SettledInv == phase = "recovered" => \A i \in Ids : ~ InProgress(mem[i])

StageInv ==
  Working => \A i \in Ids : InProgress(mem[i]) =>
    worker.at \in {"persist", "render", "print"} /\ worker.id = i

LEMMA OrderOfSeq ==
  ASSUME NEW s \in Seq(Ids)
  PROVE  /\ \A m, n \in 1 .. Len(s) : m =< n => <<s[m], s[n]>> \in OrderOf(s)
         /\ \A n \in 1 .. Len(s) : <<s[n], s[n]>> \in OrderOf(s)
         /\ \A p \in OrderOf(s) : \E m, n \in 1 .. Len(s) : m =< n /\ p = <<s[m], s[n]>>
BY DEF OrderOf

\* The list of waiting jobs that a restart makes.
LEMMA ResumedIsSeq ==
  ASSUME NEW s \in [1 .. Cardinality(Waiting) -> Waiting]
  PROVE  /\ s \in Seq(Ids) /\ Len(s) = Cardinality(Waiting)
         /\ \A n \in 1 .. Len(s) : s[n] \in Waiting
<1>1. s \in Seq(Waiting)
  BY WaitingIsFinite, ListIsSeq
<1>2. s \in Seq(Ids)
  BY <1>1, SeqMonotonic DEF Waiting
<1>3. Len(s) = Cardinality(Waiting)
  BY WaitingIsFinite, <1>2, LenProperties
<1> QED BY <1>2, <1>3

LEMMA JoinsLine ==
  ASSUME TypeOK, LineInv, NEW i \in Ids, Joins(i)
  PROVE  /\ InLine' = InLine \cup {i}
         /\ \A p \in line' : p[1] \in InLine' /\ p[2] \in InLine'
<1>1. \A k \in Ids : <<k, k>> \in line' <=> (<<k, k>> \in line \/ k = i)
  BY DEF Joins
<1>2. InLine' = InLine \cup {i}
  BY <1>1 DEF InLine
<1>3. ASSUME NEW p \in line' PROVE p[1] \in InLine' /\ p[2] \in InLine'
  BY <1>2, <1>3 DEF Joins, LineInv
<1> QED BY <1>2, <1>3

LEMMA LeavesLine ==
  ASSUME TypeOK, LineInv, NEW i \in Ids, Leaves(i)
  PROVE  /\ InLine' = InLine \ {i}
         /\ \A p \in line' : p[1] \in InLine' /\ p[2] \in InLine'
<1>1. \A k \in Ids : <<k, k>> \in line' <=> (<<k, k>> \in line /\ k # i)
  BY DEF Leaves
<1>2. InLine' = InLine \ {i}
  BY <1>1 DEF InLine
<1>3. ASSUME NEW p \in line' PROVE p[1] \in InLine' /\ p[2] \in InLine'
  <2>1. p \in line /\ p[1] # i /\ p[2] # i
    BY <1>3 DEF Leaves
  <2> QED BY <1>2, <2>1 DEF LineInv
<1> QED BY <1>2, <1>3

\* A write that joins the line, leaves it, or has not been reported.
LEMMA WriteLine ==
  ASSUME TypeOK, LineInv, phase # "off", phase' # "off", NEW i \in Ids, NEW job \in Job,
         \/ WriteOk(i, job) /\ Joins(i) /\ job.status = "queued"
         \/ WriteOk(i, job) /\ Leaves(i)
         \/ WriteLate(i, job) /\ UNCHANGED line
            /\ (i \in InLine => job.status \in {"queued", "rendering"})
  PROVE  LineInv'
<1> USE DEF TypeOK
<1>1. CASE WriteOk(i, job) /\ Joins(i) /\ job.status = "queued"
  <2>1. mem' = disk' /\ mem'[i] = job /\ \A k \in Ids \ {i} : mem'[k] = mem[k]
    BY <1>1 DEF WriteOk
  <2>2. \A k \in InLine' : mem'[k].status = "queued"
    BY <1>1, <2>1, JoinsLine DEF LineInv, InLine
  <2> QED BY <1>1, <2>1, <2>2, JoinsLine DEF LineInv
<1>2. CASE WriteOk(i, job) /\ Leaves(i)
  <2>1. mem' = disk' /\ \A k \in Ids \ {i} : mem'[k] = mem[k]
    BY <1>2 DEF WriteOk
  <2>2. \A k \in InLine' : k \in InLine /\ k \in Ids \ {i}
    BY <1>2, LeavesLine DEF InLine
  <2>3. \A k \in InLine' : mem'[k].status = "queued"
    BY <2>1, <2>2 DEF LineInv
  <2> QED BY <1>2, <2>1, <2>3, LeavesLine DEF LineInv
<1>3. CASE WriteLate(i, job) /\ UNCHANGED line
           /\ (i \in InLine => job.status \in {"queued", "rendering"})
  <2>1. mem' = mem /\ disk'[i] = job /\ \A k \in Ids \ {i} : disk'[k] = mem[k]
    BY <1>3 DEF WriteLate
  <2> QED BY <1>3, <2>1 DEF LineInv, InLine
<1> QED BY <1>1, <1>2, <1>3

LEMMA ServiceLine ==
  ASSUME TypeInv, Inv, LineInv, NEW c \in Clients, ServiceStep(c)
  PROVE  LineInv'
<1> USE DEF TypeInv, TypeOK, Inv
<1>0. phase # "off" /\ UNCHANGED phase
  BY DEF ServiceStep, Create, RetryGet, RetryUpdate, Deliver, Enter, Serving, CallInv
<1>1. CASE UNCHANGED <<mem, disk, line>>
  BY <1>0, <1>1 DEF LineInv, InLine
<1>2. ASSUME NEW i \in Ids, Create(c, i) PROVE LineInv'
  <2>1. PICK now \in Clock : \/ WriteOk(i, NewJob(now)) /\ Joins(i)
                             \/ WriteLate(i, NewJob(now)) /\ UNCHANGED line
    BY <1>2 DEF Create
  <2>2. NewJob(now) \in Job /\ NewJob(now).status = "queued"
    BY ClockType, RecordTypes DEF NewJob
  <2> QED BY <1>0, <2>1, <2>2, WriteLine
<1>3. CASE RetryUpdate(c)
  <2> DEFINE i == call[c].id
             job == Transition(call[c].job, "queued")
  <2>1. i \in Ids /\ call[c].job = mem[i]
    BY <1>3 DEF RetryUpdate, CallInv, Pointed
  <2>2. job \in Job /\ job.status = "queued"
    BY <2>1, TransitionType DEF Status, Live, Transition
  <2>3. \/ WriteOk(i, job) /\ Joins(i)
        \/ WriteLate(i, job) /\ UNCHANGED line
        \/ UNCHANGED <<mem, disk, line>>
    BY <1>3 DEF RetryUpdate, WriteLost, store, history
  <2> QED BY <1>0, <1>1, <2>1, <2>2, <2>3, WriteLine
<1> QED BY <1>1, <1>2, <1>3 DEF ServiceStep, RetryGet, Deliver, history

LEMMA WorkerLine ==
  ASSUME TypeInv, Inv, CopyInv, LineInv, WorkerStep
  PROVE  LineInv'
<1> USE DEF TypeInv, TypeOK, Inv
<1>0. phase # "off" /\ UNCHANGED phase
  BY DEF WorkerStep, Dequeue, QuitIdle, Get, Persist, PersistFails, Render, PrintPDF, Close, Serving, WorkerInv
<1>1. CASE UNCHANGED <<mem, disk, line>>
  BY <1>0, <1>1 DEF LineInv, InLine
<1>2. CASE Persist \/ PersistFails
  <2> DEFINE i == worker.id
             job == worker.job
  <2>1. i \in Ids /\ job \in Job
    BY <1>2 DEF Persist, PersistFails, Pointed, Activity
  <2>2. i \in InLine => job.status = "rendering"
    <3>1. mem[i].status = "queued" => job.status = "rendering"
      BY <1>2 DEF Persist, PersistFails, CopyInv, WorkerSuccessor, Transition
    <3> QED BY <1>0, <3>1 DEF LineInv
  <2>3. \/ WriteOk(i, job) /\ Leaves(i)
        \/ WriteLate(i, job) /\ UNCHANGED line
        \/ UNCHANGED <<mem, disk, line>>
    BY <1>2 DEF Persist, PersistFails, WriteLost, store, history
  <2> QED BY <1>0, <1>1, <2>1, <2>2, <2>3, WriteLine
<1> QED BY <1>1, <1>2 DEF WorkerStep, Dequeue, QuitIdle, Get, Render, PrintPDF, Close, store, history

LEMMA ProcessLine ==
  ASSUME TypeInv, StoreInv, LineInv, Load \/ Recover \/ Resume \/ Cancel \/ Exit \/ Crash
  PROVE  LineInv'
<1> USE DEF TypeInv, TypeOK
<1>1. CASE Load
  <2>1. InLine' = {i \in InLine : disk[i].status = "queued"}
    <3>1. \A k \in Ids : <<k, k>> \in line' <=> (<<k, k>> \in line /\ disk[k].status = "queued")
      BY <1>1 DEF Load
    <3> QED BY <3>1 DEF InLine
  <2>2. \A p \in line' : p[1] \in InLine' /\ p[2] \in InLine'
    BY <1>1, <2>1 DEF Load, LineInv
  <2> QED BY <1>1, <2>1, <2>2 DEF Load, LineInv
<1>2. CASE Recover
  <2> DEFINE next == [i \in Ids |-> Interrupted(mem[i])]
  <2>1. line' = line /\ disk' = next /\ (phase' # "off" => mem' = next)
    BY <1>2 DEF Recover, ProcessEnds, history
  <2>2. \A i \in InLine : next[i].status = "queued"
    BY <1>2 DEF Recover, LineInv, InLine, Interrupted, InProgress
  <2> QED BY <2>1, <2>2 DEF LineInv, InLine
<1>3. CASE Resume
  <2>1. CASE UNCHANGED <<mem, disk>> /\ phase' = "up"
    <3>1. PICK s \in [1..Cardinality(Waiting) -> Waiting] : line' = OrderOf(s)
      BY <1>3, <2>1 DEF Resume, ProcessEnds
    <3>2. \A p \in line' : \A j \in {p[1], p[2]} : <<j, j>> \in line' /\ j \in Waiting
      <4> SUFFICES ASSUME NEW p \in line', NEW j \in {p[1], p[2]}
                   PROVE  <<j, j>> \in line' /\ j \in Waiting
        OBVIOUS
      <4>1. s \in Seq(Ids) /\ \A k \in 1 .. Len(s) : s[k] \in Waiting
        BY ResumedIsSeq
      <4>2. PICK m, n \in 1 .. Len(s) : p = <<s[m], s[n]>>
        BY <3>1, <4>1, OrderOfSeq
      <4>3. PICK k \in 1 .. Len(s) : j = s[k]
        BY <4>2
      <4>4. <<s[k], s[k]>> \in OrderOf(s)
        BY <4>1, OrderOfSeq
      <4> QED BY <3>1, <4>1, <4>3, <4>4
    <3>3. mem = disk
      BY <1>3 DEF Resume, StoreInv
    <3>4. InLine' \subseteq Waiting
      BY <3>2 DEF InLine
    <3>5. \A p \in line' : p[1] \in InLine' /\ p[2] \in InLine'
      BY <3>2 DEF InLine, Waiting
    <3> QED BY <2>1, <3>3, <3>4, <3>5 DEF LineInv, Waiting
  <2>2. CASE ProcessEnds /\ UNCHANGED <<line, disk>>
    BY <2>2 DEF ProcessEnds, LineInv, InLine
  <2> QED BY <1>3, <2>1, <2>2 DEF Resume
<1>4. CASE Cancel
  BY <1>4 DEF Cancel, LineInv, InLine, store, history
<1>5. CASE Exit \/ Crash
  BY <1>5 DEF Exit, Crash, ProcessEnds, LineInv, InLine, history
<1> QED BY <1>1, <1>2, <1>3, <1>4, <1>5

LEMMA LineInvStep ==
  ASSUME TypeInv, Inv, StoreInv, CopyInv, LineInv, [Next]_vars
  PROVE  LineInv'
<1>1. CASE UNCHANGED vars
  BY <1>1 DEF vars, LineInv, InLine
<1> QED BY <1>1, ServiceLine, WorkerLine, ProcessLine DEF Next

LEMMA SettledInvStep ==
  ASSUME TypeInv, Inv, StoreInv, CopyInv, SettledInv, [Next]_vars
  PROVE  SettledInv'
<1>1. CASE UNCHANGED vars
  BY <1>1 DEF vars, SettledInv
<1>2. CASE Quiet
  BY <1>2 DEF Quiet, store, SettledInv
<1>3. ASSUME NEW i, NEW job, Writes(i, job) PROVE SettledInv'
  BY <1>3 DEF Writes, Serving, SettledInv
<1>4. CASE Load \/ Ends
  BY <1>4 DEF Load, Ends, ProcessEnds, SettledInv
<1>5. CASE Recover
  <2>1. \A job \in Job : ~ InProgress(Interrupted(job))
    BY DEF InProgress, Interrupted, Job
  <2> QED BY <1>5, <2>1 DEF Recover, ProcessEnds, SettledInv, TypeInv, TypeOK
<1> QED BY <1>1, <1>2, <1>3, <1>4, <1>5, ServiceKinds, WorkerKinds, ProcessKinds DEF Next

LEMMA StageInvStep ==
  ASSUME TypeInv, Inv, StoreInv, CopyInv, SettledInv, StageInv, [Next]_vars
  PROVE  StageInv'
<1> USE DEF TypeInv, TypeOK, Inv
<1>1. CASE UNCHANGED <<mem, worker, phase>>
  BY <1>1 DEF StageInv, Working
<1>2. CASE \E c \in Clients : ServiceStep(c)
  <2>1. UNCHANGED <<worker, phase>>
    BY <1>2 DEF ServiceStep, Create, RetryGet, RetryUpdate, Deliver
  <2>2. CASE Quiet
    BY <2>1, <2>2, <1>1 DEF Quiet, store
  <2>3. ASSUME NEW i \in Ids, NEW job \in Job, Writes(i, job), mem[i].status \in {"absent", "failed"}
        PROVE  StageInv'
    <3>1. job.status = "queued"
      <4>1. \A now : NewJob(now).status = "queued"
        BY DEF NewJob
      <4>2. \A old : Transition(old, "queued").status = "queued"
        BY DEF Transition
      <4>3. ~ WorkerSuccessor(mem[i], job)
        BY <2>3 DEF WorkerSuccessor
      <4>4. (mem[i] = NoJob /\ job = NewJob(job.created)) \/ job = Transition(mem[i], "queued")
        BY <2>3, <4>3 DEF Writes, Successor
      <4> QED BY <4>1, <4>2, <4>4
    <3>2. mem'[i] \in {mem[i], job} /\ \A j \in Ids \ {i} : mem'[j] = mem[j]
      BY <2>3 DEF Writes, WriteOk, WriteLate
    <3>3. \A j \in Ids : InProgress(mem'[j]) => InProgress(mem[j])
      BY <2>3, <3>1, <3>2 DEF InProgress
    <3> QED BY <2>1, <3>3 DEF StageInv, Working
  <2> QED BY <1>2, <2>2, <2>3, ServiceKinds
<1>3. CASE Persist
  <2>1. worker.at = "persist" /\ worker.id \in Ids /\ \A j \in Ids : InProgress(mem[j]) => j = worker.id
    BY <1>3 DEF Persist, Pointed, StageInv, Working, WorkerInv, Serving
  <2>2. mem'[worker.id] = worker.job /\ \A j \in Ids \ {worker.id} : mem'[j] = mem[j]
    BY <1>3, <2>1 DEF Persist, WriteOk
  <2>3. Working' /\ InProgress(worker.job) => worker'.at \in {"render", "print"} /\ worker'.id = worker.id
    BY <1>3 DEF Persist, AfterPersist, Continue, Quit, Work, Resting, Working, InProgress
  <2> QED BY <2>1, <2>2, <2>3 DEF StageInv
<1>4. CASE Render \/ PrintPDF
  <2>1. UNCHANGED <<mem, phase>> /\ worker.at \in {"render", "print"}
    BY <1>4 DEF Render, PrintPDF, store
  <2>2. worker'.at = "stopped" \/ (worker'.at = "persist" /\ worker'.id = worker.id)
    BY <1>4 DEF Render, PrintPDF, Quit, Work, Resting
  <2> QED BY <2>1, <2>2 DEF StageInv, Working
<1>5. CASE Dequeue \/ QuitIdle \/ Get \/ Close \/ PersistFails
  <2>1. UNCHANGED <<mem, phase>>
    BY <1>5 DEF Dequeue, QuitIdle, Get, Close, PersistFails, WriteLate, WriteLost, store
  <2>2. worker'.at \in {"stopped", "done"} \/ worker' = worker \/ worker.at \in {"idle", "get"}
    BY <1>5 DEF Dequeue, QuitIdle, Get, Close, PersistFails, Quit, Resting
  <2> QED BY <2>1, <2>2 DEF StageInv, Working
<1>6. CASE Load \/ Recover \/ Exit \/ Crash
  BY <1>6 DEF Load, Recover, Exit, Crash, ProcessEnds, StageInv, Working
<1>7. CASE Resume
  BY <1>7 DEF Resume, ProcessEnds, StageInv, SettledInv, Working
<1>8. CASE Cancel
  BY <1>8 DEF Cancel, store, StageInv, Working
<1>9. CASE UNCHANGED vars
  BY <1>9, <1>1 DEF vars
<1> QED BY <1>2, <1>3, <1>4, <1>5, <1>6, <1>7, <1>8, <1>9 DEF Next, WorkerStep

LEMMA AcceptanceInvariant ==
  Spec => [](TypeInv /\ Inv /\ StoreInv /\ CopyInv /\ LineInv /\ SettledInv /\ StageInv)
<1>1. Init => LineInv /\ SettledInv /\ StageInv
  BY DEF Init, LineInv, InLine, SettledInv, StageInv, Working
<1> QED BY <1>1, StoreInvariant, LineInvStep, SettledInvStep, StageInvStep, PTL DEF Spec

\* A job that was accepted and not started is waiting on the disk, or was started
\* there by a write reported as failed.
THEOREM AcceptedJobsSurvive == Spec => []AcceptedSurvives
<1>1. LineInv => AcceptedSurvives
  BY DEF LineInv, AcceptedSurvives
<1> QED BY <1>1, AcceptanceInvariant, PTL

\* A job that reads rendering or printing is in the worker's hands, at that stage.
THEOREM ProgressIsTrue == Spec => []InProgressIsHeld
<1>1. Inv /\ StageInv => InProgressIsHeld
  BY DEF Inv, WorkerInv, StageInv, InProgressIsHeld
<1> QED BY <1>1, AcceptanceInvariant, PTL
------------------------------------------------------------------------------
(***************************************************************************)
(* The way to the worker.  While the worker runs, what it has taken, the   *)
(* queue and what the holder of the mutex has to deliver are one list: of  *)
(* the jobs that wait, without repetition, in the order of acceptance.     *)
(***************************************************************************)
LinedUp(s, jobs, order) ==
  /\ \A i \in Ids : jobs[i].status = "queued" <=> \E n \in 1 .. Len(s) : s[n] = i
  /\ \A m, n \in 1 .. Len(s) : s[m] = s[n] => m = n
  /\ OrderOf(s) = order

\* The order with one job more at its end, and without a job.
With(order, i) == order \cup {<<j, i>> : j \in {k \in Ids : <<k, k>> \in order} \cup {i}}
Without(order, i) == {p \in order : i \notin {p[1], p[2]}}

HeldInv == Working => LinedUp(Held, mem, line)

\* The room that a call has seen in the queue lasts until it delivers.
RoomInv == \A c \in Clients : call[c].at = "deliver" => Len(queue) < Capacity

LEMMA AppendLinedUp ==
  ASSUME NEW s \in Seq(Ids), NEW i \in Ids, NEW jobs, NEW next, NEW order,
         LinedUp(s, jobs, order),
         jobs[i].status # "queued", next[i].status = "queued",
         \A k \in Ids \ {i} : next[k] = jobs[k]
  PROVE  LinedUp(Append(s, i), next, With(order, i))
<1> DEFINE t == Append(s, i)
           L == Len(s)
<1>1. L \in Nat /\ t \in Seq(Ids) /\ Len(t) = L + 1
      /\ (\A n \in 1 .. L : t[n] = s[n] /\ s[n] \in Ids) /\ t[L + 1] = i
  BY AppendProperties, LenProperties, ElementOfSeq
<1>2. \A n \in 1 .. L : s[n] # i
  BY <1>1 DEF LinedUp
<1>3. \A n \in 1 .. L + 1 : n \in 1 .. L \/ n = L + 1
  BY <1>1
<1>4. \A k \in Ids : next[k].status = "queued" <=> \E n \in 1 .. Len(t) : t[n] = k
  <2> SUFFICES ASSUME NEW k \in Ids
               PROVE  next[k].status = "queued" <=> \E n \in 1 .. L + 1 : t[n] = k
    BY <1>1
  <2>1. CASE k = i
    BY <1>1, <2>1
  <2>2. CASE k # i
    <3>1. next[k].status = "queued" <=> \E n \in 1 .. L : s[n] = k
      BY <2>2 DEF LinedUp
    <3>2. (\E n \in 1 .. L : s[n] = k) <=> \E n \in 1 .. L + 1 : t[n] = k
      BY <1>1, <1>3, <2>2
    <3> QED BY <3>1, <3>2
  <2> QED BY <2>1, <2>2
<1>5. \A m, n \in 1 .. Len(t) : t[m] = t[n] => m = n
  BY <1>1, <1>2, <1>3 DEF LinedUp
<1>6. ASSUME NEW p \in OrderOf(t)
      PROVE  p \in order \/ \E j \in {k \in Ids : <<k, k>> \in order} \cup {i} : p = <<j, i>>
  <2>0. \E m, n \in 1 .. Len(t) : m =< n /\ p = <<t[m], t[n]>>
    <3>1. t \in Seq(Ids) /\ p \in OrderOf(t)
      BY <1>1
    <3> HIDE DEF t
    <3> QED BY <3>1, OrderOfSeq
  <2>1. PICK m, n \in 1 .. L + 1 : m =< n /\ p = <<t[m], t[n]>>
    BY <1>1, <2>0
  <2>2. CASE n \in 1 .. L
    <3>1. m \in 1 .. L /\ p = <<s[m], s[n]>>
      BY <1>1, <2>1, <2>2
    <3> QED BY <2>1, <2>2, <3>1, OrderOfSeq DEF LinedUp
  <2>3. CASE n = L + 1 /\ m \in 1 .. L
    <3>1. p = <<s[m], i>> /\ <<s[m], s[m]>> \in order
      BY <1>1, <2>1, <2>3, OrderOfSeq DEF LinedUp
    <3> QED BY <1>1, <2>3, <3>1
  <2>4. CASE n = L + 1 /\ m = L + 1
    BY <1>1, <2>1, <2>4
  <2> QED BY <1>3, <2>2, <2>3, <2>4
<1>7. ASSUME NEW p \in order PROVE p \in OrderOf(t)
  <2>1. PICK m, n \in 1 .. L : m =< n /\ p = <<s[m], s[n]>>
    BY OrderOfSeq DEF LinedUp
  <2>2. m \in 1 .. Len(t) /\ n \in 1 .. Len(t) /\ p = <<t[m], t[n]>>
    BY <1>1, <2>1
  <2> QED BY <1>1, <2>1, <2>2, OrderOfSeq
<1>8. ASSUME NEW j \in {k \in Ids : <<k, k>> \in order} \cup {i} PROVE <<j, i>> \in OrderOf(t)
  <2>1. L + 1 \in 1 .. Len(t)
    BY <1>1
  <2>2. CASE j = i
    BY <1>1, <2>1, <2>2, OrderOfSeq
  <2>3. CASE <<j, j>> \in order
    <3>1. PICK m \in 1 .. L : j = s[m]
      BY <2>3, OrderOfSeq DEF LinedUp
    <3>2. m \in 1 .. Len(t) /\ m =< L + 1 /\ t[m] = j
      BY <1>1, <3>1
    <3> QED BY <1>1, <2>1, <3>2, OrderOfSeq
  <2> QED BY <2>2, <2>3
<1>9. OrderOf(t) = With(order, i)
  BY <1>6, <1>7, <1>8 DEF With
<1> QED BY <1>4, <1>5, <1>9 DEF LinedUp

LEMMA TailLinedUp ==
  ASSUME NEW s \in Seq(Ids), s # <<>>, NEW jobs, NEW next, NEW order,
         LinedUp(s, jobs, order),
         next[Head(s)].status # "queued",
         \A k \in Ids \ {Head(s)} : next[k] = jobs[k]
  PROVE  LinedUp(Tail(s), next, Without(order, Head(s)))
<1> DEFINE t == Tail(s)
           i == Head(s)
           L == Len(s)
<1>1. L \in Nat /\ L >= 1 /\ t \in Seq(Ids) /\ Len(t) = L - 1 /\ i = s[1] /\ i \in Ids
      /\ \A n \in 1 .. L - 1 : t[n] = s[n + 1] /\ n + 1 \in 1 .. L
  BY HeadTailProperties, LenProperties, EmptySeq
<1>2. \A n \in 1 .. L : s[n] \in Ids
  BY ElementOfSeq
<1>3. \A n \in 1 .. L : n # 1 => n - 1 \in 1 .. L - 1 /\ t[n - 1] = s[n] /\ s[n] # i
  BY <1>1 DEF LinedUp
<1>4. \A n \in 1 .. L - 1 : t[n] # i
  BY <1>1, <1>3
<1>5. \A k \in Ids : next[k].status = "queued" <=> \E n \in 1 .. Len(t) : t[n] = k
  <2> SUFFICES ASSUME NEW k \in Ids
               PROVE  next[k].status = "queued" <=> \E n \in 1 .. L - 1 : t[n] = k
    BY <1>1
  <2>1. CASE k = i
    BY <1>4, <2>1
  <2>2. CASE k # i
    <3>1. next[k].status = "queued" <=> \E n \in 1 .. L : s[n] = k
      BY <2>2 DEF LinedUp
    <3>2. (\E n \in 1 .. L : s[n] = k) <=> \E n \in 1 .. L - 1 : t[n] = k
      BY <1>1, <1>3, <2>2
    <3> QED BY <3>1, <3>2
  <2> QED BY <2>1, <2>2
<1>6. \A m, n \in 1 .. Len(t) : t[m] = t[n] => m = n
  BY <1>1 DEF LinedUp
<1>7. ASSUME NEW p \in OrderOf(t) PROVE p \in order /\ i \notin {p[1], p[2]}
  <2>0. \E m, n \in 1 .. Len(t) : m =< n /\ p = <<t[m], t[n]>>
    <3>1. t \in Seq(Ids) /\ p \in OrderOf(t)
      BY <1>1
    <3> HIDE DEF t
    <3> QED BY <3>1, OrderOfSeq
  <2>1. PICK m, n \in 1 .. L - 1 : m =< n /\ p = <<t[m], t[n]>>
    BY <1>1, <2>0
  <2>2. m + 1 \in 1 .. L /\ n + 1 \in 1 .. L /\ m + 1 =< n + 1 /\ p = <<s[m + 1], s[n + 1]>>
    BY <1>1, <2>1
  <2> QED BY <1>4, <2>1, <2>2, OrderOfSeq DEF LinedUp
<1>8. ASSUME NEW p \in order, i \notin {p[1], p[2]} PROVE p \in OrderOf(t)
  <2>1. PICK m, n \in 1 .. L : m =< n /\ p = <<s[m], s[n]>>
    BY OrderOfSeq DEF LinedUp
  <2>2. m # 1 /\ n # 1
    BY <1>1, <1>8, <2>1
  <2>3. m - 1 \in 1 .. Len(t) /\ n - 1 \in 1 .. Len(t) /\ m - 1 =< n - 1 /\ p = <<t[m - 1], t[n - 1]>>
    BY <1>1, <1>3, <2>1, <2>2
  <2> QED BY <1>1, <2>3, OrderOfSeq
<1>9. OrderOf(t) = Without(order, i)
  BY <1>7, <1>8 DEF Without
<1> QED BY <1>5, <1>6, <1>9 DEF LinedUp

LEMMA PartsOfHeld ==
  ASSUME TypeInv
  PROVE  /\ Taken \in Seq(Ids) /\ Delivered \in Seq(Ids) /\ Held \in Seq(Ids)
         /\ Taken \o queue \in Seq(Ids)
<1> USE DEF TypeInv, TypeOK
<1>1. Taken \in Seq(Ids)
  BY EmptySeq DEF Taken, Pointed
<1>2. Delivered \in Seq(Ids)
  BY EmptySeq DEF Delivered, Pointed
<1> QED BY <1>1, <1>2, ConcatProperties DEF Held

\* Nothing is added, removed or moved.
LEMMA StaysHeld ==
  ASSUME HeldInv, Working' => Working, Held' = Held, UNCHANGED <<mem, line>>
  PROVE  HeldInv'
BY DEF HeldInv, LinedUp

\* A write that joins the line and is to be delivered.
LEMMA AcceptedIsHeld ==
  ASSUME TypeInv, HeldInv, NEW c \in Clients, NEW i \in Ids, NEW job \in Job,
         Delivered = <<>>, mem[i].status # "queued", job.status = "queued",
         WriteOk(i, job), GoDeliver(c, i), Joins(i), UNCHANGED <<queue, worker, phase>>
  PROVE  HeldInv'
<1> USE DEF TypeInv, TypeOK
<1>1. Delivered' = <<i>> /\ Taken' = Taken /\ (Working' <=> Working)
  BY DEF GoDeliver, Delivered, Taken, Working
<1>2. Held' = Append(Held, i)
  <2>1. Held = Taken \o queue
    BY PartsOfHeld, ConcatEmptySeq DEF Held
  <2>2. Held' = (Taken \o queue) \o <<i>>
    BY <1>1 DEF Held
  <2> QED BY <2>1, <2>2, PartsOfHeld, AppendIsConcat
<1>3. mem'[i].status = "queued" /\ \A k \in Ids \ {i} : mem'[k] = mem[k]
  BY DEF WriteOk
<1>4. ASSUME Working
      PROVE  LinedUp(Append(Held, i), mem', With(line, i))
  BY <1>3, <1>4, PartsOfHeld, AppendLinedUp DEF HeldInv
<1>5. line' = With(line, i)
  BY DEF Joins, InLine, With
<1> QED BY <1>1, <1>2, <1>4, <1>5 DEF HeldInv, LinedUp

LEMMA ServiceHeld ==
  ASSUME TypeInv, Inv, HeldInv, RoomInv, NEW c \in Clients, ServiceStep(c)
  PROVE  HeldInv'
<1> USE DEF TypeInv, TypeOK, Inv
<1>0. UNCHANGED <<worker, phase>> /\ Taken' = Taken /\ (Working' <=> Working)
  BY DEF ServiceStep, Create, RetryGet, RetryUpdate, Deliver, Taken, Working
<1>1. ASSUME NEW i \in Ids, Create(c, i) PROVE HeldInv'
  <2>1. PICK now \in Clock : \/ WriteOk(i, NewJob(now)) /\ GoDeliver(c, i) /\ Joins(i)
                             \/ WriteLate(i, NewJob(now)) /\ UNCHANGED <<mu, call, line>>
    BY <1>1 DEF Create
  <2>2. NewJob(now) \in Job /\ NewJob(now).status = "queued"
    BY ClockType, RecordTypes DEF NewJob
  <2>3. Delivered = <<>> /\ mem[i].status = "absent" /\ UNCHANGED queue
    BY <1>1, ConstantsAssumption DEF Create, Enter, Delivered
  <2>4. CASE UNCHANGED <<mem, mu, call, line>>
    BY <1>0, <2>3, <2>4, StaysHeld DEF Held, Delivered
  <2> QED BY <1>0, <2>1, <2>2, <2>3, <2>4, AcceptedIsHeld DEF WriteLate
<1>2. ASSUME NEW i \in Ids, RetryGet(c, i) PROVE HeldInv'
  <2>1. Delivered = <<>> /\ Delivered' = <<>> /\ UNCHANGED <<mem, line, queue>>
    BY <1>2, ConstantsAssumption DEF RetryGet, Enter, Delivered
  <2> QED BY <1>0, <2>1, StaysHeld DEF Held
<1>3. CASE RetryUpdate(c)
  <2> DEFINE i == call[c].id
             job == Transition(call[c].job, "queued")
  <2>1. Delivered = <<>> /\ UNCHANGED queue
    BY <1>3 DEF RetryUpdate, CallInv, Delivered
  <2>2. i \in Ids /\ mem[i].status = "failed" /\ job \in Job /\ job.status = "queued"
    BY <1>3, TransitionType DEF RetryUpdate, CallInv, Pointed, Activity, Status, Live, Transition
  <2>3. CASE WriteOk(i, job) /\ GoDeliver(c, i) /\ Joins(i)
    BY <1>0, <2>1, <2>2, <2>3, AcceptedIsHeld
  <2>4. CASE Return(c) /\ UNCHANGED <<mem, line>>
    <3>1. Delivered' = <<>>
      BY <2>4, ConstantsAssumption DEF Return, Delivered
    <3> QED BY <1>0, <2>1, <2>4, <3>1, StaysHeld DEF Held
  <2> QED BY <1>3, <2>3, <2>4 DEF RetryUpdate, WriteLate, WriteLost, store, history
<1>4. CASE Deliver(c)
  <2>1. mu = c /\ call[c].at = "deliver" /\ call[c].id \in Ids /\ Len(queue) < Capacity
    BY <1>4 DEF Deliver, CallInv, Pointed, RoomInv
  <2>2. Delivered = <<call[c].id>> /\ Delivered' = <<>> /\ UNCHANGED <<mem, line>>
    BY <1>4, <2>1, ConstantsAssumption DEF Deliver, Return, Delivered, history
  <2>3. queue' = queue \o <<call[c].id>>
    BY <1>4, <2>1, AppendIsConcat DEF Deliver
  <2>4. <<call[c].id>> \in Seq(Ids) /\ queue \o <<call[c].id>> \in Seq(Ids)
    BY <2>1, ConcatProperties
  <2>5. Taken \o (queue \o <<call[c].id>>) = Held
    BY <2>2, <2>4, PartsOfHeld, ConcatAssociative DEF Held
  <2>6. Taken \o (queue \o <<call[c].id>>) \in Seq(Ids)
    BY <2>5, PartsOfHeld
  <2>7. Held' = Held
    BY <1>0, <2>2, <2>3, <2>5, <2>6, ConcatEmptySeq DEF Held
  <2> QED BY <1>0, <2>2, <2>7, StaysHeld
<1> QED BY <1>1, <1>2, <1>3, <1>4 DEF ServiceStep

\* The worker's start of a job removes the first of the list.
LEMMA StartHeld ==
  ASSUME TypeInv, Inv, HeldInv, Persist, Working, worker.job.status = "rendering"
  PROVE  HeldInv'
<1> USE DEF TypeInv, TypeOK
<1> DEFINE i == worker.id
<1>1. i \in Ids /\ Taken = <<i>> /\ worker.at = "persist"
  BY DEF Persist, Pointed, Taken
<1>2. Taken' = <<>> /\ Delivered' = Delivered /\ queue' = queue
  BY DEF Persist, AfterPersist, Continue, Quit, Work, Resting, Taken, Delivered, service
<1>3. Taken \o queue # <<>> /\ Head(Taken \o queue) = i /\ Tail(Taken \o queue) = queue
  BY <1>1
<1>4. Held # <<>> /\ Head(Held) = i /\ Tail(Held) = queue \o Delivered
  <2>1. queue \o Delivered \in Seq(Ids) /\ <<i>> \in Seq(Ids)
    BY <1>1, PartsOfHeld, ConcatProperties
  <2>2. Held = <<i>> \o (queue \o Delivered)
    BY <1>1, <2>1, PartsOfHeld, ConcatAssociative DEF Held
  <2> QED BY <1>1, <2>1, <2>2
<1>5. Held' = Tail(Held)
  BY <1>2, <1>4, ConcatEmptySeq DEF Held
<1>6. mem'[i].status # "queued" /\ \A k \in Ids \ {i} : mem'[k] = mem[k]
  BY <1>1 DEF Persist, WriteOk
<1>7. LinedUp(Tail(Held), mem', Without(line, i))
  BY <1>4, <1>6, PartsOfHeld, TailLinedUp DEF HeldInv
<1>8. line' = Without(line, i)
  BY DEF Persist, Leaves, Without
<1> QED BY <1>5, <1>7, <1>8 DEF HeldInv, LinedUp

\* A later write of the worker is of a job that is not in the list.
LEMMA SettleHeld ==
  ASSUME TypeInv, Inv, CopyInv, LineInv, HeldInv, Persist, Working, worker.job.status # "rendering"
  PROVE  HeldInv'
<1> USE DEF TypeInv, TypeOK
<1> DEFINE i == worker.id
<1>1. i \in Ids /\ worker.at = "persist" /\ Taken = <<>> /\ phase # "off"
  BY DEF Persist, Pointed, Taken, Working
<1>2. mem[i].status # "queued" /\ worker.job.status # "queued"
  <2>1. \A job, to : Transition(job, to).status = to
    BY DEF Transition
  <2>2. worker.job.status # "queued"
    BY <1>1 DEF Inv, WorkerInv
  <2>3. mem[i].status # "queued"
    BY <1>1, <2>1 DEF CopyInv, WorkerSuccessor
  <2> QED BY <2>2, <2>3
<1>3. Taken' = <<>> /\ Delivered' = Delivered /\ queue' = queue
  BY DEF Persist, AfterPersist, Continue, Quit, Work, Idle, Resting, Taken, Delivered, service
<1>4. Held' = Held
  BY <1>1, <1>3 DEF Held
<1>5. mem'[i].status # "queued" /\ \A k \in Ids \ {i} : mem'[k] = mem[k]
  BY <1>1, <1>2 DEF Persist, WriteOk
<1>6. line' = line
  <2>1. i \notin InLine
    BY <1>1, <1>2 DEF LineInv
  <2>2. \A p \in line : i \notin {p[1], p[2]}
    BY <2>1 DEF LineInv
  <2> QED BY <2>2 DEF Persist, Leaves
<1>7. \A k \in Ids : mem'[k].status = "queued" <=> mem[k].status = "queued"
  BY <1>2, <1>5
<1> QED BY <1>4, <1>6, <1>7 DEF HeldInv, LinedUp

LEMMA WorkerHeld ==
  ASSUME TypeInv, Inv, CopyInv, LineInv, HeldInv, WorkerStep
  PROVE  HeldInv'
<1> USE DEF TypeInv, TypeOK
<1>1. CASE ~ Working'
  BY <1>1 DEF HeldInv
<1>2. CASE Working'
  <2>1. Working
    BY <1>2 DEF WorkerStep, Dequeue, QuitIdle, Get, Persist, PersistFails, Render, PrintPDF, Close,
                Quit, Resting, Working
  <2>2. CASE Dequeue
    <3>1. Head(queue) \in Ids /\ Tail(queue) \in Seq(Ids) /\ queue = <<Head(queue)>> \o Tail(queue)
      BY <2>2, HeadTailProperties DEF Dequeue
    <3>2. Taken = <<>> /\ Taken' = <<Head(queue)>> /\ queue' = Tail(queue) /\ Delivered' = Delivered
          /\ UNCHANGED <<mem, line>>
      BY <2>2 DEF Dequeue, Work, Taken, Delivered, store, service, history
    <3>3. Taken' \o queue' = queue /\ Taken \o queue = queue
      BY <3>1, <3>2, ConcatEmptySeq
    <3> QED BY <2>1, <3>2, <3>3, StaysHeld DEF Held
  <2>3. CASE Get
    <3>1. Taken = <<worker.id>> /\ worker.id \in Ids
      BY <2>3 DEF Get, Taken, Pointed
    <3>2. mem[worker.id].status = "queued"
      <4>1. Len(Held) >= 1 /\ Held[1] = worker.id
        BY <3>1, PartsOfHeld, ConcatProperties, LenProperties DEF Held
      <4>2. 1 \in 1 .. Len(Held)
        BY <4>1, PartsOfHeld, LenProperties
      <4> QED BY <2>1, <3>1, <4>1, <4>2 DEF HeldInv, LinedUp
    <3>3. Transition(mem[worker.id], "rendering").status = "rendering"
      BY DEF Transition
    <3>4. Taken' = Taken /\ queue' = queue /\ Delivered' = Delivered /\ UNCHANGED <<mem, line>>
      BY <1>2, <2>3, <3>1, <3>2, <3>3 DEF Get, Quit, Work, Resting, Working, Taken, Delivered, store, service, history
    <3> QED BY <2>1, <3>4, StaysHeld DEF Held
  <2>4. CASE Persist
    BY <2>1, <2>4, StartHeld, SettleHeld
  <2>5. CASE PersistFails
    <3>1. Taken' = Taken /\ queue' = queue /\ Delivered' = Delivered /\ UNCHANGED <<mem, line>>
      BY <1>2, <2>5 DEF PersistFails, WriteLate, WriteLost, Quit, Resting, Working, Taken, Delivered,
                        store, service, history
    <3> QED BY <2>1, <3>1, StaysHeld DEF Held
  <2>6. CASE Render \/ PrintPDF
    <3>1. \A job, to : Transition(job, to).status = to
      BY DEF Transition
    <3>2. \A job, code : Failed(job, code).status = "failed"
      BY DEF Failed, Transition
    <3>3. Taken = <<>> /\ Taken' = <<>>
      BY <1>2, <2>6, <3>1, <3>2 DEF Render, PrintPDF, Quit, Work, Resting, Working, Taken
    <3>4. queue' = queue /\ Delivered' = Delivered /\ UNCHANGED <<mem, line>>
      BY <2>6 DEF Render, PrintPDF, Delivered, store, service, history
    <3> QED BY <2>1, <3>3, <3>4, StaysHeld DEF Held
  <2>7. CASE QuitIdle \/ Close
    BY <1>2, <2>7 DEF QuitIdle, Close, Quit, Resting, Working
  <2> QED BY <2>2, <2>3, <2>4, <2>5, <2>6, <2>7 DEF WorkerStep
<1> QED BY <1>1, <1>2

\* What a restart puts into the queue: each waiting job once, in their order.
LEMMA ResumedIsLinedUp ==
  ASSUME TypeOK, NEW s \in [1 .. Cardinality(Waiting) -> Waiting], InOrder(s)
  PROVE  LinedUp(s, mem, OrderOf(s))
<1> DEFINE N == Cardinality(Waiting)
<1>1. s \in Seq(Ids) /\ Len(s) = N /\ N \in Nat /\ DOMAIN s = 1 .. N
  BY ResumedIsSeq, WaitingIsFinite
<1>2. \A i \in Ids : ~ Before(i, i)
  BY ConstantsAssumption DEF Before, TypeOK, Job
<1>3. \A m, n \in 1 .. N : s[m] = s[n] => m = n
  <2> SUFFICES ASSUME NEW m \in 1 .. N, NEW n \in 1 .. N, s[m] = s[n], m < n
               PROVE  FALSE
    BY <1>1
  <2>1. Before(s[m], s[n]) /\ s[m] \in Ids
    BY <1>1 DEF InOrder, Waiting
  <2> QED BY <1>2, <2>1
<1>4. s \in Injection(1 .. N, Waiting)
  BY <1>3 DEF Injection, IsInjective
<1>5. s \in Surjection(1 .. N, Waiting)
  <2>1. IsFiniteSet(1 .. N) /\ Cardinality(1 .. N) = N
    BY <1>1, FS_Interval
  <2> QED BY <1>4, <2>1, WaitingIsFinite, FS_Injection
<1>6. \A i \in Waiting : \E n \in 1 .. N : s[n] = i
  BY <1>5 DEF Surjection
<1>7. \A i \in Ids : mem[i].status = "queued" <=> \E n \in 1 .. Len(s) : s[n] = i
  BY <1>1, <1>6 DEF Waiting
<1> QED BY <1>1, <1>3, <1>7 DEF LinedUp

LEMMA ProcessHeld ==
  ASSUME TypeInv, Inv, HeldInv, Load \/ Recover \/ Resume \/ Cancel \/ Exit \/ Crash
  PROVE  HeldInv'
<1> USE DEF TypeInv, TypeOK
<1>1. CASE Load \/ Recover \/ Exit \/ Crash
  BY <1>1 DEF Load, Recover, Exit, Crash, ProcessEnds, HeldInv, Working
<1>2. CASE Cancel
  BY <1>2, StaysHeld DEF Cancel, Held, Taken, Delivered, Working, store, service, history
<1>3. CASE Resume
  <2>1. CASE ProcessEnds
    BY <2>1 DEF ProcessEnds, HeldInv, Working
  <2>2. CASE UNCHANGED <<mem, service, worker>> /\ phase' = "up"
    <3>1. PICK s \in [1 .. Cardinality(Waiting) -> Waiting] :
            InOrder(s) /\ queue' = s /\ line' = OrderOf(s)
      BY <1>3, <2>2 DEF Resume, ProcessEnds
    <3>2. worker.at = "idle" /\ \A c \in Clients : call[c].at = "idle"
      BY <1>3 DEF Resume, Inv, WorkerInv, CallInv, Serving
    <3>3. Taken' = <<>> /\ Delivered' = <<>>
      BY <2>2, <3>2 DEF Taken, Delivered, service
    <3>4. Held' = s
      <4>1. s \in Seq(Ids)
        BY ResumedIsSeq
      <4> QED BY <3>1, <3>3, <4>1, ConcatEmptySeq DEF Held
    <3>5. LinedUp(s, mem, OrderOf(s))
      BY <3>1, ResumedIsLinedUp
    <3> QED BY <2>2, <3>1, <3>4, <3>5 DEF HeldInv, LinedUp
  <2> QED BY <1>3, <2>1, <2>2 DEF Resume
<1> QED BY <1>1, <1>2, <1>3

LEMMA HeldInvStep ==
  ASSUME TypeInv, Inv, CopyInv, LineInv, HeldInv, RoomInv, [Next]_vars
  PROVE  HeldInv'
<1>1. CASE UNCHANGED vars
  BY <1>1, StaysHeld DEF vars, Held, Taken, Delivered, Working
<1> QED BY <1>1, ServiceHeld, WorkerHeld, ProcessHeld DEF Next

LEMMA RoomInvStep ==
  ASSUME TypeInv, Inv, RoomInv, [Next]_vars
  PROVE  RoomInv'
<1> USE DEF TypeInv, TypeOK
<1>1. CASE UNCHANGED call /\ queue' = queue
  BY <1>1 DEF RoomInv
<1>2. ASSUME NEW c \in Clients, ServiceStep(c) PROVE RoomInv'
  <2>1. \A d \in Clients \ {c} : call[d].at = "idle"
    BY <1>2, ConstantsAssumption
       DEF ServiceStep, Create, RetryGet, RetryUpdate, Deliver, Enter, Inv, CallInv
  <2>2. \A d \in Clients \ {c} : call'[d] = call[d]
    BY <1>2 DEF ServiceStep, Create, RetryGet, RetryUpdate, Deliver, Return, GoDeliver
  <2>3. call'[c].at = "deliver" => Len(queue') < Capacity
    BY <1>2 DEF ServiceStep, Create, RetryGet, RetryUpdate, Deliver, Enter, Return, GoDeliver, Idle,
                Resting, RoomInv
  <2> QED BY <2>1, <2>2, <2>3 DEF RoomInv
<1>3. CASE WorkerStep
  <2>1. UNCHANGED call
    BY <1>3 DEF WorkerStep, Dequeue, QuitIdle, Get, Persist, PersistFails, Render, PrintPDF, Close, service
  <2>2. queue' = queue \/ (queue # <<>> /\ queue' = Tail(queue))
    BY <1>3 DEF WorkerStep, Dequeue, QuitIdle, Get, Persist, PersistFails, Render, PrintPDF, Close
  <2>3. Len(queue') =< Len(queue) /\ Len(queue') \in Nat /\ Len(queue) \in Nat
    BY <2>2, HeadTailProperties, LenProperties
  <2> QED BY <2>1, <2>3, ConstantsAssumption DEF RoomInv
<1>4. CASE Load \/ Recover \/ Resume \/ Cancel \/ Exit \/ Crash
  <2>1. CASE ProcessEnds
    BY <2>1 DEF ProcessEnds, RoomInv, Idle, Resting
  <2>2. CASE UNCHANGED call /\ (queue' = queue \/ \A c \in Clients : call[c].at = "idle")
    BY <2>2 DEF RoomInv
  <2>3. Resume => \A c \in Clients : call[c].at = "idle"
    BY DEF Resume, Inv, CallInv, Serving
  <2> QED BY <1>4, <2>1, <2>2, <2>3 DEF Load, Recover, Resume, Cancel, Exit, Crash, service
<1>5. CASE UNCHANGED vars
  BY <1>1, <1>5 DEF vars
<1> QED BY <1>2, <1>3, <1>4, <1>5 DEF Next

LEMMA HeldInvariant == Spec => [](TypeInv /\ HeldInv)
<1>1. Init => HeldInv /\ RoomInv
  BY DEF Init, HeldInv, RoomInv, Working, Idle, Resting
<1> QED BY <1>1, AcceptanceInvariant, HeldInvStep, RoomInvStep, PTL DEF Spec

\* While the worker runs, a queued job is on its way to it exactly once: none is
\* stranded outside the queue, and none is in it twice.
THEOREM QueuedJobsAreHeldOnce == Spec => []QueuedIsHeldOnce
<1>1. TypeInv /\ HeldInv => QueuedIsHeldOnce
  <2> SUFFICES ASSUME TypeInv, HeldInv, Working, NEW i \in Ids
               PROVE  Places(i) = IF mem[i].status = "queued" THEN 1 ELSE 0
    BY DEF QueuedIsHeldOnce
  <2> DEFINE P == {n \in DOMAIN Held : Held[n] = i}
  <2>1. DOMAIN Held = 1 .. Len(Held)
    BY PartsOfHeld, LenProperties
  <2>2. CASE mem[i].status = "queued"
    <3>1. PICK n \in DOMAIN Held : Held[n] = i
      BY <2>1, <2>2 DEF HeldInv, LinedUp
    <3>2. P = {n}
      BY <2>1, <3>1 DEF HeldInv, LinedUp
    <3> QED BY <2>2, <3>2, FS_Singleton DEF Places
  <2>3. CASE mem[i].status # "queued"
    <3>1. P = {}
      BY <2>1, <2>3 DEF HeldInv, LinedUp
    <3> QED BY <2>3, <3>1, FS_EmptySet DEF Places
  <2> QED BY <2>2, <2>3
<1> QED BY <1>1, HeldInvariant, PTL

\* Jobs reach the worker in the order in which the store accepted them.
THEOREM QueueKeepsOrder == Spec => []HeldInAcceptanceOrder
<1>1. HeldInv => HeldInAcceptanceOrder
  BY DEF HeldInv, LinedUp, HeldInAcceptanceOrder
<1> QED BY <1>1, HeldInvariant, PTL
------------------------------------------------------------------------------
(***************************************************************************)
(* The order at a restart: it sorts by creation, which is the order of     *)
(* acceptance of the jobs that no operator has retried, as far as the      *)
(* clock tells them apart.  A job that was started once has its attempts   *)
(* to show for it.                                                         *)
(***************************************************************************)
StartedInv ==
  \A i \in Ids : \A job \in {mem[i], disk[i]} :
    job.status \notin {"absent", "queued"} => job.attempts >= 1

Precedes(jobs, i, j) == jobs[i].created =< jobs[j].created

InTurn(jobs, order) ==
  \A p \in order :
    p[1] # p[2] /\ jobs[p[1]].attempts = 0 /\ jobs[p[2]].attempts = 0 => Precedes(jobs, p[1], p[2])

OrderInv == InTurn(disk, line) /\ (phase # "off" => InTurn(mem, line))

LEMMA SuccessorStarted ==
  ASSUME NEW old \in Job, NEW new, Successor(old, new),
         old.status \notin {"absent", "queued"} => old.attempts >= 1
  PROVE  new.status \notin {"absent", "queued"} => new.attempts >= 1
<1>1. \A job, to : /\ Transition(job, to).status = to
                   /\ Transition(job, to).attempts = job.attempts + (IF to = "rendering" THEN 1 ELSE 0)
  BY DEF Transition
<1>2. \A job \in Job : \A code : Failed(job, code).status = "failed" /\ Failed(job, code).attempts = job.attempts
  BY DEF Failed, Transition, Job
<1>3. \A now : NewJob(now).status = "queued"
  BY DEF NewJob
<1>4. old.attempts \in Nat
  BY DEF Job
<1>5. CASE WorkerSuccessor(old, new)
  BY <1>1, <1>2, <1>4, <1>5 DEF WorkerSuccessor
<1>6. CASE old = NoJob /\ new = NewJob(new.created)
  <2>1. new.status = "queued"
    BY <1>3, <1>6
  <2> QED BY <2>1
<1> QED BY <1>1, <1>5, <1>6 DEF Successor

LEMMA StartedInvStep ==
  ASSUME TypeInv, Inv, StoreInv, CopyInv, StartedInv, [Next]_vars
  PROVE  StartedInv'
<1> USE DEF TypeInv, TypeOK
<1>1. CASE UNCHANGED store
  BY <1>1 DEF store, StartedInv
<1>2. ASSUME NEW i \in Ids, NEW job \in Job, Writes(i, job) PROVE StartedInv'
  <2>1. job.status \notin {"absent", "queued"} => job.attempts >= 1
    BY <1>2, SuccessorStarted DEF Writes, StartedInv
  <2>2. \A k \in Ids : \A r \in {mem'[k], disk'[k]} : r = mem[k] \/ r = job
    BY <1>2 DEF Writes, WriteOk, WriteLate
  <2> QED BY <2>1, <2>2 DEF StartedInv
<1>3. CASE Load
  BY <1>3 DEF Load, StartedInv
<1>4. \A k \in Ids : Empty[k].status = "absent"
  BY DEF Empty, NoJob
<1>5. CASE Recover
  <2>1. \A k \in Ids : mem[k].status \notin {"absent", "queued"} => mem[k].attempts >= 1
    BY DEF StartedInv
  <2>2. \A k \in Ids : /\ Interrupted(mem[k]).attempts = mem[k].attempts
                       /\ Interrupted(mem[k]).status \notin {"absent", "queued"}
                            => mem[k].status \notin {"absent", "queued"}
    BY DEF Interrupted, InProgress, Job
  <2>3. \A k \in Ids : \A r \in {mem'[k], disk'[k]} : r = Empty[k] \/ r = Interrupted(mem[k])
    BY <1>5 DEF Recover, ProcessEnds
  <2> QED BY <1>4, <2>1, <2>2, <2>3 DEF StartedInv
<1>6. CASE Ends
  BY <1>4, <1>6 DEF Ends, ProcessEnds, StartedInv
<1>7. CASE UNCHANGED vars
  BY <1>1, <1>7 DEF vars, store
<1> QED BY <1>1, <1>2, <1>3, <1>5, <1>6, <1>7, ServiceKinds, WorkerKinds, ProcessKinds DEF Next, Quiet

\* A write that joins the line behind all others or with an attempt to show for
\* it, that leaves the line, or that has not been reported.
LEMMA WriteInTurn ==
  ASSUME TypeOK, LineInv, InTurn(mem, line), NEW i \in Ids, NEW job \in Job,
         \/ /\ WriteOk(i, job) /\ Joins(i) /\ i \notin InLine
            /\ job.attempts = 0 => \A j \in InLine : mem[j].created =< job.created
         \/ WriteOk(i, job) /\ Leaves(i)
         \/ WriteLate(i, job) /\ UNCHANGED line /\ (i \in InLine => job.attempts # 0)
  PROVE  InTurn(mem', line') /\ InTurn(disk', line')
<1> USE DEF TypeOK
<1>0. \A p \in line : p[1] \in InLine /\ p[2] \in InLine /\ p[1] \in Ids /\ p[2] \in Ids
  BY DEF LineInv
<1>1. CASE /\ WriteOk(i, job) /\ Joins(i) /\ i \notin InLine
           /\ job.attempts = 0 => \A j \in InLine : mem[j].created =< job.created
  <2>1. mem' = disk' /\ mem'[i] = job /\ \A k \in Ids \ {i} : mem'[k] = mem[k]
    BY <1>1 DEF WriteOk
  <2>2. ASSUME NEW p \in line', p[1] # p[2], mem'[p[1]].attempts = 0, mem'[p[2]].attempts = 0
        PROVE  Precedes(mem', p[1], p[2])
    <3>1. CASE p \in line
      <4>1. p[1] \in Ids \ {i} /\ p[2] \in Ids \ {i}
        BY <1>0, <1>1, <3>1
      <4>2. mem'[p[1]] = mem[p[1]] /\ mem'[p[2]] = mem[p[2]]
        BY <2>1, <4>1
      <4> QED BY <2>2, <3>1, <4>2 DEF InTurn, Precedes
    <3>2. CASE p \notin line
      <4>1. PICK j \in InLine \cup {i} : p = <<j, i>>
        BY <1>1, <2>2, <3>2 DEF Joins
      <4>2. p[1] = j /\ p[2] = i /\ j \in InLine /\ j \in Ids \ {i}
        BY <2>2, <4>1 DEF InLine
      <4>3. mem[j].created =< job.created /\ mem'[j] = mem[j]
        BY <1>1, <2>1, <2>2, <4>2
      <4> QED BY <2>1, <4>2, <4>3 DEF Precedes
    <3> QED BY <3>1, <3>2
  <2> QED BY <2>1, <2>2 DEF InTurn
<1>2. CASE WriteOk(i, job) /\ Leaves(i)
  <2>1. mem' = disk' /\ \A k \in Ids \ {i} : mem'[k] = mem[k]
    BY <1>2 DEF WriteOk
  <2>2. \A p \in line' : p \in line /\ mem'[p[1]] = mem[p[1]] /\ mem'[p[2]] = mem[p[2]]
    BY <1>0, <1>2, <2>1 DEF Leaves
  <2> QED BY <2>1, <2>2 DEF InTurn, Precedes
<1>3. CASE WriteLate(i, job) /\ UNCHANGED line /\ (i \in InLine => job.attempts # 0)
  <2>1. mem' = mem /\ line' = line /\ disk'[i] = job /\ \A k \in Ids \ {i} : disk'[k] = mem[k]
    BY <1>3 DEF WriteLate
  <2>2. ASSUME NEW p \in line, p[1] # p[2], disk'[p[1]].attempts = 0, disk'[p[2]].attempts = 0
        PROVE  Precedes(disk', p[1], p[2])
    <3>1. p[1] # i /\ p[2] # i
      BY <1>0, <1>3, <2>1, <2>2
    <3>2. disk'[p[1]] = mem[p[1]] /\ disk'[p[2]] = mem[p[2]]
      BY <1>0, <2>1, <3>1
    <3> QED BY <2>2, <3>2 DEF InTurn, Precedes
  <2> QED BY <2>1, <2>2 DEF InTurn
<1> QED BY <1>1, <1>2, <1>3

LEMMA ServiceInTurn ==
  ASSUME TypeInv, Inv, LineInv, StartedInv, OrderInv,
         NEW c \in Clients, ServiceStep(c)
  PROVE  OrderInv'
<1> USE DEF TypeInv, TypeOK, Inv
<1>0. phase # "off" /\ InTurn(mem, line)
  BY DEF ServiceStep, Create, RetryGet, RetryUpdate, Deliver, Enter, Serving, CallInv, OrderInv
<1>1. CASE UNCHANGED <<mem, disk, line>>
  BY <1>0, <1>1 DEF OrderInv
<1>2. ASSUME NEW i \in Ids, Create(c, i) PROVE OrderInv'
  <2>1. PICK now \in Clock : \/ WriteOk(i, NewJob(now)) /\ Joins(i)
                             \/ WriteLate(i, NewJob(now)) /\ UNCHANGED line
    BY <1>2 DEF Create
  <2>2. NewJob(now) \in Job /\ NewJob(now).created = now
    BY ClockType, RecordTypes DEF NewJob
  <2>3. i \notin InLine
    BY <1>0, <1>2 DEF Create, LineInv
  <2>4. \A j \in Ids : mem[j].created =< now
    <3>1. CASE mem = Empty
      <4>1. now = 0
        BY <3>1 DEF Clock
      <4>2. \A j \in Ids : mem[j].created = 0
        BY <3>1 DEF Empty, NoJob
      <4> QED BY <4>1, <4>2
    <3>2. CASE mem # Empty
      <4>1. PICK k \in Newest, d \in Ticks : now = mem[k].created + d
        BY <3>2 DEF Clock
      <4>2. d \in Nat /\ k \in Ids /\ \A j \in Ids : mem[j].created =< mem[k].created
        BY ConstantsAssumption DEF Newest
      <4>3. \A j \in Ids : mem[j].created \in Nat
        BY DEF Job
      <4> QED BY <4>1, <4>2, <4>3
    <3> QED BY <3>1, <3>2
  <2> QED BY <1>0, <2>1, <2>2, <2>3, <2>4, WriteInTurn DEF OrderInv, InLine
<1>3. CASE RetryUpdate(c)
  <2> DEFINE i == call[c].id
             job == Transition(call[c].job, "queued")
  <2>1. i \in Ids /\ call[c].job = mem[i] /\ mem[i].status = "failed"
    BY <1>3 DEF RetryUpdate, CallInv, Pointed
  <2>2. job \in Job
    BY <2>1, TransitionType DEF Status, Live
  <2>3. job.attempts # 0
    <3>1. mem[i].attempts >= 1
      BY <2>1 DEF StartedInv
    <3>2. job.attempts = mem[i].attempts + 0
      BY <2>1 DEF Transition
    <3> QED BY <2>1, <3>1, <3>2 DEF Job
  <2>4. i \notin InLine
    BY <1>0, <2>1 DEF LineInv
  <2>5. \/ WriteOk(i, job) /\ Joins(i)
        \/ WriteLate(i, job) /\ UNCHANGED line
        \/ UNCHANGED <<mem, disk, line>>
    BY <1>3 DEF RetryUpdate, WriteLost, store, history
  <2> QED BY <1>0, <1>1, <2>1, <2>2, <2>3, <2>4, <2>5, WriteInTurn DEF OrderInv
<1> QED BY <1>1, <1>2, <1>3 DEF ServiceStep, RetryGet, Deliver, history

LEMMA WorkerInTurn ==
  ASSUME TypeInv, Inv, CopyInv, LineInv, OrderInv, WorkerStep
  PROVE  OrderInv'
<1> USE DEF TypeInv, TypeOK, Inv
<1>0. phase # "off" /\ InTurn(mem, line)
  BY DEF WorkerStep, Dequeue, QuitIdle, Get, Persist, PersistFails, Render, PrintPDF, Close, Serving,
         WorkerInv, OrderInv
<1>1. CASE UNCHANGED <<mem, disk, line>>
  BY <1>0, <1>1 DEF OrderInv
<1>2. CASE Persist \/ PersistFails
  <2> DEFINE i == worker.id
             job == worker.job
  <2>1. i \in Ids /\ job \in Job
    BY <1>2 DEF Persist, PersistFails, Pointed, Activity
  <2>2. i \in InLine => job.attempts # 0
    <3>1. i \in InLine => job = Transition(mem[i], "rendering")
      BY <1>0, <1>2 DEF Persist, PersistFails, CopyInv, WorkerSuccessor, LineInv
    <3>2. Transition(mem[i], "rendering").attempts = mem[i].attempts + 1
      BY DEF Transition
    <3>3. mem[i].attempts \in Nat
      BY <2>1 DEF Job
    <3> QED BY <3>1, <3>2, <3>3
  <2>3. \/ WriteOk(i, job) /\ Leaves(i)
        \/ WriteLate(i, job) /\ UNCHANGED line
        \/ UNCHANGED <<mem, disk, line>>
    BY <1>2 DEF Persist, PersistFails, WriteLost, store, history
  <2> QED BY <1>0, <1>1, <2>1, <2>2, <2>3, WriteInTurn DEF OrderInv
<1> QED BY <1>1, <1>2 DEF WorkerStep, Dequeue, QuitIdle, Get, Render, PrintPDF, Close, store, history

\* The order of a restart is that of creation.
LEMMA ResumedInTurn ==
  ASSUME TypeOK, NEW s \in [1 .. Cardinality(Waiting) -> Waiting], InOrder(s)
  PROVE  InTurn(mem, OrderOf(s))
<1>1. s \in Seq(Ids) /\ DOMAIN s = 1 .. Len(s) /\ Len(s) \in Nat
  BY ResumedIsSeq, LenProperties
<1> SUFFICES ASSUME NEW p \in OrderOf(s), p[1] # p[2] PROVE Precedes(mem, p[1], p[2])
  BY DEF InTurn
<1>2. PICK m, n \in 1 .. Len(s) : m =< n /\ p = <<s[m], s[n]>>
  BY <1>1, OrderOfSeq
<1>3. m < n
  BY <1>2
<1>4. Before(s[m], s[n])
  BY <1>1, <1>3 DEF InOrder
<1>5. mem[s[m]].created \in Nat /\ mem[s[n]].created \in Nat
  <2>1. s[m] \in Ids /\ s[n] \in Ids
    BY <1>1, ElementOfSeq
  <2> QED BY <2>1 DEF TypeOK, Job
<1> QED BY <1>2, <1>4, <1>5 DEF Before, Precedes

LEMMA ProcessInTurn ==
  ASSUME TypeInv, StoreInv, LineInv, OrderInv, Load \/ Recover \/ Resume \/ Cancel \/ Exit \/ Crash
  PROVE  OrderInv'
<1> USE DEF TypeInv, TypeOK
<1>1. CASE Load
  BY <1>1 DEF Load, OrderInv, InTurn
<1>2. CASE Recover
  <2> DEFINE next == [i \in Ids |-> Interrupted(mem[i])]
  <2>1. line' = line /\ disk' = next /\ (phase' # "off" => mem' = next) /\ InTurn(mem, line)
    BY <1>2 DEF Recover, ProcessEnds, history, OrderInv
  <2>2. \A i \in Ids : next[i].attempts = mem[i].attempts /\ next[i].created = mem[i].created
    BY DEF Interrupted, Job
  <2>3. \A p \in line : p[1] \in Ids /\ p[2] \in Ids
    OBVIOUS
  <2>4. InTurn(next, line)
    BY <2>1, <2>2, <2>3 DEF InTurn, Precedes
  <2> QED BY <2>1, <2>4 DEF OrderInv
<1>3. CASE Resume
  <2>1. CASE UNCHANGED <<mem, disk>> /\ phase' = "up"
    <3>1. PICK s \in [1 .. Cardinality(Waiting) -> Waiting] : InOrder(s) /\ line' = OrderOf(s)
      BY <1>3, <2>1 DEF Resume, ProcessEnds
    <3>2. mem = disk
      BY <1>3 DEF Resume, StoreInv
    <3> QED BY <2>1, <3>1, <3>2, ResumedInTurn DEF OrderInv
  <2>2. CASE ProcessEnds /\ UNCHANGED <<line, disk>>
    BY <2>2 DEF ProcessEnds, OrderInv
  <2> QED BY <1>3, <2>1, <2>2 DEF Resume
<1>4. CASE Cancel
  BY <1>4 DEF Cancel, OrderInv, store, history
<1>5. CASE Exit \/ Crash
  BY <1>5 DEF Exit, Crash, ProcessEnds, OrderInv, history
<1> QED BY <1>1, <1>2, <1>3, <1>4, <1>5

LEMMA OrderInvStep ==
  ASSUME TypeInv, Inv, StoreInv, CopyInv, LineInv, StartedInv, OrderInv, [Next]_vars
  PROVE  OrderInv'
<1>1. CASE UNCHANGED vars
  BY <1>1 DEF vars, OrderInv
<1> QED BY <1>1, ServiceInTurn, WorkerInTurn, ProcessInTurn DEF Next

\* What the start puts into the queue keeps every pair that is in turn.
LEMMA ResumeStep ==
  ASSUME TypeInv, StoreInv, LineInv, OrderInv, Resume, phase' = "up",
         NEW p \in line, NeverRetried(p), ToldApart(p)
  PROVE  p \in line'
<1> USE DEF TypeInv, TypeOK
<1>1. PICK s \in [1 .. Cardinality(Waiting) -> Waiting] : InOrder(s) /\ line' = OrderOf(s)
  BY DEF Resume, ProcessEnds
<1>2. s \in Seq(Ids) /\ DOMAIN s = 1 .. Len(s) /\ Len(s) \in Nat
  BY ResumedIsSeq, LenProperties
<1>3. phase # "off" /\ mem = disk
  BY DEF Resume, StoreInv
<1>4. p[1] \in Ids /\ p[2] \in Ids /\ p = <<p[1], p[2]>>
  OBVIOUS
<1>5. mem[p[1]].status = "queued" /\ mem[p[2]].status = "queued"
  <2>1. p[1] \in InLine /\ p[2] \in InLine
    BY DEF LineInv
  <2> QED BY <1>3, <2>1 DEF LineInv
<1>6. PICK m \in 1 .. Len(s), n \in 1 .. Len(s) : s[m] = p[1] /\ s[n] = p[2]
  <2>1. \A i \in Ids : mem[i].status = "queued" <=> \E n \in 1 .. Len(s) : s[n] = i
    BY <1>1, ResumedIsLinedUp DEF LinedUp
  <2>2. \E m \in 1 .. Len(s) : s[m] = p[1]
    BY <1>4, <1>5, <2>1
  <2>3. \E n \in 1 .. Len(s) : s[n] = p[2]
    BY <1>4, <1>5, <2>1
  <2> QED BY <2>2, <2>3
<1>7. CASE m =< n
  <2>1. <<s[m], s[n]>> \in OrderOf(s)
    BY <1>2, <1>7, OrderOfSeq
  <2> QED BY <1>1, <1>4, <1>6, <2>1
<1>8. CASE n < m
  <2>1. Before(p[2], p[1])
    BY <1>1, <1>2, <1>6, <1>8 DEF InOrder
  <2>2. mem[p[1]].created # mem[p[2]].created /\ Precedes(mem, p[1], p[2])
    BY <1>3, <1>4 DEF OrderInv, InTurn, NeverRetried, ToldApart
  <2>3. mem[p[1]].created \in Nat /\ mem[p[2]].created \in Nat /\ p[1] \in Nat /\ p[2] \in Nat
    BY <1>4, ConstantsAssumption DEF Job
  <2>4. FALSE
    BY <2>1, <2>2, <2>3 DEF Before, Precedes
  <2> QED BY <2>4
<1> QED BY <1>2, <1>7, <1>8

\* A restart keeps the order of acceptance of the jobs that no operator has retried,
\* wherever the clock tells them apart.
THEOREM RestartKeepsOrder == Spec => ResumeKeepsOrder
<1> DEFINE All == TypeInv /\ Inv /\ StoreInv /\ CopyInv /\ LineInv
<1>1. Init => StartedInv /\ OrderInv
  BY DEF Init, StartedInv, OrderInv, InTurn, Empty, NoJob
<1>2. All /\ StartedInv /\ OrderInv /\ [Next]_vars => (StartedInv /\ OrderInv)'
  BY StartedInvStep, OrderInvStep
<1>3. All /\ OrderInv /\ [Next]_vars
        => [(phase = "recovered" /\ phase' = "up") =>
              \A p \in line : NeverRetried(p) /\ ToldApart(p) => p \in line']_vars
  <2> SUFFICES ASSUME All, OrderInv, [Next]_vars, phase = "recovered", phase' = "up",
                      NEW p \in line, NeverRetried(p), ToldApart(p)
               PROVE  p \in line'
    OBVIOUS
  <2>1. Resume
    BY DEF Next, ServiceStep, Create, RetryGet, RetryUpdate, Deliver, WorkerStep, Dequeue, QuitIdle, Get,
           Persist, PersistFails, Render, PrintPDF, Close, Load, Recover, Cancel, Exit, Crash,
           ProcessEnds, vars
  <2> QED BY <2>1, ResumeStep
<1>4. Spec => []All
  BY AcceptanceInvariant, PTL
<1> QED BY <1>1, <1>2, <1>3, <1>4, PTL DEF Spec, ResumeKeepsOrder
==============================================================================
