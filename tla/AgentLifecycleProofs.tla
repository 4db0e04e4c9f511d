------------------------- MODULE AgentLifecycleProofs -------------------------
(***************************************************************************)
(* Proofs about AgentLifecycle, for any number of processes, handlers and  *)
(* jobs.  OnlyOwnerUsesData is strengthened to OwnerInv: what each stage   *)
(* of main says of the goroutines of its process.  AcknowledgedStays needs *)
(* KnowsInv in addition: an owner that has read the file knows every job   *)
(* that was acknowledged.                                                  *)
(***************************************************************************)
EXTENDS AgentLifecycle, TLAPS

\* Nothing of the process runs but main.
Unstarted(p) == /\ ~serving[p]
                /\ worker[p] = "idle"
                /\ mu[p] = Free
                /\ ~closed[p]
                /\ \A h \in Handlers : call[p][h] = "idle"

Starting == {"locked", "loaded", "ready"}

StageInv(p) ==
  /\ pc[p] \in Starting \cup {"up"} <=> lock = p
  /\ pc[p] \in Starting \cup {"off"} => Unstarted(p)
  /\ pc[p] = "released" => ~serving[p] /\ (closed[p] \/ Unstarted(p))
  /\ closed[p] <=> worker[p] = "done"
  /\ closed[p] => mu[p] = Free
  /\ \A h \in Handlers : call[p][h] = "writing" <=> mu[p] = h

OwnerInv == TypeOK /\ \A p \in Processes : StageInv(p)

KnowsInv ==
  /\ acked \subseteq disk
  /\ \A p \in Processes : pc[p] \in {"loaded", "ready", "up"} => acked \subseteq mem[p]

Inv == OwnerInv /\ KnowsInv
------------------------------------------------------------------------------
(***************************************************************************)
(* Types.                                                                  *)
(***************************************************************************)
LEMMA EndsType ==
  ASSUME TypeOK, NEW p \in Processes, Ends(p), lock' \in Processes \cup {Free}
  PROVE  TypeOK'
  BY DEF TypeOK, Ends

LEMMA MainType ==
  ASSUME TypeOK, NEW p \in Processes,
         Acquire(p) \/ Load(p) \/ Recover(p) \/ Up(p) \/ StartFails(p) \/ Release(p)
  PROVE  TypeOK'
  BY DEF TypeOK, Acquire, Load, Recover, Up, StartFails, Release, At, data, service

LEMMA HandlerType ==
  ASSUME TypeOK, NEW p \in Processes, HandlerStep(p)
  PROVE  TypeOK'
<1>1. PICK h \in Handlers : Request(p, h) \/ Enter(p, h) \/ Abandon(p, h) \/ Write(p, h)
  BY DEF HandlerStep
<1>2. call' \in [Processes -> [Handlers -> {"idle", "reading", "writing"}]]
  <2> DEFINE Points == {"idle", "reading", "writing"}
  <2>1. PICK at \in Points : call' = [call EXCEPT ![p][h] = at]
    BY <1>1 DEF Request, Enter, Abandon, Write, Handling
  <2>2. call \in [Processes -> [Handlers -> Points]]
    BY DEF TypeOK
  <2>3. [call[p] EXCEPT ![h] = at] \in [Handlers -> Points]
    BY <2>1, <2>2
  <2> QED BY <2>1, <2>2, <2>3
<1>3. mu' \in [Processes -> Handlers \cup {Free}]
  BY <1>1 DEF TypeOK, Request, Enter, Abandon, Write
<1>4. UNCHANGED <<main, worker, closed>>
  BY <1>1 DEF Request, Enter, Abandon, Write
<1>5. disk' \subseteq Jobs /\ acked' \subseteq Jobs /\ mem' \in [Processes -> SUBSET Jobs]
  <2>1. CASE Write(p, h)
    <3>1. PICK j \in Jobs, ok \in BOOLEAN :
            /\ disk' \in {mem[p] \cup {j}} \cup (IF ok THEN {} ELSE {disk})
            /\ mem' = IF ok THEN [mem EXCEPT ![p] = @ \cup {j}] ELSE mem
            /\ acked' = IF ok THEN acked \cup {j} ELSE acked
      BY <2>1 DEF Write
    <3> QED BY <3>1 DEF TypeOK
  <2>2. CASE UNCHANGED data
    BY <2>2 DEF TypeOK, data
  <2> QED BY <1>1, <2>1, <2>2 DEF Request, Enter, Abandon
<1> QED BY <1>2, <1>3, <1>4, <1>5 DEF TypeOK, main

LEMMA GoroutineType ==
  ASSUME TypeOK, NEW p \in Processes,
         \/ Work(p) \/ Record(p) \/ WorkerStops(p) \/ CloseService(p)
         \/ Cancel(p) \/ Shutdown(p) \/ ServeReturns(p) \/ ShutdownReturns(p)
  PROVE  TypeOK'
  BY DEF TypeOK, Work, Record, WorkerStops, CloseService, Works, Cancel, Shutdown,
         ServeReturns, ShutdownReturns, Stops, data, main, service

LEMMA TypeStep ==
  ASSUME TypeOK, [Next]_vars
  PROVE  TypeOK'
<1>1. CASE UNCHANGED vars
  BY <1>1 DEF TypeOK, vars, data, main, service
<1>2. ASSUME NEW p \in Processes, Exit(p) \/ Crash(p)
      PROVE  TypeOK'
  BY <1>2, EndsType DEF Exit, Crash, TypeOK
<1> QED BY <1>1, <1>2, MainType, HandlerType, GoroutineType DEF Next, Step

\* Every variable keeps its type: the state of a process, its goroutines and its
\* handlers (main.go:117-188).
THEOREM TypeCorrect == Spec => []TypeOK
<1>1. Init => TypeOK
  BY DEF Init, TypeOK
<1> QED BY <1>1, TypeStep, PTL DEF Spec
------------------------------------------------------------------------------
(***************************************************************************)
(* One owner.                                                              *)
(***************************************************************************)
\* A step of one process leaves the stages of the others as they were.
LEMMA OthersKeep ==
  ASSUME TypeOK, NEW p \in Processes, Step(p), NEW q \in Processes, q # p
  PROVE  /\ pc'[q] = pc[q] /\ serving'[q] = serving[q] /\ worker'[q] = worker[q]
         /\ mu'[q] = mu[q] /\ closed'[q] = closed[q] /\ call'[q] = call[q]
         /\ mem'[q] = mem[q]
<1>1. CASE Acquire(p) \/ Load(p) \/ Recover(p) \/ Up(p) \/ StartFails(p) \/ Release(p)
  BY <1>1 DEF TypeOK, Acquire, Load, Recover, Up, StartFails, Release, At, data, service
<1>2. CASE HandlerStep(p)
  <2>1. PICK h \in Handlers : Request(p, h) \/ Enter(p, h) \/ Abandon(p, h) \/ Write(p, h)
    BY <1>2 DEF HandlerStep
  <2>2. UNCHANGED <<main, worker, closed>> /\ call'[q] = call[q] /\ mu'[q] = mu[q]
    BY <2>1 DEF TypeOK, Request, Enter, Abandon, Write, Handling
  <2>3. mem'[q] = mem[q]
    BY <2>1 DEF TypeOK, Request, Enter, Abandon, Write, data
  <2> QED BY <2>2, <2>3 DEF main
<1>3. CASE \/ Work(p) \/ Record(p) \/ WorkerStops(p) \/ CloseService(p)
           \/ Cancel(p) \/ Shutdown(p) \/ ServeReturns(p) \/ ShutdownReturns(p)
  BY <1>3 DEF TypeOK, Work, Record, WorkerStops, CloseService, Works, Cancel, Shutdown,
              ServeReturns, ShutdownReturns, Stops, data, main, service
<1>4. CASE Exit(p) \/ Crash(p)
  BY <1>4 DEF TypeOK, Exit, Crash, Ends
<1> QED BY <1>1, <1>2, <1>3, <1>4 DEF Step

\* Nobody takes the lock from its holder but the holder itself.
LEMMA LockKept ==
  ASSUME OwnerInv, NEW p \in Processes, Step(p), NEW q \in Processes, q # p, lock = q
  PROVE  lock' = q
<1> USE DEF OwnerInv, TypeOK
<1>1. Free \notin Processes
  BY LifecycleAssumption
<1>2. pc[p] \notin Starting \cup {"up"}
  BY DEF StageInv
<1>3. CASE Acquire(p) \/ Load(p) \/ Recover(p) \/ Up(p) \/ StartFails(p) \/ Release(p)
  BY <1>1, <1>2, <1>3 DEF Acquire, Load, Recover, Up, StartFails, Release, At, Starting
<1>4. CASE HandlerStep(p)
  BY <1>4 DEF HandlerStep, Request, Enter, Abandon, Write, main
<1>5. CASE \/ Work(p) \/ Record(p) \/ WorkerStops(p) \/ CloseService(p)
           \/ Cancel(p) \/ Shutdown(p) \/ ServeReturns(p) \/ ShutdownReturns(p)
  BY <1>5 DEF Work, Record, WorkerStops, CloseService, Cancel, Shutdown,
              ServeReturns, ShutdownReturns, main
<1>6. CASE Exit(p) \/ Crash(p)
  BY <1>6 DEF Exit, Crash
<1> QED BY <1>3, <1>4, <1>5, <1>6 DEF Step

\* Nobody is given the lock but the process that takes it.
LEMMA LockNotGiven ==
  ASSUME NEW p \in Processes, Step(p), NEW q \in Processes, q # p, lock' = q
  PROVE  lock = q
<1>1. Free \notin Processes
  BY LifecycleAssumption
<1>2. CASE Acquire(p) \/ Load(p) \/ Recover(p) \/ Up(p) \/ StartFails(p) \/ Release(p)
  BY <1>1, <1>2 DEF Acquire, Load, Recover, Up, StartFails, Release
<1>3. CASE HandlerStep(p)
  BY <1>3 DEF HandlerStep, Request, Enter, Abandon, Write, main
<1>4. CASE \/ Work(p) \/ Record(p) \/ WorkerStops(p) \/ CloseService(p)
           \/ Cancel(p) \/ Shutdown(p) \/ ServeReturns(p) \/ ShutdownReturns(p)
  BY <1>4 DEF Work, Record, WorkerStops, CloseService, Cancel, Shutdown,
              ServeReturns, ShutdownReturns, main
<1>5. CASE Exit(p) \/ Crash(p)
  BY <1>1, <1>5 DEF Exit, Crash
<1> QED BY <1>2, <1>3, <1>4, <1>5 DEF Step

LEMMA OtherStages ==
  ASSUME OwnerInv, NEW p \in Processes, Step(p), NEW q \in Processes, q # p
  PROVE  StageInv(q)'
<1>1. StageInv(q)
  BY DEF OwnerInv
<1>2. /\ pc'[q] = pc[q] /\ serving'[q] = serving[q] /\ worker'[q] = worker[q]
      /\ mu'[q] = mu[q] /\ closed'[q] = closed[q] /\ call'[q] = call[q]
  BY OthersKeep DEF OwnerInv
<1>3. lock = q <=> lock' = q
  BY LockKept, LockNotGiven
<1> QED BY <1>1, <1>2, <1>3 DEF StageInv, Unstarted

\* The steps of main.
LEMMA MainStage ==
  ASSUME OwnerInv, NEW p \in Processes,
         Acquire(p) \/ Load(p) \/ Recover(p) \/ Up(p) \/ StartFails(p) \/ Release(p)
  PROVE  StageInv(p)'
<1> USE DEF OwnerInv, TypeOK, StageInv, Starting, At, data, service
<1>0. Free \notin Processes
  BY LifecycleAssumption
<1>1. CASE Acquire(p)
  BY <1>1 DEF Acquire, Unstarted
<1>2. CASE Load(p) \/ Recover(p)
  BY <1>2 DEF Load, Recover, Unstarted
<1>3. CASE Up(p)
  BY <1>3 DEF Up, Unstarted
<1>4. CASE StartFails(p)
  BY <1>0, <1>4 DEF StartFails, Unstarted
<1>5. CASE Release(p)
  BY <1>0, <1>5 DEF Release
<1> QED BY <1>1, <1>2, <1>3, <1>4, <1>5

\* The steps of handlers: a handler that writes holds the mutex of an open service.
LEMMA HandlerStage ==
  ASSUME OwnerInv, NEW p \in Processes, HandlerStep(p)
  PROVE  StageInv(p)'
<1> USE DEF OwnerInv, TypeOK, StageInv, Starting, Handling, main
<1>0. PICK h \in Handlers : Request(p, h) \/ Enter(p, h) \/ Abandon(p, h) \/ Write(p, h)
  BY DEF HandlerStep
<1>1. Free \notin Handlers
  BY LifecycleAssumption
<1>2. CASE Request(p, h)
  BY <1>2 DEF Request, Unstarted
<1>3. CASE Enter(p, h)
  BY <1>1, <1>3 DEF Enter, Unstarted
<1>4. CASE Abandon(p, h)
  BY <1>1, <1>4 DEF Abandon, Unstarted
<1>5. CASE Write(p, h)
  BY <1>1, <1>5 DEF Write, Unstarted
<1> QED BY <1>0, <1>2, <1>3, <1>4, <1>5

\* The steps of the worker and of the goroutines that serve and shut down.
LEMMA GoroutineStage ==
  ASSUME OwnerInv, NEW p \in Processes,
         \/ Work(p) \/ Record(p) \/ WorkerStops(p) \/ CloseService(p)
         \/ Cancel(p) \/ Shutdown(p) \/ ServeReturns(p) \/ ShutdownReturns(p)
  PROVE  StageInv(p)'
<1> USE DEF OwnerInv, TypeOK, StageInv, Starting, Unstarted
<1>1. CASE Work(p) \/ WorkerStops(p)
  BY <1>1 DEF Work, WorkerStops, Works, data, main, service
<1>2. CASE Record(p)
  BY <1>2 DEF Record, Works, main, service
<1>3. CASE CloseService(p)
  BY <1>3 DEF CloseService, Works, data, main
<1>4. CASE Cancel(p) \/ ServeReturns(p)
  BY <1>4 DEF Cancel, ServeReturns, Stops, data, service
<1>5. CASE Shutdown(p) \/ ShutdownReturns(p)
  BY <1>5 DEF Shutdown, ShutdownReturns, Stops, data, service
<1> QED BY <1>1, <1>2, <1>3, <1>4, <1>5

LEMMA EndStage ==
  ASSUME OwnerInv, NEW p \in Processes, Exit(p) \/ Crash(p)
  PROVE  StageInv(p)'
<1>1. Ends(p)
  BY DEF Exit, Crash
<1>2. Free \notin Processes \cup Handlers
  BY LifecycleAssumption
<1>3. lock' # p
  BY <1>2 DEF Exit, Crash, OwnerInv, StageInv, Starting
<1> QED BY <1>1, <1>2, <1>3 DEF Ends, OwnerInv, TypeOK, StageInv, Starting, Unstarted

LEMMA OwnerStep ==
  ASSUME OwnerInv, [Next]_vars
  PROVE  OwnerInv'
<1>1. TypeOK'
  BY TypeStep DEF OwnerInv
<1>2. CASE UNCHANGED vars
  BY <1>2 DEF OwnerInv, TypeOK, StageInv, Unstarted, vars, data, main, service
<1>3. ASSUME NEW p \in Processes, Step(p)
      PROVE  \A q \in Processes : StageInv(q)'
  <2>1. StageInv(p)'
    BY <1>3, MainStage, HandlerStage, GoroutineStage, EndStage DEF Step
  <2> QED BY <1>3, <2>1, OtherStages
<1> QED BY <1>1, <1>2, <1>3 DEF OwnerInv, Next

LEMMA OwnerInit == ASSUME Init PROVE OwnerInv
<1>1. Free \notin Processes \cup Handlers
  BY LifecycleAssumption
<1> QED BY <1>1 DEF Init, OwnerInv, TypeOK, StageInv, Unstarted, Starting

LEMMA OwnerImplies == ASSUME OwnerInv PROVE OnlyOwnerUsesData
  BY DEF OwnerInv, TypeOK, StageInv, Unstarted, Starting, OnlyOwnerUsesData, UsesData

\* Only the holder of the lock uses the data directory, and nobody keeps it who is
\* done, however starts that fail, stops, deadlines and deaths interleave
\* (main.go:124-188).
THEOREM OneOwner == Spec => []OnlyOwnerUsesData
  BY OwnerInit, OwnerStep, OwnerImplies, PTL DEF Spec
------------------------------------------------------------------------------
(***************************************************************************)
(* Acknowledged jobs.                                                      *)
(***************************************************************************)
Knowing == {"loaded", "ready", "up"}

\* While one process owns the directory no other has read the file.
LEMMA OthersKnowNothing ==
  ASSUME OwnerInv, NEW p \in Processes, NEW q \in Processes, q # p, lock = p
  PROVE  pc[q] \notin Knowing
  BY DEF OwnerInv, StageInv, Starting, Knowing

LEMMA KnowsStep ==
  ASSUME OwnerInv, KnowsInv, [Next]_vars
  PROVE  KnowsInv'
<1> USE DEF KnowsInv
<1>1. CASE UNCHANGED vars
  BY <1>1 DEF vars, data, main
<1>2. ASSUME NEW p \in Processes, Step(p)
      PROVE  KnowsInv'
  <2>1. CASE Load(p)
    <3>1. /\ disk' = disk /\ acked' = acked
          /\ pc'[p] = "loaded" /\ mem'[p] = disk
      BY <2>1 DEF Load, At, OwnerInv, TypeOK
    <3>2. \A q \in Processes \ {p} : pc'[q] = pc[q] /\ mem'[q] = mem[q]
      BY <1>2, OthersKeep DEF OwnerInv
    <3> QED BY <3>1, <3>2
  <2>2. CASE Recover(p)
    BY <2>2 DEF Recover, At, OwnerInv, TypeOK
  <2>3. CASE \E h \in Handlers : Write(p, h)
    <3>1. PICK h \in Handlers : Write(p, h)
      BY <2>3
    <3>2. pc[p] = "up" /\ lock = p
      <4>1. mu[p] = h /\ h # Free
        BY <3>1, LifecycleAssumption DEF Write, OwnerInv, StageInv
      <4> QED BY <4>1 DEF OwnerInv, TypeOK, StageInv, Unstarted, Starting
    <3>3. PICK j \in Jobs, ok \in BOOLEAN :
            /\ disk' \in {mem[p] \cup {j}} \cup (IF ok THEN {} ELSE {disk})
            /\ mem' = IF ok THEN [mem EXCEPT ![p] = @ \cup {j}] ELSE mem
            /\ acked' = IF ok THEN acked \cup {j} ELSE acked
      BY <3>1 DEF Write
    <3>4. acked' \subseteq disk' /\ acked' \subseteq mem'[p]
      BY <3>2, <3>3 DEF OwnerInv, TypeOK
    <3>5. \A q \in Processes \ {p} : pc'[q] \notin Knowing
      BY <1>2, <3>2, OthersKnowNothing, OthersKeep DEF OwnerInv
    <3> QED BY <3>4, <3>5 DEF Knowing
  <2>4. CASE Record(p)
    <3>1. pc[p] = "up"
      BY <2>4 DEF Record, Works, OwnerInv, TypeOK, StageInv, Unstarted, Starting
    <3> QED BY <2>4, <3>1 DEF Record, main
  <2>5. CASE Exit(p) \/ Crash(p)
    BY <2>5 DEF Exit, Crash, Ends, OwnerInv, TypeOK
  <2>6. CASE Acquire(p) \/ Up(p) \/ StartFails(p) \/ Release(p)
    BY <2>6 DEF Acquire, Up, StartFails, Release, At, data, OwnerInv, TypeOK
  <2>7. CASE \/ \E h \in Handlers : Request(p, h) \/ Enter(p, h) \/ Abandon(p, h)
             \/ Work(p) \/ WorkerStops(p) \/ CloseService(p)
             \/ Cancel(p) \/ Shutdown(p) \/ ServeReturns(p) \/ ShutdownReturns(p)
    <3>1. UNCHANGED <<data, pc>>
      BY <2>7 DEF Request, Enter, Abandon, Work, WorkerStops, CloseService, Cancel,
                  Shutdown, ServeReturns, ShutdownReturns, main
    <3> QED BY <3>1 DEF data
  <2> QED BY <1>2, <2>1, <2>2, <2>3, <2>4, <2>5, <2>6, <2>7 DEF Step, HandlerStep
<1> QED BY <1>1, <1>2 DEF Next

\* No job that was acknowledged is missing from the file, whichever process writes
\* it and however the one before it ended (service.go:119-131, main.go:175-186).
THEOREM AcknowledgedJobsStay == Spec => []AcknowledgedStays
<1>1. Init => Inv
  BY OwnerInit DEF Init, Inv, KnowsInv
<1>2. Inv /\ [Next]_vars => Inv'
  BY OwnerStep, KnowsStep DEF Inv
<1>3. Inv => AcknowledgedStays
  BY DEF Inv, KnowsInv, AcknowledgedStays
<1> QED BY <1>1, <1>2, <1>3, PTL DEF Spec
==============================================================================
