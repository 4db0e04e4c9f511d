--------------------------- MODULE JSONStoreProofs ---------------------------
(***************************************************************************)
(* Proofs about JSONStore, for any jobs and callers: the file is always    *)
(* whole, and the store does what AtomicStore promises.                    *)
(***************************************************************************)
EXTENDS JSONStore, TLAPS

\* Only the holder of the lock has a write under way, and a process that is off has
\* neither jobs nor a write.
LockInv ==
  /\ \A c \in Callers : at[c] # "idle" <=> writer = c
  /\ phase = "off" => mem = Empty /\ writer = Nobody

\* What a write makes of the collection changes one job, or settles all of them.
WriteInv ==
  \A c \in Callers : at[c] # "idle" => Store!Written(next[c])

\* Only a flushed file gets the name, and it holds what is being written.
FileInv ==
  /\ flushed
  /\ file \in Collection
  /\ \A c \in Callers : at[c] = "rename" => synced[c]
  /\ \A c \in Callers : at[c] = "renamed" => file = next[c]

Inv == TypeOK /\ LockInv /\ WriteInv /\ FileInv
------------------------------------------------------------------------------
\* No collection is the file that does not decode.
LEMMA TornIsNoCollection == Torn \notin Collection
<1>1. PICK i \in Ids : TRUE
  BY StoreAssumption
<1>2. Torn[i] = "torn"
  BY <1>1 DEF Torn
<1>3. \A f \in Collection : f[i] # "torn"
  BY <1>1 DEF Collection, Status, Live
<1> QED BY <1>2, <1>3

LEMMA EmptyIsCollection == Empty \in Collection
BY DEF Empty, Collection, Status

\* What the start-up makes of a collection is one.
LEMMA SettledIsCollection ==
  ASSUME mem \in Collection
  PROVE  SettledAll \in Collection
BY DEF SettledAll, Settled, Collection, Status, Live

\* A change of one job is a write, and so is the settling of all.
LEMMA OneJobIsWritten ==
  ASSUME mem \in Collection, NEW i \in Ids, NEW v \in Contents
  PROVE  /\ [mem EXCEPT ![i] = v] \in Collection
         /\ Store!Written([mem EXCEPT ![i] = v])
<1> DEFINE new == [mem EXCEPT ![i] = v]
<1>1. v \in Live /\ v # "absent"
  BY StoreAssumption DEF Live
<1>2. new \in Collection
  BY <1>1 DEF Collection, Status
<1>3. new[i] = v
  BY DEF Collection
<1>4. new = [mem EXCEPT ![i] = new[i]]
  BY <1>3
<1>5. Store!Written(new)
  BY <1>1, <1>3, <1>4 DEF Store!Written
<1> QED BY <1>2, <1>5

LEMMA SettledIsWritten == Store!Written(SettledAll)
BY DEF Store!Written, SettledAll

LEMMA InitInv == Init => Inv
<1> SUFFICES ASSUME Init PROVE Inv
  OBVIOUS
<1> USE EmptyIsCollection DEF Init
<1>1. TypeOK
  BY DEF TypeOK, AllIdle, NoNext, NoSync, Points
<1>2. LockInv
  BY StoreAssumption DEF LockInv, AllIdle
<1>3. WriteInv /\ FileInv
  BY DEF WriteInv, FileInv, AllIdle
<1> QED BY <1>1, <1>2, <1>3 DEF Inv

\* The end of a process leaves no write and no lock.
LEMMA ProcessEndsInv ==
  ASSUME Inv, ProcessEnds, UNCHANGED files
  PROVE  Inv'
<1> USE EmptyIsCollection DEF Inv, ProcessEnds, files
<1>1. TypeOK'
  BY DEF TypeOK, AllIdle, NoNext, NoSync, Points
<1>2. LockInv'
  BY StoreAssumption DEF LockInv, AllIdle
<1>3. WriteInv' /\ FileInv'
  BY DEF WriteInv, FileInv, AllIdle
<1> QED BY <1>1, <1>2, <1>3

\* A write begins.
LEMMA BeginInv ==
  ASSUME Inv, NEW c \in Callers, phase # "off",
         NEW new \in Collection, Store!Written(new), Begin(c, new)
  PROVE  Inv'
<1> USE DEF Inv, Begin, files
<1>0. UNCHANGED <<mem, phase>> /\ \A d \in Callers : at[d] = "idle"
  BY StoreAssumption DEF LockInv
<1>1. TypeOK'
  BY DEF TypeOK, Points
<1>2. LockInv'
  BY <1>0 DEF LockInv, TypeOK
<1>3. WriteInv'
  BY <1>0 DEF WriteInv, TypeOK, Store!Written
<1>4. FileInv'
  BY <1>0 DEF FileInv, TypeOK
<1> QED BY <1>1, <1>2, <1>3, <1>4

\* A write goes on.
LEMMA GotoInv ==
  ASSUME Inv, NEW c \in Callers, NEW point \in Points \ {"idle"},
         at[c] # "idle", Goto(c, point),
         \/ UNCHANGED <<files, synced>> /\ point \notin {"rename", "renamed"}
         \/ UNCHANGED files /\ synced' = [synced EXCEPT ![c] = TRUE] /\ point = "rename"
         \/ /\ UNCHANGED <<onPlatter, synced>> /\ point = "renamed"
            /\ file' = next[c] /\ before' = file /\ flushed' = TRUE
  PROVE  Inv'
<1> USE DEF Inv, Goto, files
<1>1. TypeOK'
  BY DEF TypeOK, FileInv
<1>2. LockInv'
  BY DEF LockInv, TypeOK
<1>3. WriteInv'
  BY DEF WriteInv, TypeOK, Store!Written
<1>4. FileInv'
  <2>1. \A d \in Callers \ {c} : at'[d] = at[d] /\ at[d] = "idle"
    BY DEF LockInv, TypeOK
  <2>2. at'[c] = point
    BY DEF TypeOK
  <2>3. synced \in [Callers -> BOOLEAN] /\ next[c] \in Collection /\ next' = next
    BY DEF TypeOK
  <2>4. flushed' /\ file' \in Collection
    BY <2>3 DEF FileInv
  <2>5. \A d \in Callers : at'[d] = "rename" => synced'[d]
    BY <2>1, <2>2, <2>3
  <2>6. \A d \in Callers : at'[d] = "renamed" => file' = next'[d]
    BY <2>1, <2>2, <2>3
  <2> QED BY <2>4, <2>5, <2>6 DEF FileInv
<1> QED BY <1>1, <1>2, <1>3, <1>4

\* A write returns, with or without effect on the memory.
LEMMA ReturnInv ==
  ASSUME Inv, NEW c \in Callers, at[c] # "idle", Return(c), UNCHANGED files,
         mem' \in {mem, next[c]}, phase' \in {phase, "ready"}
  PROVE  Inv'
<1> USE EmptyIsCollection DEF Inv, Return, files
<1>0. phase # "off" /\ \A d \in Callers : at'[d] = "idle"
  BY StoreAssumption DEF LockInv, TypeOK
<1>1. TypeOK'
  BY DEF TypeOK, Points
<1>2. LockInv'
  BY <1>0, StoreAssumption DEF LockInv, TypeOK
<1>3. WriteInv' /\ FileInv'
  BY <1>0 DEF WriteInv, FileInv
<1> QED BY <1>1, <1>2, <1>3

LEMMA FailsInv ==
  ASSUME Inv, NEW c \in Callers, at[c] # "idle", Fails(c), UNCHANGED files
  PROVE  Inv'
<1>1. CASE phase = "loaded"
  BY <1>1, ProcessEndsInv DEF Fails
<1>2. CASE phase # "loaded"
  BY <1>2, ReturnInv DEF Fails
<1> QED BY <1>1, <1>2
------------------------------------------------------------------------------
LEMMA CallInv ==
  ASSUME Inv, NEW c \in Callers, Create(c) \/ Update(c) \/ Recover(c)
  PROVE  Inv'
<1>0. mem \in Collection
  BY DEF Inv, TypeOK
<1>1. CASE Create(c) \/ Update(c)
  BY <1>0, <1>1, BeginInv, OneJobIsWritten DEF Create, Update
<1>2. CASE phase = "loaded" /\ Begin(c, SettledAll)
  BY <1>0, <1>2, BeginInv, SettledIsCollection, SettledIsWritten
<1>3. CASE phase = "loaded" /\ phase' = "ready" /\ UNCHANGED <<mem, files, writer, calls>>
  BY <1>3 DEF Inv, files, calls, TypeOK, LockInv, WriteInv, FileInv, Store!Written
<1> QED BY <1>1, <1>2, <1>3 DEF Recover

LEMMA WritingInv ==
  ASSUME Inv, NEW c \in Callers, Writing(c)
  PROVE  Inv'
<1> USE DEF Points
<1>1. CASE CreateTemp(c)
  BY <1>1, FailsInv, GotoInv DEF CreateTemp
<1>2. CASE WriteTemp(c)
  BY <1>2, GotoInv DEF WriteTemp, GiveUp
<1>3. CASE SyncTemp(c)
  BY <1>3, GotoInv DEF SyncTemp, GiveUp
<1>4. CASE Rename(c)
  <2>1. synced[c]
    BY <1>4 DEF Rename, Inv, FileInv
  <2>2. synced[c] = TRUE
    BY <2>1 DEF Inv, TypeOK
  <2> QED BY <1>4, <2>2, GotoInv DEF Rename, GiveUp
<1>5. CASE Finish(c)
  BY <1>5, FailsInv, ReturnInv DEF Finish
<1>6. CASE Cleanup(c)
  BY <1>6, FailsInv DEF Cleanup
<1> QED BY <1>1, <1>2, <1>3, <1>4, <1>5, <1>6 DEF Writing

LEMMA SystemInv ==
  ASSUME Inv, Load \/ Crash \/ Flush \/ PowerLoss
  PROVE  Inv'
<1>1. CASE Load
  <2>1. \A c \in Callers : at[c] = "idle"
    BY <1>1, StoreAssumption DEF Load, Inv, LockInv
  <2> QED BY <1>1, <2>1 DEF Load, files, calls, Inv, TypeOK, LockInv, WriteInv, FileInv
<1>2. CASE Crash
  BY <1>2, ProcessEndsInv DEF Crash
<1>3. CASE Flush
  BY <1>3 DEF Flush, calls, Inv, TypeOK, LockInv, WriteInv, FileInv, Store!Written
<1>4. CASE PowerLoss
  <2>0. flushed /\ file \in Collection /\ onPlatter \in Collection
    BY DEF Inv, FileInv, TypeOK
  <2>1. file' \in {onPlatter, file} /\ file' \in Collection /\ flushed'
    BY <1>4, <2>0 DEF PowerLoss
  <2>2. onPlatter' \in Collection
    BY <1>4, <2>0, <2>1 DEF PowerLoss
  <2>3. TypeOK'
    BY <1>4, <2>1, <2>2, EmptyIsCollection
       DEF PowerLoss, ProcessEnds, TypeOK, AllIdle, NoNext, NoSync, Points
  <2>4. LockInv'
    BY <1>4, StoreAssumption DEF PowerLoss, ProcessEnds, LockInv, AllIdle
  <2>5. WriteInv' /\ FileInv'
    BY <1>4, <2>1 DEF PowerLoss, ProcessEnds, WriteInv, FileInv, AllIdle
  <2> QED BY <2>3, <2>4, <2>5 DEF Inv
<1> QED BY <1>1, <1>2, <1>3, <1>4

LEMMA NextInv == Inv /\ [Next]_vars => Inv'
<1> SUFFICES ASSUME Inv, [Next]_vars PROVE Inv'
  OBVIOUS
<1>1. CASE UNCHANGED vars
  BY <1>1 DEF vars, files, calls, Inv, TypeOK, LockInv, WriteInv, FileInv, Store!Written
<1> QED BY <1>1, CallInv, WritingInv, SystemInv DEF Next

LEMMA Invariance == Spec => []Inv
BY InitInv, NextInv, PTL DEF Spec
------------------------------------------------------------------------------
\* Every variable keeps its type.
THEOREM TypeCorrect == Spec => []TypeOK
<1>1. Inv => TypeOK
  BY DEF Inv
<1> QED BY <1>1, Invariance, PTL

\* Whatever step a crash or a power loss interrupts, jobs.json decodes.
THEOREM FileStaysWhole == Spec => []FileIsWhole
<1>1. Inv => FileIsWhole
  BY TornIsNoCollection DEF Inv, FileInv, FileIsWhole
<1> QED BY <1>1, Invariance, PTL
------------------------------------------------------------------------------
(***************************************************************************)
(* The refinement: every step is one of AtomicStore or leaves it alone.    *)
(***************************************************************************)
LEMMA InitRefines == Init => Store!Init
BY StoreAssumption DEF Init, Store!Init, Empty, Store!Empty, Reported

\* Without a renamed file that is not reported yet, the file counts.
LEMMA ReportedIsFile ==
  ASSUME writer \in Callers => at[writer] # "renamed"
  PROVE  Reported = file
BY DEF Reported

\* At any time the file is what has been reported, or one write more.
LEMMA OneWriteAhead ==
  ASSUME Inv
  PROVE  file = Reported \/ Store!Written(file)
<1>1. CASE writer \in Callers /\ at[writer] = "renamed"
  <2>1. Store!Written(next[writer]) /\ file = next[writer]
    BY <1>1 DEF Inv, WriteInv, FileInv
  <2> QED BY <2>1
<1>2. CASE ~(writer \in Callers /\ at[writer] = "renamed")
  BY <1>2 DEF Reported
<1> QED BY <1>1, <1>2

\* The end of a process is Die.
LEMMA ProcessEndsRefines ==
  ASSUME Inv, ProcessEnds, UNCHANGED files
  PROVE  Store!Die
<1>1. Reported' = file
  BY StoreAssumption DEF ProcessEnds, files, Reported
<1>2. mem' = Store!Empty /\ onPlatter' = onPlatter
  BY DEF ProcessEnds, files, Empty, Store!Empty
<1> QED BY <1>1, <1>2, OneWriteAhead DEF Store!Die

\* A write goes on with a step other than the rename.
LEMMA GotoRefines ==
  ASSUME Inv, NEW c \in Callers, NEW point \in Points, Goto(c, point), UNCHANGED files,
         at[c] \notin {"idle", "renamed"}, point # "renamed"
  PROVE  UNCHANGED Store!vars
<1>1. writer = c /\ writer' = c /\ at'[c] = point
  BY DEF Inv, LockInv, TypeOK, Goto
<1> QED BY <1>1 DEF Goto, files, Reported, Store!vars

\* A write that fails before the rename leaves no trace; after it, it is late.
LEMMA FailsRefines ==
  ASSUME Inv, NEW c \in Callers, at[c] # "idle", Fails(c), UNCHANGED files
  PROVE  Store!Next \/ UNCHANGED Store!vars
<1>1. CASE phase = "loaded"
  BY <1>1, ProcessEndsRefines DEF Fails, Store!Next
<1>2. CASE phase # "loaded"
  <2>1. Reported' = file /\ UNCHANGED <<mem, file, onPlatter>>
    BY <1>2, StoreAssumption DEF Fails, Return, Reported, files
  <2>2. CASE file = Reported
    BY <2>1, <2>2 DEF Store!vars
  <2>3. CASE Store!Written(file)
    BY <2>1, <2>3 DEF Store!Next, Store!Late, Store!Written
  <2> QED BY <2>2, <2>3, OneWriteAhead
<1> QED BY <1>1, <1>2

LEMMA CallRefines ==
  ASSUME Inv, NEW c \in Callers, Create(c) \/ Update(c) \/ Recover(c)
  PROVE  UNCHANGED Store!vars
<1>1. CASE \E new : Begin(c, new)
  <2>1. writer = Nobody /\ writer' = c /\ at'[c] = "temp" /\ UNCHANGED <<mem, file, onPlatter>>
    BY <1>1 DEF Begin, files, Inv, TypeOK
  <2> QED BY <2>1, StoreAssumption DEF Reported, Store!vars
<1>2. CASE UNCHANGED <<mem, files, writer, calls>>
  BY <1>2 DEF files, calls, Reported, Store!vars
<1> QED BY <1>1, <1>2 DEF Create, Update, Recover

LEMMA RenameRefines ==
  ASSUME Inv, NEW c \in Callers, Rename(c)
  PROVE  UNCHANGED Store!vars
<1>1. writer = c /\ writer' = c /\ at[c] = "rename"
  BY DEF Inv, LockInv, Rename, Goto, GiveUp
<1>2. CASE GiveUp(c)
  BY <1>1, <1>2, GotoRefines DEF GiveUp, Points
<1>3. CASE before' = file /\ Goto(c, "renamed") /\ UNCHANGED onPlatter
  <2>1. at'[c] = "renamed" /\ mem' = mem
    BY <1>3 DEF Inv, TypeOK, Goto
  <2>2. Reported = file /\ Reported' = file
    BY <1>1, <1>3, <2>1 DEF Reported
  <2> QED BY <1>3, <2>1, <2>2 DEF Store!vars
<1> QED BY <1>2, <1>3 DEF Rename

LEMMA FinishRefines ==
  ASSUME Inv, NEW c \in Callers, Finish(c)
  PROVE  Store!Next \/ UNCHANGED Store!vars
<1>1. CASE Fails(c)
  BY <1>1, FailsRefines DEF Finish
<1>2. CASE mem' = next[c] /\ Return(c)
  <2>1. Store!Written(mem') /\ file = mem' /\ UNCHANGED <<file, onPlatter>>
    BY <1>2 DEF Finish, files, Inv, WriteInv, FileInv
  <2>2. Reported' = file
    BY <1>2, <2>1, StoreAssumption DEF Return, Reported
  <2> QED BY <2>1, <2>2 DEF Store!Next, Store!Commit
<1> QED BY <1>1, <1>2 DEF Finish

LEMMA WritingRefines ==
  ASSUME Inv, NEW c \in Callers, Writing(c)
  PROVE  Store!Next \/ UNCHANGED Store!vars
<1> USE DEF Points
<1>1. CASE CreateTemp(c)
  BY <1>1, FailsRefines, GotoRefines DEF CreateTemp
<1>2. CASE WriteTemp(c)
  BY <1>2, GotoRefines DEF WriteTemp, GiveUp
<1>3. CASE SyncTemp(c)
  BY <1>3, GotoRefines DEF SyncTemp, GiveUp
<1>4. CASE Cleanup(c)
  BY <1>4, FailsRefines DEF Cleanup
<1> QED BY <1>1, <1>2, <1>3, <1>4, RenameRefines, FinishRefines DEF Writing

LEMMA SystemRefines ==
  ASSUME Inv, Load \/ Crash \/ Flush \/ PowerLoss
  PROVE  Store!Next
<1>1. CASE Load
  <2>1. mem = Empty /\ writer = Nobody /\ mem' = file /\ UNCHANGED <<file, onPlatter, writer>>
    BY <1>1 DEF Load, Inv, LockInv, files
  <2>2. Reported = file /\ Reported' = file
    BY <2>1, StoreAssumption DEF Reported
  <2> QED BY <2>1, <2>2 DEF Store!Next, Store!Load, Empty, Store!Empty
<1>2. CASE Crash
  BY <1>2, ProcessEndsRefines DEF Crash, Store!Next
<1>3. CASE Flush
  <2>1. onPlatter' = file /\ UNCHANGED <<mem, Reported>>
    BY <1>3 DEF Flush, calls, Reported
  <2> QED BY <2>1, OneWriteAhead DEF Store!Next, Store!Flush, Store!Written
<1>4. CASE PowerLoss
  <2>1. Reported' = file' /\ mem' = Store!Empty
    BY <1>4, StoreAssumption DEF PowerLoss, ProcessEnds, Reported, Empty, Store!Empty
  <2>2. file' \in {onPlatter, file} /\ file' # Torn
    BY <1>4, TornIsNoCollection DEF PowerLoss, Inv, FileInv, TypeOK
  <2>3. onPlatter' = file'
    BY <1>4, <2>2 DEF PowerLoss
  <2> QED BY <2>1, <2>2, <2>3, OneWriteAhead DEF Store!Next, Store!PowerLoss, Store!Written
<1> QED BY <1>1, <1>2, <1>3, <1>4

\* Interleaved writes, failed steps, deaths and power losses come down to whole
\* writes, one after the other, as AtomicStore describes them.
THEOREM StoreIsAtomic == Spec => ImplementsAtomicStore
<1>1. Inv /\ [Next]_vars => [Store!Next]_(Store!vars)
  <2> SUFFICES ASSUME Inv, [Next]_vars PROVE Store!Next \/ UNCHANGED Store!vars
    OBVIOUS
  <2>1. CASE UNCHANGED vars
    BY <2>1 DEF vars, files, calls, Reported, Store!vars
  <2> QED BY <2>1, CallRefines, WritingRefines, SystemRefines DEF Next
<1> QED BY <1>1, InitRefines, Invariance, PTL DEF Spec, ImplementsAtomicStore, Store!Spec
==============================================================================
