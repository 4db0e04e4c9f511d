------------------------------ MODULE JSONStore ------------------------------
(***************************************************************************)
(* internal/store/json_store.go: all jobs in one map behind a lock and in  *)
(* one file.  A write clones the map, writes the clone to a temporary      *)
(* file, flushes it, renames it over jobs.json and only then replaces the  *)
(* map.  Every step can fail, the context can be cancelled between them,   *)
(* and the process can die or the machine lose power at any of them.       *)
(*                                                                         *)
(* A job's value is its status.  Readers (Get, List) take the read lock    *)
(* and get clones of what `mem' holds while nobody writes; they change     *)
(* nothing.                                                                *)
(***************************************************************************)
EXTENDS JobRecords

CONSTANTS
  Ids,
  Callers,     \* goroutines that call the store
  Nobody,      \* the holder of the free lock
  Contents     \* the statuses callers store

ASSUME StoreAssumption ==
  /\ Ids # {}
  /\ Contents \subseteq Live
  /\ Nobody \notin Callers

VARIABLES
  mem,       \* s.jobs
  file,      \* jobs.json as the running system reads it
  before,    \* history: jobs.json before the last rename
  flushed,   \* whether the bytes of jobs.json were flushed before it was renamed
  onPlatter, \* the jobs.json a power loss can bring back
  writer,    \* the holder of s.mu
  at,        \* the next step of each caller's write
  next,      \* the collection each caller is writing
  synced,    \* whether it has flushed its temporary file
  phase      \* "off", "loaded" (start-up) or "ready"

files == <<file, before, flushed, onPlatter>>
calls == <<at, next, synced>>
vars == <<mem, files, writer, calls, phase>>

Collection == [Ids -> Status]
Empty == [i \in Ids |-> "absent"]

\* A file that does not decode.
Torn == [i \in Ids |-> "torn"]

\* An interrupted job's value after RecoverInterrupted.
Settled(v) == IF v \in {"rendering", "printing"} THEN "failed" ELSE v

SettledAll == [i \in Ids |-> Settled(mem[i])]

Points == {"idle", "temp", "write", "sync", "rename", "renamed", "cleanup"}

TypeOK ==
  /\ mem \in Collection /\ before \in Collection /\ onPlatter \in Collection
  /\ file \in Collection \cup {Torn}
  /\ flushed \in BOOLEAN
  /\ writer \in Callers \cup {Nobody}
  /\ at \in [Callers -> Points]
  /\ next \in [Callers -> Collection]
  /\ synced \in [Callers -> BOOLEAN]
  /\ phase \in {"off", "loaded", "ready"}

\* No write is under way.
AllIdle == [c \in Callers |-> "idle"]
NoNext == [c \in Callers |-> Empty]
NoSync == [c \in Callers |-> FALSE]

Init ==
  /\ mem = Empty /\ file = Empty /\ before = Empty /\ onPlatter = Empty
  /\ flushed = TRUE
  /\ writer = Nobody
  /\ at = AllIdle /\ next = NoNext /\ synced = NoSync
  /\ phase = "off"
------------------------------------------------------------------------------
\* A write goes on with its next step.
Goto(c, point) ==
  /\ at' = [at EXCEPT ![c] = point]
  /\ UNCHANGED <<mem, writer, next, phase>>

\* A write returns, and with it the lock.
Return(c) ==
  /\ writer' = Nobody
  /\ at' = [at EXCEPT ![c] = "idle"]
  /\ next' = [next EXCEPT ![c] = Empty]
  /\ synced' = [synced EXCEPT ![c] = FALSE]

\* Nothing of the process is left.
ProcessEnds ==
  /\ mem' = Empty
  /\ writer' = Nobody
  /\ at' = AllIdle /\ next' = NoNext /\ synced' = NoSync
  /\ phase' = "off"

\* A failed write is reported to its caller; at start-up it ends the process.
Fails(c) == IF phase = "loaded" THEN ProcessEnds
            ELSE Return(c) /\ UNCHANGED <<mem, phase>>

\* A failed step: the temporary file is to be closed and removed.
GiveUp(c) == Goto(c, "cleanup") /\ UNCHANGED <<files, synced>>
------------------------------------------------------------------------------
\* A plausible slip: the map is cloned and changed without the lock.
BugBegin(c, new) ==
  /\ at[c] = "idle"
  /\ writer' = c
  /\ at' = [at EXCEPT ![c] = "temp"]
  /\ next' = [next EXCEPT ![c] = new]
  /\ UNCHANGED <<mem, files, synced, phase>>

\* A write begins: under the lock, a clone of the map is changed.
Begin(c, new) ==
  /\ at[c] = "idle"
  /\ writer = Nobody
  /\ writer' = c
  /\ at' = [at EXCEPT ![c] = "temp"]
  /\ next' = [next EXCEPT ![c] = new]
  /\ UNCHANGED <<mem, files, synced, phase>>

\* Create refuses a known ID.
Create(c) ==
  /\ phase = "ready"
  /\ \E i \in Ids, v \in Contents :
       mem[i] = "absent" /\ Begin(c, [mem EXCEPT ![i] = v])

\* Update refuses an unknown one.
Update(c) ==
  /\ phase = "ready"
  /\ \E i \in Ids, v \in Contents :
       mem[i] # "absent" /\ Begin(c, [mem EXCEPT ![i] = v])

\* RecoverInterrupted, at start-up: one write for all jobs, or none at all.
Recover(c) ==
  /\ phase = "loaded"
  /\ \/ SettledAll # mem /\ Begin(c, SettledAll)
     \/ /\ SettledAll = mem
        /\ phase' = "ready"
        /\ UNCHANGED <<mem, files, writer, calls>>

\* writeLocked: the context is checked and the temporary file made.
CreateTemp(c) ==
  /\ at[c] = "temp"
  /\ \/ Goto(c, "write") /\ UNCHANGED synced
     \/ Fails(c)
  /\ UNCHANGED files

\* The collection is written to it, in part if the write fails.
WriteTemp(c) ==
  /\ at[c] = "write"
  /\ \/ Goto(c, "sync") /\ UNCHANGED <<files, synced>>
     \/ GiveUp(c)

\* A plausible slip: the file is closed without a flush.
BugSyncTemp(c) ==
  /\ at[c] = "sync"
  /\ \/ Goto(c, "rename") /\ UNCHANGED <<files, synced>>
     \/ GiveUp(c)

\* It is flushed and closed.
SyncTemp(c) ==
  /\ at[c] = "sync"
  /\ \/ /\ Goto(c, "rename")
        /\ synced' = [synced EXCEPT ![c] = TRUE]
        /\ UNCHANGED files
     \/ GiveUp(c)

\* It replaces jobs.json in one step.
Rename(c) ==
  /\ at[c] = "rename"
  /\ \/ /\ file' = next[c]
        /\ before' = file
        /\ flushed' = synced[c]
        /\ Goto(c, "renamed")
        /\ UNCHANGED <<onPlatter, synced>>
     \/ GiveUp(c)

\* The deferred removal finds no temporary file: the write has succeeded and the
\* map is replaced.  Any other answer than "not found" is returned as an error
\* of the write, and the map stays as it was.
Finish(c) ==
  /\ at[c] = "renamed"
  /\ \/ /\ mem' = next[c]
        /\ phase' = "ready"
        /\ Return(c)
     \/ Fails(c)
  /\ UNCHANGED files

\* A plausible slip: the error path leaves without the unlock.
BugCleanup(c) == at[c] = "cleanup" /\ Goto(c, "idle") /\ UNCHANGED <<files, synced>>

\* After an error the temporary file is closed and removed.
Cleanup(c) == at[c] = "cleanup" /\ Fails(c) /\ UNCHANGED files
------------------------------------------------------------------------------
\* NewJSONStore: a file that does not decode ends the start-up.
Load ==
  /\ phase = "off"
  /\ file # Torn
  /\ mem' = file
  /\ phase' = "loaded"
  /\ UNCHANGED <<files, writer, calls>>

\* The process dies; what the system has of the files is safe.
Crash == phase # "off" /\ ProcessEnds /\ UNCHANGED files

\* The system writes the directory out.
Flush ==
  /\ flushed
  /\ onPlatter' = file
  /\ UNCHANGED <<mem, file, before, flushed, writer, calls, phase>>

\* The machine loses power: the directory may still name the older file, and a
\* file whose bytes were not flushed may be cut off.
PowerLoss ==
  /\ ProcessEnds
  /\ file' \in {onPlatter, IF flushed THEN file ELSE Torn}
  /\ before' = Empty
  /\ flushed' = TRUE
  /\ onPlatter' = IF file' = Torn THEN onPlatter ELSE file'
------------------------------------------------------------------------------
\* A write that has begun goes on: a system call returns, with or without error.
Writing(c) == \/ CreateTemp(c) \/ WriteTemp(c) \/ SyncTemp(c)
              \/ Rename(c) \/ Finish(c) \/ Cleanup(c)

Next == \/ \E c \in Callers : Create(c) \/ Update(c) \/ Recover(c) \/ Writing(c)
        \/ Load \/ Crash \/ Flush \/ PowerLoss

Spec == Init /\ [][Next]_vars

FairSpec == Spec /\ \A c \in Callers : WF_vars(Writing(c))
------------------------------------------------------------------------------
\* jobs.json always decodes, whatever step a crash or a power loss interrupts:
\* the file is whole and flushed before it gets its name (json_store.go:247-259).
FileIsWhole == file # Torn

\* Until its write has reported, a renamed file does not count.
Reported == IF writer \in Callers /\ at[writer] = "renamed" THEN before ELSE file

\* Interleaved writes, failed steps, crashes, power losses and restarts come down to
\* whole writes, one after the other: none is lost in the memory, none shows there
\* that was answered with an error, and the file is at most one write away from it,
\* or after a power loss the one last written out
\* (the lock of json_store.go:82 and 112, the order of 93-96).
Store == INSTANCE AtomicStore WITH Nothing <- "absent", disk <- Reported, durable <- onPlatter
ImplementsAtomicStore == Store!Spec

\* The lock comes back from every write, whichever of its steps fails
\* (json_store.go:209-263 under the deferred unlocks of its callers).
LockIsReleased == (writer # Nobody) ~> (writer = Nobody)
==============================================================================
