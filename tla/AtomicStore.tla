----------------------------- MODULE AtomicStore -----------------------------
(***************************************************************************)
(* What the job store promises its callers: each write changes one value   *)
(* (or, at start-up, settles all of them) at once, in memory and in the    *)
(* file.  A write that reports an error may have reached the file, never   *)
(* the memory; and when the process dies the file holds the outcome of     *)
(* whole writes, with the last one perhaps not yet reported.  A power loss *)
(* brings back that file or the last one the system has written out.       *)
(*                                                                         *)
(* JSONStore implements this specification step by step.  PrintPipeline    *)
(* and PowerLosses have the store in the form described here, one action   *)
(* per outcome of a write and one for each kind of loss.                   *)
(***************************************************************************)
CONSTANTS
  Ids,
  Nothing,     \* the value of an ID without a job; no write stores it
  Settled(_)   \* what the start-up makes of a value

VARIABLES
  mem,
  disk,
  durable   \* the file a power loss can bring back

vars == <<mem, disk, durable>>

Empty == [i \in Ids |-> Nothing]

Init == mem = Empty /\ disk = Empty /\ durable = Empty

\* A collection a write may produce from the one in memory.
Written(new) ==
  \/ \E i \in Ids : new[i] # Nothing /\ new = [mem EXCEPT ![i] = new[i]]
  \/ new = [i \in Ids |-> Settled(mem[i])]

Commit == Written(mem') /\ disk' = mem' /\ durable' \in {durable, disk'}

Late == Written(disk') /\ durable' \in {durable, disk'} /\ UNCHANGED mem

Flush == (durable' = disk \/ Written(durable')) /\ UNCHANGED <<mem, disk>>

Die == mem' = Empty /\ (disk' = disk \/ Written(disk')) /\ durable' \in {durable, disk'}

PowerLoss ==
  /\ mem' = Empty
  /\ disk' \in {disk, durable} \/ Written(disk')
  /\ durable' = disk'

Load == mem = Empty /\ mem' = disk /\ UNCHANGED <<disk, durable>>

Next == Commit \/ Late \/ Flush \/ Die \/ PowerLoss \/ Load

Spec == Init /\ [][Next]_vars
==============================================================================
