----------------------------- MODULE PowerLosses -----------------------------
(***************************************************************************)
(* PrintPipeline on a machine that can lose its power.  A write flushes    *)
(* its temporary file before the rename, but not the directory, so the     *)
(* loss may bring back an earlier jobs.json: a whole one, from before the  *)
(* last writes (AtomicStore.PowerLoss, which JSONStore implements).  The   *)
(* agent then starts on records that are older than what it told its       *)
(* clients and what the spooler has taken.                                 *)
(***************************************************************************)
EXTENDS PrintPipeline

CONSTANT MaxLosses  \* bound: how often the power is lost

ASSUME LossesAssumption == MaxLosses \in Nat

VARIABLES
  durable,  \* the jobs.json that a power loss leaves
  undone,   \* history: jobs whose record a power loss took back, until asked for again
  losses    \* how often the power has been lost

powerVars == <<vars, durable, undone, losses>>

PowerInit == Init /\ durable = disk /\ undone = {} /\ losses = 0

\* The file that a power loss leaves after a step.  A new one is written out before the
\* loss, or before the next one is there, or else it is passed over: that is decided
\* when it is made.  Once no loss is to come it makes no difference.
WrittenOut ==
  IF losses = MaxLosses THEN {disk'}
  ELSE IF disk' = disk THEN {durable}
  ELSE {durable, disk'}

\* A retry has reached the file: from here on the job is asked for anew.
Asked(i) == disk[i].status = "failed" /\ disk'[i].status = "queued"

\* A step of the pipeline.
PoweredStep ==
  /\ Next
  /\ durable' \in WrittenOut
  /\ undone' = {i \in undone : ~Asked(i)}
  /\ UNCHANGED losses

\* The power is lost.  A job with an older record has lost its place in the line.
PowerLoss ==
  /\ losses < MaxLosses /\ losses' = losses + 1
  /\ ProcessEnds
  /\ disk' = durable
  /\ undone' = undone \cup {i \in Ids : disk[i] # durable[i]}
  /\ line' = {p \in line : \A i \in {p[1], p[2]} : disk[i] = durable[i]}
  /\ UNCHANGED <<durable, sent>>

PowerNext == PoweredStep \/ PowerLoss

\* The fairness of the pipeline; nothing makes the power fail, or stay.
PowerSpec == PowerInit /\ [][PowerNext]_powerVars
FairPowerSpec == PowerSpec /\ Fairness
------------------------------------------------------------------------------
\* A power loss harms no job but those whose own record it took back.  All others, though
\* they are written with the same files, are handed over once per request, their outcome
\* is true, and what was accepted and not started still waits; and a job that was taken
\* back is one of them again as soon as an operator's retry has reached the file
\* (json_store.go:209-261, 171-207, service.go:165-245).
OnlyUndoneAreHarmed ==
  \A i \in Ids \ undone :
    /\ sent[i] =< 1
    /\ \A job \in {Shown[i], disk[i]} :
         /\ job.status = "succeeded" => sent[i] = 1
         /\ job.error = "RENDER_FAILED" => sent[i] = 0
    /\ i \in InLine => disk[i].status \in {"queued", "rendering"}
==============================================================================
