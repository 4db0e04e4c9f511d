---------------------------- MODULE PrintPromise ----------------------------
(***************************************************************************)
(* What Print promises the worker: during one call the spooler takes the   *)
(* document at most once; success means that it took it; an error says     *)
(* nothing about it.  PrintAdapter implements this specification, and the  *)
(* outcomes it allows are those PrintPipeline works with.                  *)
(***************************************************************************)
VARIABLES
  taken,   \* the spooler has taken the document of this call
  result   \* "none" while Print runs, then "ok" or "failed"

Init == taken = FALSE /\ result = "none"

Take == result = "none" /\ ~taken /\ taken' = TRUE /\ UNCHANGED result

Return == /\ result = "none"
          /\ result' \in (IF taken THEN {"ok", "failed"} ELSE {"failed"})
          /\ UNCHANGED taken

Call == result # "none" /\ taken' = FALSE /\ result' = "none"

Next == Take \/ Return \/ Call

Spec == Init /\ [][Next]_<<taken, result>>
==============================================================================
