----------------------------- MODULE MCJSONStore -----------------------------
(* JSONStore on small instances. *)
EXTENDS JSONStore
==============================================================================
