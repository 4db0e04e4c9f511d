-------------------------- MODULE MCPrintAdapter --------------------------
(* PrintAdapter on small instances. *)
EXTENDS PrintAdapter
==============================================================================
