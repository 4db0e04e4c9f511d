--------------------------- MODULE MCPrintPipeline ---------------------------
(* PrintPipeline on small instances. *)
EXTENDS PrintPipeline, TLC

\* Clients differ by their names only.
ClientSymmetry == Permutations(Clients)
==============================================================================
