---------------------------- MODULE MCPowerLosses ----------------------------
(* PowerLosses on small instances. *)
EXTENDS PowerLosses
==============================================================================
