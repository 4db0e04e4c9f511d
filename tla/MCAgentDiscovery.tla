-------------------------- MODULE MCAgentDiscovery --------------------------
(* AgentDiscovery on small instances. *)
EXTENDS AgentDiscovery
==============================================================================
