-------------------------- MODULE MCAgentLifecycle --------------------------
(* AgentLifecycle on small instances. *)
EXTENDS AgentLifecycle
==============================================================================
