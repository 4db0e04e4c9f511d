---------------------------- MODULE MCWebConsole ----------------------------
(* WebConsole on small instances. *)
EXTENDS WebConsole
==============================================================================
