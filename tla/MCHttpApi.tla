------------------------------ MODULE MCHttpApi -----------------------------
(* HttpApi and what it is made of on small instances. *)
EXTENDS HttpApi
==============================================================================
