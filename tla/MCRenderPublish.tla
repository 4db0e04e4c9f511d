-------------------------- MODULE MCRenderPublish --------------------------
(* RenderPublish on small instances. *)
EXTENDS RenderPublish, TLC

ReaderSymmetry == Permutations(Readers)
==============================================================================
