---------------------------- MODULE MCRenderJob ----------------------------
(* Instances of RenderJob for TLC. *)
EXTENDS RenderJob, TLC

Interchangeable == Permutations(Workers)
============================================================================
