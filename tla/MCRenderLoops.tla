--------------------------- MODULE MCRenderLoops ---------------------------
(* Six items, so that the progressive order is not a square and a batch is *)
(* cut short at the end; two CPU threads and the GPU thread.               *)
EXTENDS RenderLoops
=============================================================================
