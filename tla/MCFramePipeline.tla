--------------------------- MODULE MCFramePipeline ---------------------------
(***************************************************************************)
(* Instances of FramePipeline for TLC.  "portrait" is "landscape" turned:   *)
(* a different resolution with a framebuffer of the same length.            *)
(***************************************************************************)
EXTENDS FramePipeline

MCArea == [s \in Sizes |-> IF s = "large" THEN 4 ELSE 2]

=============================================================================
