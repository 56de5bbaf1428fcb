-------------------------- MODULE MCAdaptiveBitrate --------------------------
(***************************************************************************)
(* Instances of AdaptiveBitrate for TLC: the numbers are in the .cfg files.  *)
(***************************************************************************)
EXTENDS AdaptiveBitrate
=============================================================================
