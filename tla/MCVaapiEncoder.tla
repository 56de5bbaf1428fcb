--------------------------- MODULE MCVaapiEncoder ----------------------------
(***************************************************************************)
(* VaapiEncoder on a small instance: two targets, a queue of four frames,   *)
(* and three builds of which any step may fail.                             *)
(***************************************************************************)
EXTENDS VaapiEncoder
==============================================================================
