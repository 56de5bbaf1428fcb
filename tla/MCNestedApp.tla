---------------------------- MODULE MCNestedApp ----------------------------
(***************************************************************************)
(* NestedApp on small instances: connections that race to start the          *)
(* application, and a few copies on either side of the bridge.               *)
(***************************************************************************)
EXTENDS NestedApp
=============================================================================
