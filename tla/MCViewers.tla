------------------------------ MODULE MCViewers ------------------------------
(***************************************************************************)
(* Viewers on small instances: queues of one packet and two buffers, so that *)
(* all fill up at times; three pictures for a page and two for a native      *)
(* client.                                                                  *)
(***************************************************************************)
EXTENDS Viewers
==============================================================================
