---------------------------- MODULE MCSeatInput ----------------------------
(***************************************************************************)
(* SeatInput on a small instance, with queues of one event: gestures of two  *)
(* fingers, a key and two buttons, on two windows that may lock or confine   *)
(* the pointer.                                                              *)
(***************************************************************************)
EXTENDS SeatInput
=============================================================================
