----------------------------- MODULE MCWindows -----------------------------
(***************************************************************************)
(* Windows on small instances: two surfaces that may come and go, two sizes  *)
(* and two scales.                                                           *)
(***************************************************************************)
EXTENDS Windows, TLC

SurfaceSymmetry == Permutations(Surfaces)
=============================================================================
