--------------------------- MODULE MCCameraTools ---------------------------
(* CameraTools on a handful of getUserMedia calls.                         *)
EXTENDS CameraTools, TLC

Symmetry == Permutations(Requests)
=============================================================================
