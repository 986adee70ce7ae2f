-------------------------- MODULE MCCameraService ---------------------------
(***************************************************************************)
(* Instances of CameraService for TLC.  Cameras whose descriptors the HAL  *)
(* accepts are interchangeable.                                            *)
(***************************************************************************)
EXTENDS CameraService, TLC

Interchangeable == Permutations(Valid)
=============================================================================
