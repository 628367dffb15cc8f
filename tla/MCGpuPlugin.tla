----------------------------- MODULE MCGpuPlugin -----------------------------
(* Instances of GpuPlugin for TLC.                                         *)
EXTENDS GpuPlugin

CONSTANTS card1, card2, usage, power, video
=============================================================================
