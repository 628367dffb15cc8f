---------------------------- MODULE MCRefreshRate ----------------------------
(* Instances of RefreshRate for TLC.                                       *)
EXTENDS RefreshRate, TLC

CONSTANTS eth0, wlan0
=============================================================================
