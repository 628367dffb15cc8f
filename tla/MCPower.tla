------------------------------- MODULE MCPower -------------------------------
(* Instances of Power for TLC.                                             *)
EXTENDS Power

CONSTANTS bat1, bat2, serial1, serial2

OwnSerials == [b \in Batteries |-> IF b = bat1 THEN serial1 ELSE serial2]
=============================================================================
