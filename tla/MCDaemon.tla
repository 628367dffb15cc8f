------------------------------ MODULE MCDaemon ------------------------------
(* Instances of Daemon for TLC.                                            *)
EXTENDS Daemon, TLC

CONSTANTS a, b, obj1, obj2, id1

(* A volume that is remounted: two SensorObjects, one id.                  *)
SharedIdOf == obj1 :> id1 @@ obj2 :> id1

OneIdOf == obj1 :> id1

ClientSymmetry == Permutations(Clients)
=============================================================================
