------------------------------ MODULE MCEMcl2Node ------------------------------
(* Values for the constants of EMcl2Node.  Two maps, so that a map can be   *)
(* replaced; readings less than Eps and exactly Eps apart, in both         *)
(* directions.                                                              *)
EXTENDS EMcl2Node, TLC

CONSTANTS room, hall

MCMaps == {room, hall}
MCFreeCells == (room :> 1) @@ (hall :> 2)
MCReadings == {0, 1, 2}
=============================================================================
