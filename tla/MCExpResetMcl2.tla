------------------------------ MODULE MCExpResetMcl2 ------------------------------
(* Values for the constants of ExpResetMcl2.  A turn has six directions.    *)
(* The scans: one that favours a heading strongly, one that favours it     *)
(* weakly, one that a wall contradicts for every heading but one, one that *)
(* no particle explains, and one without a valid beam.                     *)
EXTENDS ExpResetMcl2

Pose2(x, t) == [x |-> x, t |-> t]
Seen(like, wrong) == [valid |-> TRUE, likelihood |-> like, through |-> wrong]

MCScans ==
    {Seen([d \in Direction |-> IF d = 4 THEN 6 ELSE 1], {}),
     Seen([d \in Direction |-> IF d = 3 THEN 0 ELSE 2], Direction \ {4}),
     Seen([d \in Direction |-> IF d \in {0, 1} THEN 1 ELSE 0], {2, 3}),
     [valid |-> FALSE, likelihood |-> [d \in Direction |-> 0], through |-> {}]}

MCInitPoses == {Pose2(0, 3)}
MCFreePoses == {Pose2(0, -3), Pose2(1, 2), Pose2(10, 0)}
MCNoises == {Pose2(1, 0), Pose2(1, 1)}
MCDrags == {Pose2(-1, -5)}
MCSpread == {Pose2(-1, 1), Pose2(0, -1)}
MCThreshold == <<1, 2>>
=============================================================================
