--------------------------------- MODULE MCParticle ---------------------------------
(* Values for the constants of Particle.  The lidar of the particle is in   *)
(* the cell (2, 2) of a grid of six by five; the cells before it, to its   *)
(* left and behind it are each free or occupied, the corners unknown.      *)
EXTENDS Particle

Grid == 0 .. 29
Arms == {15, 16, 17, 20, 26, 13}
Corner == {0, 5, 24, 29}

DataOf(walls) ==
    [k \in Grid |-> IF k \in walls THEN 51 ELSE IF k \in Corner THEN -1
                    ELSE IF k \in Arms THEN 50 ELSE 0]

Grids(arms, reach) ==
    {[width |-> 6, height |-> 5, data |-> DataOf(walls), range |-> reach] :
        walls \in SUBSET arms}

MCMaps == Grids(Arms, 4) \cup Grids({15, 17, 20, 26}, 7)

MCPoses == {[x |-> 10, y |-> 14, t |-> 3]}
=============================================================================
