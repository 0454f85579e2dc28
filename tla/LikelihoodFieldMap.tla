---------------------------- MODULE LikelihoodFieldMap ----------------------------
(***************************************************************************)
(* The likelihood field built from an occupancy grid                       *)
(* (src/src/LikelihoodFieldMap.cpp, include/emcl2/LikelihoodFieldMap.hpp). *)
(* The constructor goes over the cells one by one; around an occupied cell *)
(* it raises the likelihoods of the cells in reach.                        *)
(*                                                                         *)
(* Lengths are integers, Resolution of them to a cell; the origin of the   *)
(* map is at zero.  Cells are kept under their index in the array of the   *)
(* message, x + y * width, as in the code.                                 *)
(***************************************************************************)
EXTENDS Integers, FiniteSets, FiniteSetsExt, Functions

CONSTANTS
    Maps,           \* [width, height, data, range]: grids with their likelihood_range
    Resolution      \* length of the side of a cell

ASSUME ResolutionAssumption == Resolution \in Nat \ {0}
ASSUME MapsAssumption ==
    \A m \in Maps :
        /\ m.width \in Nat \ {0} /\ m.height \in Nat \ {0} /\ m.range \in Nat
        /\ m.data \in [0 .. m.width * m.height - 1 -> -1 .. 100]

VARIABLES
    map,
    likelihoods, free_cells,
    visited         \* cells the constructor has gone over

field == <<map, likelihoods, free_cells, visited>>

Distance(a, b) == IF a < b THEN b - a ELSE a - b
Smaller(a, b) == IF a < b THEN a ELSE b

Flat(x, y) == x + y * map.width
CellX(k) == k % map.width
CellY(k) == k \div map.width
Cells == DOMAIN map.data

Occupied(v) == v > 50

(* Variants with a bug: an unknown cell, -1, counts as free.               *)
FreeOrUnknown(v) == v <= 50

Free(v) == 0 <= v /\ v <= 50

CellNum == Max({1, (map.range + Resolution - 1) \div Resolution})
WeightAt(i) == (255 * (CellNum - i)) \div CellNum

Square == (-CellNum .. CellNum) \X (-CellNum .. CellNum)

(* A variant with a bug: one column too many is let through, and ends up   *)
(* at the beginning of the next row.                                       *)
TouchedPastTheEdge(x, y) ==
    {o \in Square : /\ 0 <= x + o[1] /\ x + o[1] <= map.width
                    /\ 0 <= y + o[2] /\ y + o[2] < map.height}

(* The offsets of the cells within reach of (x, y) and inside the map.     *)
Touched(x, y) ==
    {o \in Square : /\ 0 <= x + o[1] /\ x + o[1] < map.width
                    /\ 0 <= y + o[2] /\ y + o[2] < map.height}

SetLikelihood(x, y) ==
    [k \in Cells |->
        Max({likelihoods[k]} \cup
            {Smaller(WeightAt(Distance(o[1], 0)), WeightAt(Distance(o[2], 0))) :
                o \in {p \in Touched(x, y) : Flat(x + p[1], y + p[2]) = k}})]

FieldInit ==
    /\ map \in Maps
    /\ likelihoods = [k \in Cells |-> 0]
    /\ free_cells = {}
    /\ visited = 0

(* One round of the two loops: column by column.                           *)
Visit ==
    LET x == visited \div map.height
        y == visited % map.height
        v == map.data[Flat(x, y)]
    IN  /\ visited < map.width * map.height
        /\ likelihoods' = IF Occupied(v) THEN SetLikelihood(x, y) ELSE likelihoods
        /\ free_cells' = IF Free(v) THEN free_cells \cup {<<x, y>>} ELSE free_cells
        /\ visited' = visited + 1
        /\ UNCHANGED map

Built == visited = map.width * map.height

-----------------------------------------------------------------------------
(* A variant with a bug: the bounds are tested after the conversion to an  *)
(* integer, which cuts off towards zero.                                   *)
LikelihoodAliasing(x, y) ==
    LET cut(a) == IF a < 0 THEN -((-a) \div Resolution) ELSE a \div Resolution
    IN  IF cut(x) < 0 \/ cut(y) < 0 \/ cut(x) >= map.width \/ cut(y) >= map.height THEN 0
        ELSE likelihoods[Flat(cut(x), cut(y))]

LikelihoodAt(x, y) ==
    IF \/ x < 0 \/ x >= map.width * Resolution
       \/ y < 0 \/ y >= map.height * Resolution
    THEN 0
    ELSE likelihoods[Flat(x \div Resolution, y \div Resolution)]

(* drawFreePoses(num): the cells are drawn without replacement, the pose is *)
(* anywhere in its cell, the heading is any.                               *)
ChosenCells(num) ==
    {c \in [1 .. Smaller(num, Cardinality(free_cells)) -> free_cells] : IsInjective(c)}

PoseIn(c, offset) ==
    <<c[1] * Resolution + offset[1], c[2] * Resolution + offset[2]>>

-----------------------------------------------------------------------------
(* How far a cell is from an occupied one, in steps of a king; the cells   *)
(* the constructor has gone over.                                          *)
KingSteps(k, l) == Max({Distance(CellX(k), CellX(l)), Distance(CellY(k), CellY(l))})
GoneOver == {k \in Cells : CellX(k) * map.height + CellY(k) < visited}

NearestWall(k) ==
    LET steps == {KingSteps(k, l) : l \in {w \in GoneOver : Occupied(map.data[w])}}
    IN  IF steps = {} \/ Min(steps) > CellNum THEN 0 ELSE WeightAt(Min(steps))

Corners == {0, Resolution - 1} \X {0, Resolution - 1}

FieldTypeOK ==
    /\ map \in Maps
    /\ likelihoods \in [Cells -> 0 .. 255]
    /\ free_cells \subseteq (0 .. map.width - 1) \X (0 .. map.height - 1)
    /\ visited \in 0 .. map.width * map.height

(* Whatever the order of the occupied cells, and however their squares     *)
(* overlap or stick out of the map, the likelihood at a point is that of   *)
(* the distance from its cell to the nearest occupied one gone over so     *)
(* far, and nothing outside the map: no point falls into a cell of another *)
(* row, or into cell zero from below.                                      *)
LikelihoodIsOfNearestWall ==
    LET nearest == [k \in Cells |-> NearestWall(k)] IN
    \A cell \in (-1 .. map.width) \X (-1 .. map.height), offset \in Corners :
        LET point == PoseIn(cell, offset) IN
        LikelihoodAt(point[1], point[2]) =
            IF cell \in (0 .. map.width - 1) \X (0 .. map.height - 1)
            THEN nearest[Flat(cell[1], cell[2])] ELSE 0

(* Every pose drawn for a scatter is in a cell known to be free, off every *)
(* wall, and no two are in one cell, wherever in their cells they fall.    *)
DrawnAreFree ==
    \A drawn \in ChosenCells(2) : \A i, j \in DOMAIN drawn, offset \in Corners :
        LET cell(n) == Flat(PoseIn(drawn[n], offset)[1] \div Resolution,
                            PoseIn(drawn[n], offset)[2] \div Resolution)
        IN  /\ map.data[cell(i)] \in 0 .. 50
            /\ LikelihoodAt(PoseIn(drawn[i], offset)[1], PoseIn(drawn[i], offset)[2]) < 255
            /\ cell(i) = cell(j) => i = j
=============================================================================
