---------------------------------- MODULE Particle ----------------------------------
(***************************************************************************)
(* One particle judged by one scan: wallConflict(), isPenetrating(),       *)
(* sensorReset() and likelihood() (src/src/Particle.cpp), with the parts   *)
(* of the scan they read (src/src/Scan.cpp).                               *)
(*                                                                         *)
(* A direction is a 16 bit word in the code and a quarter of a turn here,  *)
(* so that a beam goes along a row or a column; sums of directions wrap in *)
(* both.  wallConflict() is a walk over the beams, one step for each.  The *)
(* range of a beam is chosen when the walk comes to it: nothing read       *)
(* before depends on it.                                                   *)
(***************************************************************************)
EXTENDS LikelihoodFieldMap, Sequences

CONSTANTS
    NumBeams,
    Ranges, NaN,    \* what a beam may report: numbers, and NaN
    RangeMin, RangeMax,
    Increments,     \* values of scan_increment
    Thresholds,     \* of range_threshold, in steps between beams
    SensorReset,
    Poses,          \* of the particle: [x, y, t]
    LidarX, LidarYaw,   \* lidar_pose_x_, lidar_pose_yaw_; lidar_pose_y_ is zero
    Unread          \* the range of a beam not yet read

ASSUME BeamsAssumption ==
    /\ NumBeams \in Nat /\ Increments \subseteq Nat \ {0} /\ Thresholds \subseteq Nat
    /\ Ranges \subseteq Nat \cup {NaN} /\ NaN \notin Nat
    /\ Unread \notin Nat \cup {NaN}
    /\ RangeMin \in Nat /\ RangeMax \in Nat
    /\ SensorReset \in BOOLEAN
ASSUME PosesAssumption ==
    /\ Poses \subseteq [x : Int, y : Int, t : 0 .. 3]
    /\ LidarX \in Int /\ LidarYaw \in Int

VARIABLES
    pose,
    ranges,         \* the scan, as far as read
    walk,           \* the parameters of this walk, and its order
    at,             \* beams walked over
    hit_counter,
    first, last,    \* first beam of the run, and the beam last judged
    verdict

walkVars == <<pose, ranges, walk, at, hit_counter, first, last, verdict>>
vars == <<field, walkVars>>

Beam == 0 .. NumBeams - 1
Turn == 0 .. 3      \* the 16 bit word, with a quarter turn as its unit

Cos(a) == <<1, 0, -1, 0>>[a + 1]
Sin(a) == <<0, 1, 0, -1>>[a + 1]

Valid(r) == r # NaN /\ RangeMin <= r /\ r <= RangeMax

(* directions_16bit_, for a lidar mounted upright.                         *)
DirectionOf(i) == i % 4

LidarAt(p) == <<p.x + LidarX * Cos(p.t), p.y + LidarX * Sin(p.t)>>
BeamDirection(p, i) == (DirectionOf(i) + p.t + LidarYaw) % 4

PointAt(o, d, a) == <<o[1] + d * Cos(a), o[2] + d * Sin(a)>>
FieldAt(q) == LikelihoodAt(q[1], q[2])

EndPoint(p, i, r) == PointAt(LidarAt(p), r, BeamDirection(p, i))

-----------------------------------------------------------------------------
(* The points of a beam that isPenetrating() looks at: every Resolution    *)
(* from the lidar, short of the measured range.                            *)
Steps(range) == {d \in 1 .. range - 1 : d % Resolution = 0}

(* The first wall point of the beam, and whether open space comes after it. *)
Hits(o, range, a) == {d \in Steps(range) : FieldAt(PointAt(o, d, a)) = 255}
FirstHit(o, range, a) == PointAt(o, Min(Hits(o, range, a)), a)

OpenAfterHit(o, range, a) ==
    /\ Hits(o, range, a) # {}
    /\ \E d \in Steps(range) :
        d > Min(Hits(o, range, a)) /\ FieldAt(PointAt(o, d, a)) = 0

(* Variants with a bug: the point where the beam ends is looked at too; the *)
(* end of the beam is never tested.                                        *)
IsPenetratingToTheEnd(o, range, a, endpoint_check) ==
    /\ OpenAfterHit(o, range + 1, a)
    /\ endpoint_check => FieldAt(PointAt(o, range, a)) # 255

IsPenetratingUnchecked(o, range, a, endpoint_check) == OpenAfterHit(o, range, a)

IsPenetrating(o, range, a, endpoint_check) ==
    /\ OpenAfterHit(o, range, a)
    /\ endpoint_check => FieldAt(PointAt(o, range, a)) # 255

(* A variant with a bug: the walk from the far end begins at the size.      *)
OrderFromSize(coin, inc) ==
    LET n == (NumBeams + inc - 1) \div inc
    IN  [k \in 1 .. n |-> IF coin THEN (k - 1) * inc ELSE NumBeams - (k - 1) * inc]

(* The beams that are walked over, from one end or from the other.         *)
Order(coin, inc) ==
    LET n == (NumBeams + inc - 1) \div inc
    IN  [k \in 1 .. n |-> IF coin THEN (k - 1) * inc ELSE NumBeams - 1 - (k - 1) * inc]

-----------------------------------------------------------------------------
NoBeam == [range |-> 0, dir |-> 0, hit |-> <<0, 0>>]

Init ==
    /\ FieldInit
    /\ pose \in Poses
    /\ ranges = [i \in Beam |-> Unread]
    /\ walk = [order |-> <<>>, endpoint_check |-> FALSE, threshold |-> 0]
    /\ at = 0
    /\ hit_counter = 0
    /\ first = NoBeam /\ last = NoBeam
    /\ verdict = "none"

TypeOK ==
    /\ FieldTypeOK
    /\ pose \in [x : Int, y : Int, t : Turn]
    /\ ranges \in [Beam -> Ranges \cup {Unread}]
    /\ \A k \in DOMAIN walk.order : walk.order[k] \in Beam
    /\ at \in 0 .. Len(walk.order)
    /\ hit_counter \in 0 .. at
    /\ verdict \in {"none", "walking", "conflict", "clear"}

WallConflict ==
    /\ Built /\ verdict = "none"
    /\ \E coin, endpoint_check \in BOOLEAN, inc \in Increments, threshold \in Thresholds :
          walk' = [order |-> Order(coin, inc), endpoint_check |-> endpoint_check,
                   threshold |-> threshold]
    /\ verdict' = "walking"
    /\ UNCHANGED <<field, pose, ranges, at, hit_counter, first, last>>

(* How far the point halfway between the ends of two beams, seen from o, is *)
(* beyond the point halfway between the walls they crossed.                *)
End(o, b) == PointAt(o, b.range, b.dir)
Beyond(o, b1, b2) ==
    [c \in {1, 2} |-> (End(o, b1)[c] + End(o, b2)[c]) \div 2
                     - (b1.hit[c] + b2.hit[c]) \div 2]

(* A variant with a bug: the pose is pushed on instead of dragged back.    *)
PushedOn(p, b1, b2) ==
    LET beyond == Beyond(LidarAt(p), b1, b2)
    IN  [p EXCEPT !.x = @ + beyond[1], !.y = @ + beyond[2]]

DraggedBack(p, b1, b2) ==
    LET beyond == Beyond(LidarAt(p), b1, b2)
    IN  [p EXCEPT !.x = @ - beyond[1], !.y = @ - beyond[2]]

(* A variant with a bug: a beam that does not penetrate leaves the run.    *)
CountedOn(through) == IF through THEN hit_counter + 1 ELSE hit_counter

Counted(through) == IF through THEN hit_counter + 1 ELSE 0

(* The step of a valid beam.  sensorReset() also turns the heading by the   *)
(* angle between two lines, which may be any; by none if the two beams are *)
(* one.                                                                    *)
Judge(i, r) ==
    LET o == LidarAt(pose)
        a == BeamDirection(pose, i)
        through == IsPenetrating(o, r, a, walk.endpoint_check)
    IN  /\ hit_counter' = Counted(through)
        /\ last' = [range |-> r, dir |-> a,
                    hit |-> IF Hits(o, r, a) = {} THEN <<0, 0>> ELSE FirstHit(o, r, a)]
        /\ first' = IF through /\ hit_counter = 0 THEN last' ELSE first
        /\ IF hit_counter' >= walk.threshold
           THEN /\ verdict' = "conflict"
                /\ IF SensorReset
                   THEN \E t \in Turn :
                          /\ pose' = [DraggedBack(pose, first', last') EXCEPT !.t = t]
                          /\ first' = last' => t = pose.t
                   ELSE UNCHANGED pose
           ELSE UNCHANGED <<pose, verdict>>

(* One round of the loop over the beams.                                   *)
NextBeam ==
    LET i == walk.order[at + 1] IN
    /\ verdict = "walking" /\ at < Len(walk.order)
    /\ at' = at + 1
    /\ \E r \in Ranges :
          /\ ranges' = [ranges EXCEPT ![i] = r]
          /\ IF Valid(r) THEN Judge(i, r)
             ELSE UNCHANGED <<pose, hit_counter, first, last, verdict>>
    /\ UNCHANGED <<field, walk>>

NoConflict ==
    /\ verdict = "walking" /\ at = Len(walk.order)
    /\ verdict' = "clear"
    /\ UNCHANGED <<field, pose, ranges, walk, at, hit_counter, first, last>>

Next ==
    \/ Visit /\ UNCHANGED walkVars
    \/ WallConflict
    \/ NextBeam
    \/ NoConflict

Spec == Init /\ [][Next]_vars
-----------------------------------------------------------------------------
(* What a beam crosses, by the cells of the grid: a wall, then a cell no   *)
(* wall is near, or the outside, before the measured range; and, with the  *)
(* endpoint check, it does not end on a wall.                              *)
CellsAt(q) == {k \in Cells : CellX(k) = q[1] \div Resolution /\ CellY(k) = q[2] \div Resolution}
WallAt(q) == \E k \in CellsAt(q) : Occupied(map.data[k])
OpenAt(q) == \A k \in CellsAt(q), l \in Cells :
                Occupied(map.data[l]) => KingSteps(k, l) >= CellNum

Crosses(o, r, a) ==
    \E m, n \in 1 .. r :
        /\ m < n /\ n * Resolution < r
        /\ WallAt(PointAt(o, m * Resolution, a)) /\ OpenAt(PointAt(o, n * Resolution, a))

(* The field and what is drawn from it, as the constructor leaves them;    *)
(* nothing changes them later.                                             *)
FieldIsOfNearestWall == verdict = "none" => LikelihoodIsOfNearestWall
ScatterIsFree == verdict = "none" /\ Built => DrawnAreFree

(* isPenetrating() finds in the likelihood field exactly the beams that    *)
(* cross a wall and come out in the open; one that ends on a mapped wall   *)
(* is excused when the robustness to phantom obstacles is on.              *)
PenetrationIsCrossing ==
    Built /\ verdict = "none" =>
        \A r \in 1 .. RangeMax, a \in Turn, endpoint_check \in BOOLEAN :
            LET o == LidarAt(pose) IN
            IsPenetrating(o, r, a, endpoint_check) =
                (Crosses(o, r, a) /\ (endpoint_check => ~WallAt(PointAt(o, r, a))))

-----------------------------------------------------------------------------
Finishing == verdict = "walking" /\ verdict' = "conflict"

ReadBeams(rs) == {i \in Beam : rs[i] # Unread /\ Valid(rs[i])}

Through(i, r) ==
    IsPenetrating(LidarAt(pose), r, BeamDirection(pose, i), walk.endpoint_check)

(* Beams of the scan, none of those read left out between them, that all   *)
(* penetrate and are enough.                                               *)
Run(rs) ==
    \E beams \in SUBSET ReadBeams(rs) :
        /\ \A i \in beams : Through(i, rs[i])
        /\ \A i, k \in beams, j \in ReadBeams(rs) : i < j /\ j < k => j \in beams
        /\ Cardinality(beams) >= walk.threshold

(* wallConflict() answers yes as soon as the beams read hold such a run,   *)
(* and no if all of them hold none, from whichever end it walks: when no   *)
(* beam is left out by scan_increment, the coin does not decide.           *)
ConflictIsARun ==
    [][verdict = "walking" =>
        (verdict' = "conflict" <=> ReadBeams(ranges') # {} /\ Run(ranges'))]_vars

(* likelihood(): the sum over the beams of the field at their ends.        *)
Likelihood(p, rs, beams) ==
    SumFunctionOnSet([i \in beams |-> FieldAt(EndPoint(p, i, rs[i]))], beams)

(* With the robustness to phantom obstacles on, a pose that puts every     *)
(* beam read on a mapped wall, and so has the highest likelihood there is, *)
(* is never judged wrong.                                                  *)
PerfectFitIsKept ==
    [][Finishing /\ walk.endpoint_check /\ walk.threshold > 0 =>
        Likelihood(pose, ranges', ReadBeams(ranges')) < 255 * Cardinality(ReadBeams(ranges'))]_vars

(* The sensor reset never puts the ends of the two beams further from the  *)
(* walls they crossed, taken together, and puts the end of a single beam   *)
(* on the wall: the particle is "dragged back from occupied cells", as the *)
(* README says.  Turning the heading is left out.                          *)
Gap(b, move) ==
    LET e == End(LidarAt(pose), b) IN <<e[1] + move[1] - b.hit[1], e[2] + move[2] - b.hit[2]>>
Mismatch(move) ==
    LET square(v) == v[1] * v[1] + v[2] * v[2]
    IN  square(Gap(first', move)) + square(Gap(last', move))

DragImproves ==
    [][Finishing /\ SensorReset /\ hit_counter' > 0 =>
        LET move == <<pose'.x - pose.x, pose'.y - pose.y>> IN
        /\ Mismatch(move) <= Mismatch(<<0, 0>>)
        /\ hit_counter' = 1 => Mismatch(move) = 0]_vars
=============================================================================
