--------------------------------- MODULE Mcl ---------------------------------
(***************************************************************************)
(* The particle filter object pf_ (classes Mcl and ExpResetMcl2) as the    *)
(* node sees it: a value, and one operator per public method.  An operator *)
(* that draws random numbers or reads the scan returns the set of the      *)
(* values the filter may have afterwards.                                  *)
(*                                                                         *)
(* A particle's pose is a requested pose displaced by odometry.  It is     *)
(* kept as the number of the request that placed it (from, 0 for the       *)
(* configured initial pose) and the odometric displacement applied since   *)
(* (off).  Readings of the odometry are integers along one axis: the three *)
(* coordinates of a Pose meet the same test and the same assignment.  The  *)
(* noise of the motion model and the displacements of the expansion and    *)
(* sensor resets are part of the pose's data and are left out of off.      *)
(* born is a history field: the last reading the filter had when the       *)
(* particle was placed, or the first it got afterwards.                    *)
(***************************************************************************)
EXTENDS Integers

CONSTANTS
    NumParticles,   \* parameter num_particles
    Readings,       \* the odometry readings that occur
    Eps,            \* the 0.001 of Pose::nearlyZero, in the unit of Readings
    NoOdom          \* last_odom_ and prev_odom_ before the first motionUpdate

ASSUME NumParticlesAssumption == NumParticles \in Nat \ {0}
ASSUME ReadingsAssumption == Readings \subseteq Int /\ NoOdom \notin Int
ASSUME EpsAssumption == Eps \in Nat \ {0}

Index == 1 .. NumParticles

Particle == [from : Nat, off : Int, born : Readings \cup {NoOdom}]

(* The fields of the object.  fresh abstracts processed_seq_ # scan_.seq_. *)
Filter(Maps) == [particles : [Index -> Particle],
                 last_odom : Readings \cup {NoOdom},
                 prev_odom : Readings \cup {NoOdom},
                 fresh     : BOOLEAN,
                 map       : Maps]

NewFilter(m) ==
    [particles |-> [i \in Index |-> [from |-> 0, off |-> 0, born |-> NoOdom]],
     last_odom |-> NoOdom,
     prev_odom |-> NoOdom,
     fresh     |-> TRUE,
     map       |-> m]

SetScan(f) == [f EXCEPT !.fresh = TRUE]
ClearProcessedScan(f) == [f EXCEPT !.fresh = TRUE]
SetMap(f, m) == [f EXCEPT !.map = m]

-----------------------------------------------------------------------------
(* Placing particles.  Neither method touches the odometry fields, so a    *)
(* particle placed now moves by what the odometry does after prev_odom_.   *)
(* That may be an older reading than last_odom_, which born records.       *)

Placed(f, r) == [from |-> r, off |-> 0, born |-> f.last_odom]

(* A variant with a bug, for the properties to find: the loop over the      *)
(* particles ends one too early.                                           *)
InitializeAllButLast(f, r) ==
    [f EXCEPT !.particles =
        [i \in Index |-> IF i < NumParticles THEN Placed(f, r) ELSE f.particles[i]]]

Initialize(f, r) == [f EXCEPT !.particles = [i \in Index |-> Placed(f, r)]]

(* drawFreePoses draws without replacement: at most one pose per free cell. *)
SimpleReset(f, r, free) ==
    [f EXCEPT !.particles =
        [i \in Index |-> IF i <= free THEN Placed(f, r) ELSE f.particles[i]]]

-----------------------------------------------------------------------------
NearlyZero(d) == -Eps < d /\ d < Eps

FirstReading(f, x) ==
    [f EXCEPT !.last_odom = x,
              !.prev_odom = x,
              !.particles = [i \in Index |-> [f.particles[i] EXCEPT !.born = x]]]

MoveAll(f, x) ==
    [f EXCEPT !.last_odom = x,
              !.prev_odom = x,
              !.particles = [i \in Index |->
                    [f.particles[i] EXCEPT !.off = @ + (x - f.prev_odom)]]]

(* Variants with a bug: a motion below the threshold is forgotten instead  *)
(* of put off; the difference is stored as the next reference.             *)
MotionUpdateForgetting(f, x) ==
    IF f.last_odom = NoOdom THEN FirstReading(f, x)
    ELSE IF NearlyZero(x - f.prev_odom)
         THEN [f EXCEPT !.last_odom = x, !.prev_odom = x]
    ELSE MoveAll(f, x)

MotionUpdateStoringDifference(f, x) ==
    IF f.last_odom = NoOdom THEN FirstReading(f, x)
    ELSE IF NearlyZero(x - f.prev_odom) THEN [f EXCEPT !.last_odom = x]
    ELSE [MoveAll(f, x) EXCEPT !.prev_odom = x - f.prev_odom]

MotionUpdate(f, x) ==
    IF f.last_odom = NoOdom THEN FirstReading(f, x)
    ELSE IF NearlyZero(x - f.prev_odom) THEN [f EXCEPT !.last_odom = x]
    ELSE MoveAll(f, x)

-----------------------------------------------------------------------------
(* resampling() walks the accumulated weights once, so the chosen indices  *)
(* never decrease; any such choice is that of some weights.  The identity  *)
(* is among them and stands for resetWeight(), which keeps every particle. *)
Chosen == {c \in [Index -> Index] : \A i, j \in Index : i <= j => c[i] <= c[j]}

Resample(f, c) == [f EXCEPT !.particles = [i \in Index |-> f.particles[c[i]]]]

(* Nothing happens on a scan already processed, nor when no beam is valid. *)
SensorUpdate(f) ==
    {f} \cup {[Resample(f, c) EXCEPT !.fresh = FALSE] :
                    c \in {ch \in Chosen : f.fresh}}

-----------------------------------------------------------------------------
(* The displacement applied to each particle is what the odometry moved    *)
(* from the last reading the filter had when it placed the particle to the *)
(* last it has now, but for two motions below the threshold: the one put   *)
(* off at the placement (early), which was made before it and is applied   *)
(* after it, and the one put off now (late).                               *)
Below == {d \in -Eps .. Eps : NearlyZero(d)}

Tracked(f) ==
    f.last_odom # NoOdom =>
        \A i \in Index :
            LET p == f.particles[i] IN
            /\ p.born # NoOdom
            /\ \E early, late \in Below :
                  p.off = early + (f.last_odom - p.born) - late

OneOrigin(f) == \A i, j \in Index : f.particles[i].from = f.particles[j].from
=============================================================================
