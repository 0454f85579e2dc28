--------------------------------- MODULE Estimate ---------------------------------
(***************************************************************************)
(* What the filter publishes of its particles: Mcl::meanPose() and         *)
(* Mcl::largestClusterParticles() (src/src/Mcl.cpp).  p is the vector of   *)
(* particles, a function of the indices; ps is the set of the indices that *)
(* are counted.                                                            *)
(*                                                                         *)
(* Means and deviations are fractions.  Every mean is kept times the       *)
(* number of particles counted, every sum of squares times its square; the *)
(* common divisor num - 1 of the variances is left out.                    *)
(***************************************************************************)
EXTENDS Pose, FiniteSets, FiniteSetsExt, Functions

CONSTANTS
    Res,            \* side of a cell of the clustering grid
    MergeRadius,    \* gathered around the centroid of the densest cell
    EstimateLargestCluster      \* parameter estimate_largest_cluster

ASSUME ClusterAssumption == Res \in Nat \ {0} /\ MergeRadius \in Nat

(* 0.5 and 1.0 in the code: what lies in one cell is no further apart than *)
(* two radii.                                                              *)
ASSUME RadiusAssumption == Res <= 2 * MergeRadius

ASSUME EstimateAssumption == EstimateLargestCluster \in BOOLEAN

Abs(n) == IF n < 0 THEN -n ELSE n

SumOver(ps, f(_)) == SumFunctionOnSet([i \in ps |-> f(i)], ps)

-----------------------------------------------------------------------------
(* The densest cell: the first to hold the greatest number of particles    *)
(* while they are counted in the order of the vector.                      *)
CellOf(q) == q.x \div Res

CountUpTo(p, n) == Cardinality({i \in DOMAIN p : i <= n /\ CellOf(p[i]) = CellOf(p[n])})

PeakCell(p) ==
    LET peak_count == Max({CountUpTo(p, n) : n \in DOMAIN p})
    IN  CellOf(p[Min({n \in DOMAIN p : CountUpTo(p, n) = peak_count})])

InPeak(p) == {i \in DOMAIN p : CellOf(p[i]) = PeakCell(p)}

Gathered(p) ==
    LET peak == InPeak(p)
        n    == Cardinality(peak)
        cx   == SumOver(peak, LAMBDA i : p[i].x)
    IN  {i \in DOMAIN p : Abs(n * p[i].x - cx) <= n * MergeRadius}

(* A variant with a bug: the peak is the cell of the last particle.        *)
LargestClusterOfLast(p) ==
    {i \in DOMAIN p : \E n \in DOMAIN p :
        /\ \A m \in DOMAIN p : m <= n
        /\ Abs(p[i].x - p[n].x) <= MergeRadius}

LargestClusterParticles(p) == IF Gathered(p) = {} THEN DOMAIN p ELSE Gathered(p)

Counted(p) == IF EstimateLargestCluster THEN LargestClusterParticles(p) ELSE DOMAIN p

-----------------------------------------------------------------------------
(* Headings are averaged twice, as they are and turned by half a turn, and *)
(* the average with the smaller deviation is taken.                        *)
Opposite(t) == NormalizeAngle(t + Pi)

MeanPoseOf(p, ps) ==
    LET num == Cardinality(ps)
        x   == SumOver(ps, LAMBDA i : p[i].x)
        t   == SumOver(ps, LAMBDA i : p[i].t)
        t2  == SumOver(ps, LAMBDA i : Opposite(p[i].t))
        from(i, mean) == Normalized(num * p[i].t - mean, num * Pi)
        tt  == SumOver(ps, LAMBDA i : from(i, t) * from(i, t))
        tt2 == SumOver(ps, LAMBDA i : (num * Opposite(p[i].t) - t2)
                                    * (num * Opposite(p[i].t) - t2))
        t_mean == IF tt > tt2 THEN Normalized(t2 - num * Pi, num * Pi) ELSE t
    IN  [num |-> num, x |-> x, t |-> t_mean,
         xx  |-> SumOver(ps, LAMBDA i : (num * p[i].x - x) * (num * p[i].x - x)),
         tt  |-> IF tt > tt2 THEN tt2 ELSE tt,
         tx  |-> SumOver(ps, LAMBDA i : (num * p[i].x - x) * from(i, t_mean))]

(* Variants with a bug: the second average is left out, as with angles      *)
(* that do not wrap; the deviation of the second is kept without its mean. *)
MeanPoseOneTurn(p) ==
    LET ps  == Counted(p)
        num == Cardinality(ps)
    IN  [MeanPoseOf(p, ps) EXCEPT !.t = SumOver(ps, LAMBDA i : p[i].t)]

MeanPoseMixed(p) ==
    LET ps   == Counted(p)
        mean == MeanPoseOf(p, ps)
        t    == SumOver(ps, LAMBDA i : p[i].t)
    IN  [mean EXCEPT !.tx = SumOver(ps, LAMBDA i :
            (mean.num * p[i].x - mean.x) * Normalized(mean.num * p[i].t - t, mean.num * Pi))]

MeanPose(p) == MeanPoseOf(p, Counted(p))

-----------------------------------------------------------------------------
(* The headings ts lie in an arc of less than half a turn that begins at a. *)
FromOn(a, t) == (t - a) % (2 * Pi)
Together(p, ps, a) == \A i \in ps : FromOn(a, p[i].t) < Pi

(* The mean of headings that lie together is their mean along the arc,     *)
(* wherever on the circle the arc is.                                      *)
CentralHeading(p) ==
    LET mean == MeanPose(p)
        ps   == Counted(p)
    IN  \A a \in Direction : Together(p, ps, a) =>
            (mean.num * a + SumOver(ps, LAMBDA i : FromOn(a, p[i].t)) - mean.t)
                % (mean.num * 2 * Pi) = 0

(* A covariance matrix: no correlation above one.                          *)
PossibleCovariance(p) ==
    LET mean == MeanPose(p) IN mean.tx * mean.tx <= mean.xx * mean.tt

(* Where the particles form modes, each narrower than half the radius and  *)
(* further apart than twice the radius, the cluster is one whole mode, and *)
(* no cell of the grid holds more particles than it.  It need not be the   *)
(* largest mode: one that straddles cells is counted in parts, and a       *)
(* smaller one that lies in one cell can come before it.  But no mode      *)
(* holds more particles than the cluster times the cells it is spread over.*)
Near(p, i, j) == 2 * Abs(p[i].x - p[j].x) <= MergeRadius
Far(p, i, j)  == Abs(p[i].x - p[j].x) > 2 * MergeRadius

ModeOf(p, i) == {j \in DOMAIN p : Near(p, i, j)}
CellsOf(p, ps) == {CellOf(p[j]) : j \in ps}

OneMode(p) ==
    LET ps == LargestClusterParticles(p) IN
    (\A i, j \in DOMAIN p : Near(p, i, j) \/ Far(p, i, j)) =>
        /\ \A i \in ps : ps = ModeOf(p, i)
        /\ \A n \in DOMAIN p : CountUpTo(p, n) <= Cardinality(ps)
        /\ \A i \in DOMAIN p :
              LET mode == ModeOf(p, i) IN
              Cardinality(mode) <= Cardinality(ps) * Cardinality(CellsOf(p, mode))
=============================================================================
