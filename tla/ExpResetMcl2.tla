------------------------------- MODULE ExpResetMcl2 -------------------------------
(***************************************************************************)
(* The filter from inside: the poses, the weights, the share alpha of      *)
(* particles judged right, and the resets, for one scan after another      *)
(* (src/src/Mcl.cpp, src/src/ExpResetMcl2.cpp).  Module Mcl shows the same *)
(* object from outside.                                                    *)
(*                                                                         *)
(* pc follows one turn of loop(): move, weigh, rate, expand, normalize,    *)
(* resample, publish; idle between two turns.  A scan is what the pose of  *)
(* a particle makes of it: the likelihood and the wall conflict it gives,  *)
(* by direction of the heading.  A weight is a fraction w / total.         *)
(***************************************************************************)
EXTENDS Estimate

CONSTANTS
    NumParticles, FreeCells,    \* num_particles, and free cells of the map
    InitPoses,      \* poses for initialize() and the constructor
    FreePoses,      \* poses drawFreePoses() draws
    Scans,          \* scans: [valid, likelihood, through]
    Noises,         \* what one motion may do to a pose, noise included
    Drags,          \* what sensorReset() may do to a pose
    Spread,         \* what expansionReset() may do to a pose
    Skip,           \* NumParticles * extraction_rate, cut off
    Word,           \* 2^16, where shift wraps
    Threshold,      \* alpha_threshold, a fraction <<num, den>>
    Grain,          \* draws of the resampling's start
    Negligible,     \* 10^6: a sum of weights of 1/Negligible counts as none
    SensorReset, EnableExpansionResetting,
    MaxTurns        \* bound on the turns of the loop and the placements

Index == 0 .. NumParticles - 1

Displacement == [x : Int, t : Int]
PoseRecord == [x : Int, t : Int]
ScanRecord == [valid : BOOLEAN, likelihood : [Direction -> Nat], through : SUBSET Direction]

ASSUME SizesAssumption ==
    /\ NumParticles \in Nat \ {0} /\ FreeCells \in Nat /\ Skip \in Nat
    /\ Word \in Nat \ {0} /\ Grain \in Nat \ {0} /\ Negligible \in Nat \ {0}
    /\ MaxTurns \in Nat
ASSUME ThresholdAssumption == Threshold \in Nat \X (Nat \ {0})
ASSUME FlagsAssumption == SensorReset \in BOOLEAN /\ EnableExpansionResetting \in BOOLEAN
ASSUME PosesAssumption == InitPoses \subseteq PoseRecord /\ FreePoses \subseteq PoseRecord
ASSUME DisplacementsAssumption ==
    /\ Noises \subseteq Displacement /\ Drags \subseteq Displacement
    /\ Spread \subseteq Displacement
ASSUME ScansAssumption == Scans \subseteq ScanRecord

VARIABLES
    particles,      \* [x, t, w]
    total,          \* the weights are fractions of it
    scan, fresh,    \* scan_; processed_seq_ # scan_.seq_
    alpha,          \* [right, of]: how many of how many were judged right
    shift,          \* the static counter of nonPenetrationRate()
    pc, turns,
    before,         \* history: the particles as they came to this scan
    dragged         \* history: those moved by sensorReset() since

vars == <<particles, total, scan, fresh, alpha, shift, pc, turns, before, dragged>>

At(q, w) == [x |-> q.x, t |-> q.t, w |-> w]

Sum(f(_)) == SumOver(Index, f)

Likelihood(q) == scan.likelihood[Get16bitRepresentation(q.t)]
WallConflict(q) == Get16bitRepresentation(q.t) \in scan.through

TypeOK ==
    /\ particles \in [Index -> [x : Int, t : Int, w : Nat]]
    /\ total \in Nat \ {0}
    /\ scan \in Scans /\ fresh \in BOOLEAN
    /\ alpha \in [right : Nat, of : Nat] /\ alpha.right <= alpha.of
    /\ shift \in 0 .. Word - 1
    /\ pc \in {"idle", "move", "weigh", "rate", "expand", "normalize", "resample", "publish"}
    /\ turns \in 0 .. MaxTurns
    /\ before \in [Index -> [x : Int, t : Int, w : Nat]]
    /\ dragged \subseteq Index

(* shift is static: it belongs to the process, not to the filter, and a     *)
(* new filter finds it anywhere.                                           *)
Init ==
    /\ \E q \in InitPoses : particles = [i \in Index |-> At(q, 1)]
    /\ total = NumParticles
    /\ scan \in Scans
    /\ fresh = TRUE
    /\ alpha = [right |-> 1, of |-> 1]
    /\ shift \in 0 .. Word - 1
    /\ pc = "idle"
    /\ turns = 0
    /\ before = particles
    /\ dragged = {}

-----------------------------------------------------------------------------
(* Placing the particles, between two turns of the loop.                   *)
Initialize ==
    /\ pc = "idle" /\ turns < MaxTurns
    /\ \E q \in InitPoses : particles' = [i \in Index |-> At(q, 1)]
    /\ total' = NumParticles
    /\ turns' = turns + 1
    /\ UNCHANGED <<scan, fresh, alpha, shift, pc, before, dragged>>

(* The particles beyond the free cells keep their pose and their weight.   *)
SimpleReset ==
    /\ pc = "idle" /\ turns < MaxTurns
    /\ \E poses \in [Index -> FreePoses] :
          particles' = [i \in Index |->
              IF i < FreeCells THEN At(poses[i], total)
              ELSE [particles[i] EXCEPT !.w = @ * NumParticles]]
    /\ total' = total * NumParticles
    /\ turns' = turns + 1
    /\ UNCHANGED <<scan, fresh, alpha, shift, pc, before, dragged>>

-----------------------------------------------------------------------------
SetScan(s) ==
    /\ pc = "idle" /\ turns < MaxTurns
    /\ scan' = s /\ fresh' = TRUE
    /\ pc' = "move" /\ turns' = turns + 1
    /\ UNCHANGED <<particles, total, alpha, shift, before, dragged>>

(* A motion below the threshold moves nothing, and turns no heading back   *)
(* into the turn.                                                          *)
MotionUpdate ==
    /\ pc = "move"
    /\ \/ \E noise \in [Index -> Noises] :
            particles' = [i \in Index |-> Move(particles[i], noise[i].x, noise[i].t)]
       \/ UNCHANGED particles
    /\ pc' = "weigh"
    /\ UNCHANGED <<total, scan, fresh, alpha, shift, turns, before, dragged>>

Weighed(ps) == [i \in Index |-> [ps[i] EXCEPT !.w = @ * Likelihood(ps[i])]]

(* sensorUpdate(): nothing happens when the scan has been processed or has *)
(* no valid beam; alpha stays what it was and is published again.          *)
Weigh ==
    /\ pc = "weigh"
    /\ IF fresh /\ scan.valid
       THEN particles' = Weighed(particles) /\ pc' = "rate"
       ELSE UNCHANGED particles /\ pc' = "publish"
    /\ before' = particles /\ dragged' = {}
    /\ UNCHANGED <<total, scan, fresh, alpha, shift, turns>>

-----------------------------------------------------------------------------
Stride == IF Skip < 1 THEN 1 ELSE Skip

(* A variant with a bug: the division cuts off instead of rounding up.     *)
ExaminedRoundedDown(s) ==
    LET start == s % Stride
    IN  {start + k * Stride : k \in 0 .. (NumParticles - start) \div Stride - 1}

(* The particles judged when the counter is at s: every Stride-th from a   *)
(* start that moves on by one each time.                                   *)
Examined(s) ==
    LET start == s % Stride
        n     == (NumParticles - start + Stride - 1) \div Stride
    IN  {start + k * Stride : k \in 0 .. n - 1}

(* 0 / 0 when no particle is judged: no comparison with it holds.          *)
BelowThreshold(a) == a.right * Threshold[2] < Threshold[1] * a.of

(* Variants with a bug: the right are counted over all particles; the wrong *)
(* are counted as right.                                                   *)
RateOfAll(judged) ==
    [right |-> Cardinality({i \in Index : ~WallConflict(particles[i])}),
     of    |-> Cardinality(judged)]

RateOfWrong(judged) ==
    [right |-> Cardinality({i \in judged : WallConflict(particles[i])}),
     of    |-> Cardinality(judged)]

Rate(judged) ==
    [right |-> Cardinality({i \in judged : ~WallConflict(particles[i])}),
     of    |-> Cardinality(judged)]

Shifted(q, d) == [q EXCEPT !.x = @ + d.x, !.t = @ + d.t]

NonPenetrationRate ==
    LET judged == Examined(shift)
        wrong  == {i \in judged : SensorReset /\ WallConflict(particles[i])}
    IN  /\ pc = "rate"
        /\ alpha' = Rate(judged)
        /\ \E d \in [wrong -> Drags] :
              particles' = [i \in Index |->
                  IF i \in wrong THEN Shifted(particles[i], d[i]) ELSE particles[i]]
        /\ dragged' = wrong
        /\ shift' = (shift + 1) % Word
        /\ pc' = IF EnableExpansionResetting /\ BelowThreshold(alpha')
                 THEN "expand" ELSE "normalize"
        /\ UNCHANGED <<total, scan, fresh, turns, before>>

(* A variant with a bug: the particles are not weighed again.              *)
ExpandUnweighed(d) == [i \in Index |-> [Shifted(particles[i], d[i]) EXCEPT !.w = 1]]

Expanded(d) == Weighed([i \in Index |-> [Shifted(particles[i], d[i]) EXCEPT !.w = 1]])

ExpansionReset ==
    /\ pc = "expand"
    /\ \E d \in [Index -> Spread] : particles' = Expanded(d)
    /\ total' = NumParticles
    /\ pc' = "normalize"
    /\ UNCHANGED <<scan, fresh, alpha, shift, turns, before, dragged>>

-----------------------------------------------------------------------------
NormalizeBelief ==
    LET sum == Sum(LAMBDA i : particles[i].w)
    IN  /\ pc = "normalize"
        /\ IF sum * Negligible > total
           THEN /\ total' = sum /\ pc' = "resample"
                /\ UNCHANGED <<particles, fresh>>
           ELSE /\ particles' = [i \in Index |-> [particles[i] EXCEPT !.w = 1]]
                /\ total' = NumParticles
                /\ fresh' = FALSE /\ pc' = "publish"
        /\ UNCHANGED <<scan, alpha, shift, turns, before, dragged>>

Accum(k) == SumOver(0 .. k, LAMBDA i : particles[i].w)

(* A variant with a bug: the targets are spread over one particle too many. *)
TickCrowded(u, i) ==
    LET past == {k \in Index : Accum(k) * (NumParticles + 1) * Grain > (u + i * Grain) * total}
    IN  IF past = {} THEN NumParticles - 1 ELSE Min(past)

(* The first tick whose accumulated weight is beyond the i-th target,      *)
(* (u + i * Grain) / (NumParticles * Grain).  u = Grain stands for a start *)
(* so close to the step that rounding brings the last target up to the     *)
(* accumulated sum: the walk then falls back on the last particle.         *)
Tick(u, i) ==
    LET past == {k \in Index : Accum(k) * NumParticles * Grain > (u + i * Grain) * total}
    IN  IF past = {} THEN NumParticles - 1 ELSE Min(past)

(* The particles are copied with their weights.                            *)
Resampling ==
    /\ pc = "resample"
    /\ \E u \in 0 .. Grain : particles' = [i \in Index |-> particles[Tick(u, i)]]
    /\ fresh' = FALSE
    /\ pc' = "publish"
    /\ UNCHANGED <<total, scan, alpha, shift, turns, before, dragged>>

(* loop() publishes what meanPose() makes of the particles, and the turn    *)
(* ends: nothing but the place in it and the histories changes.  What the  *)
(* mean is, MeanHeading, CovarianceIsPossible and ClusterIsOneMode say.    *)
Publish ==
    /\ pc = "publish"
    /\ pc' = "idle"
    /\ before' = particles /\ dragged' = {}
    /\ UNCHANGED <<particles, total, scan, fresh, alpha, shift, turns>>

Next ==
    \/ Initialize \/ SimpleReset
    \/ \E s \in Scans : SetScan(s)
    \/ MotionUpdate \/ Weigh \/ NonPenetrationRate \/ ExpansionReset
    \/ NormalizeBelief \/ Resampling \/ Publish

Spec == Init /\ [][Next]_vars

-----------------------------------------------------------------------------
(* What is judged are particles, and whatever the counter is now, every    *)
(* particle is judged within Stride updates, or, if the counter wraps in   *)
(* the meantime, within 2 * Stride - 1: the rotation over the particles in *)
(* nonPenetrationRate() leaves none out.                                   *)
RotationCovers ==
    /\ Examined(shift) \subseteq Index
    /\ Stride <= Word => \A i \in Index :
        /\ \E k \in 0 .. 2 * Stride - 2 : i \in Examined((shift + k) % Word)
        /\ shift + Stride <= Word =>
             \E k \in 0 .. Stride - 1 : i \in Examined(shift + k)

(* When the update comes to normalizeBelief(), the weight of a particle is *)
(* the one it brought times the likelihood of the pose it has now, or just *)
(* the likelihood after an expansion reset; only the sensor reset leaves a *)
(* particle with the weight of a pose it no longer has.                    *)
WeightOfThisPose ==
    pc = "normalize" =>
        \/ \A i \in Index \ dragged :
              particles[i].w = before[i].w * Likelihood(particles[i])
        \/ \A i \in Index : particles[i].w = Likelihood(particles[i])

(* The heading published is the mean along the arc in which the headings   *)
(* of the counted particles lie together, across the cut at Pi too, as     *)
(* long as a reset has not pushed one of them out of the turn.             *)
MeanHeading ==
    pc = "publish" /\ (\A i \in Counted(particles) : InTurn(particles[i].t))
        => CentralHeading(particles)

(* The covariances published belong to the mean published.                 *)
CovarianceIsPossible == pc = "publish" => PossibleCovariance(particles)

(* Of modes that are apart, the cluster is a whole one, and no mode that   *)
(* lies in one cell of the grid is larger.  The comment at                 *)
(* setEstimateLargestCluster() promises two things: that the estimate is   *)
(* "one real mode", which holds, and that it is of the "largest spatial    *)
(* cluster", which does not.  A mode in two cells can hold twice as many   *)
(* particles: of particles at 11, 2 and 1, in cells of 2, it is the one    *)
(* at 11 that is published.  How far the second goes is what OneMode says. *)
ClusterIsOneMode == pc = "publish" => OneMode(particles)

-----------------------------------------------------------------------------
Copies(c, j) == Cardinality({i \in Index : c[i] = j})

(* resampling() gives every particle a number of copies within one of its  *)
(* share of the weight, in the order of the vector; a particle of weight   *)
(* zero survives only as the last one, once, by the fallback for rounding. *)
FairCopies(c) ==
    /\ \A i, j \in Index : i <= j => c[i] <= c[j]
    /\ \A j \in Index :
        /\ Abs(Copies(c, j) * total - NumParticles * particles[j].w) <= total
        /\ particles[j].w = 0 => Copies(c, j) = 0 \/ (j = NumParticles - 1 /\ Copies(c, j) = 1)

FairShare ==
    [][pc = "resample" =>
        \E c \in [Index -> Index] :
            FairCopies(c) /\ particles' = [i \in Index |-> particles[c[i]]]]_vars

(* A belief that is wrong everywhere is reset by the first scan that shows *)
(* it, whichever particles that update judges, and one that is right       *)
(* everywhere never is.                                                    *)
WrongBeliefIsReset ==
    [][pc = "rate" /\ Skip <= NumParticles /\ EnableExpansionResetting =>
        /\ 0 < Threshold[1] /\ (\A i \in Index : WallConflict(particles[i]))
              => pc' = "expand"
        /\ Threshold[1] <= Threshold[2] /\ (\A i \in Index : ~WallConflict(particles[i]))
              => pc' = "normalize"]_vars

(* The density of the particles follows Bayes' rule: of the particles that *)
(* came to a scan, those of one pose are afterwards as many as their       *)
(* number times the likelihood of the scan says, within one per block of   *)
(* them in the vector.  A comment in largestClusterParticles() counts on   *)
(* it: "the particle density already reflects the posterior weight".       *)
PoseOf(q) == <<q.x, q.t>>
With(ps, q) == {i \in Index : PoseOf(ps[i]) = q}
Blocks(ps, q) == Cardinality({i \in With(ps, q) : i = 0 \/ i - 1 \notin With(ps, q)})

DensityFollowsBayes ==
    [][pc = "resample" /\ alpha.right = alpha.of =>
        LET z == Sum(LAMBDA i : Likelihood(before[i])) IN
        \A i \in Index :
            LET q == PoseOf(before[i]) IN
            Abs(Cardinality(With(particles', q)) * z
                - NumParticles * Cardinality(With(before, q)) * Likelihood(before[i]))
              <= Blocks(before, q) * z]_vars
=============================================================================
