# A verification project for emcl2

`emcl2_node` localizes a robot on an occupancy grid with a particle filter. It
is a managed ROS 2 node: a lifecycle manager drives it, laser scans drive the
filter, services and a topic ask it to place its particles. This directory
holds TLA+ models of it, the TLC configurations that check them, and proofs
checked by TLAPS.

Paths are relative to the repository; `emcl2_node.cpp` is
`src/src/emcl2_node.cpp`, and likewise for the other sources.

## 1. Inventory

| Component | State | Operations | What makes it correct |
|---|---|---|---|
| Node (`emcl2_node.cpp`) | life cycle state, publishers, bond, seven flags, the requested pose, the last scan's stamp, the map, `pf_` | five transitions; `receiveMap`, `cbScan`, `initialPoseReceived`, `cbSetInitialPose`, `cbSimpleReset`, `cbNomotionUpdate`; `loop` | no null pointer in any order of callbacks; flags that agree with each other and with the objects; every request obeyed at most once, in order, and eventually; nothing left after cleanup; silence unless active |
| Particle filter (`Mcl.cpp`, `ExpResetMcl2.cpp`) | particles with weights, last and previous odometry, scan, processed sequence number, `alpha_`, map | `initialize`, `simpleReset`, `motionUpdate`, `sensorUpdate`, `setScan`, `setMap`, `clearProcessedScan`, `meanPose` | the particles move by what the odometry moved; a reset leaves no survivor; weights are those of the poses they belong to; a scan is weighed once |
| Particle (`Particle.cpp`) | pose, weight | `likelihood`, `wallConflict`, `isPenetrating`, `sensorReset` | a verdict that does not depend on the direction in which the beams are walked; a dragged particle leaves the wall |
| `LikelihoodFieldMap.cpp` | likelihood field, free cells | constructor, `setLikelihood`, `likelihood`, `drawFreePoses` | the field is the maximum over the occupied cells in reach; no cell outside is read; drawn cells are free and distinct |
| `Scan.cpp` | ranges, increments, 16 bit directions | `valid`, `countValidBeams` | loops end; the same beams are counted and weighed |
| `Pose.cpp`, `OdomModel.cpp` | pose; deviations | difference, `move`, `nearlyZero`, 16 bit heading | angles stay in one turn; a motion put off is not lost |
| tf2 filter, buffer, listener (libraries) | queue of scans, transforms, a thread | delivers a scan when its transform is there | a scan is delivered once, or dropped |
| `main.cpp`, component registration | - | spins the executor | callbacks of the executor do not overlap |
| Parameters, launch files, tests, benchmark | - | - | - |

**How they interact.** Everything in the node shares the members of one object.
The executor runs transitions, subscriptions and services one after another.
`cbScan` is the callback of a tf2 message filter: when the transform of a scan
is there on arrival, it runs on the executor; when it comes later, it runs on
the thread of `tf2_ros::TransformListener`, beside the executor, and there is no
lock. `cbScan` and `cbNomotionUpdate` call `loop()`, which takes at most one
pending request, looks the odometry up at the scan's stamp, calls `motionUpdate`
and `sensorUpdate`, and publishes. `receiveMap` builds the filter object on the
first map and again rebuilds the tf objects; later maps only replace the
likelihood field. `on_cleanup` destroys all of it and clears the flags.

**What is hard.** Any order of transitions, maps, scans and requests; requests
that are served at once or deferred, by two kinds of flag; transforms that are
missing half way through an update; motions below the threshold, in any number;
two threads in the same members; destruction while a callback runs; arithmetic
at its edges (16 bit angles, `uint16_t` counters, rounding in the resampling,
`int` times `size_t`). `PROJECT.json` lists each hazard at its line with the
properties about it.

## 2. The modules

| Module | What it is |
|---|---|
| `PlacementRequests` | abstract specification: what becomes of a request to place the particles |
| `Mcl` | the particle filter object: a record, one operator per public method |
| `EMcl2Node` | the node, one action per callback; extends `Mcl`, implements `PlacementRequests` |
| `MCEMcl2Node` | values of the constants of `EMcl2Node` |
| `EMcl2Threads` | the callbacks of the node step by step on two threads |
| `Pose` | angles, 16 bit directions, a move |
| `Estimate` | what is published of the particles: the mean pose and the largest cluster; extends `Pose` |
| `ExpResetMcl2` | the particle filter from inside, one action per step of an update; extends `Estimate` |
| `MCExpResetMcl2` | values of the constants of `ExpResetMcl2` |
| `LikelihoodFieldMap` | the field built cell by cell, looked up, and drawn from |
| `Particle` | one particle judged by one scan, beam by beam; extends `LikelihoodFieldMap` |
| `MCParticle` | values of the constants of `Particle` |
| `OperatorLemmas` | proofs about the operators of the library that the models use: `Min`, `Max`, sums over finite sets, division |
| `PlacementRequestsProofs`, `MclProofs`, `EMcl2NodeProofs`, `EMcl2ThreadsProofs`, `EstimateProofs`, `ExpResetMcl2Proofs`, `ParticleProofs` | the proofs about the module of the same name; `ParticleProofs` is about `LikelihoodFieldMap` too |

Operators described as "a variant with a bug" are not part of any
specification. They are definitions with a mistake one could make in the code;
put in the place of the right one, each makes the property it is listed with in
`PROJECT.json` fail.

### PlacementRequests

Requests are numbered. `asked` and `served` are histories, `pose` and `scatter`
the requests kept (at most one of each kind, the newest), `up` says whether the
localizer runs. A pose may be refused, obeyed at once (only when none is kept)
or kept; a scatter is always kept; a kept pose is served before a kept scatter.

### Mcl

A particle is the request that placed it (`from`) and the odometric
displacement applied since (`off`), on one axis: the three coordinates of a
pose meet the same test (`nearlyZero`) and the same assignments. `last_odom`
and `prev_odom` are the pointers of the same names, `NoOdom` when null. `fresh`
stands for `processed_seq_ != scan_.seq_`. Noise and the random displacements
of the expansion and sensor resets are part of the pose's data and are not in
`off`. Weights are abstracted to what they decide: resampling may choose any
non-decreasing sequence of indices, which is what a walk over accumulated
weights (`Mcl.cpp:76`) can yield. `born` is a history field: the last reading
the filter had when it placed the particle.

### EMcl2Node

The variables are the members (`map_receive`, `init_pf`, ...) plus the life
cycle state, `wired` (subscriptions, services, tf objects), `pubs`, `bond`, and
`scan_odom`, the odometry at the stamp kept. One action is one callback run to
its end:

| Code | Action |
|---|---|
| `on_configure`, `on_activate`, `on_deactivate`, `on_cleanup`, `on_shutdown` | `Configure`, `Activate`, `Deactivate`, `Cleanup`, `Shutdown` |
| `receiveMap` (`initPF`, `initTF`, `setMap`) | `ReceiveMap` |
| `initialPoseReceived`, `cbSetInitialPose`, `setInitialPose` | `SetInitialPose` |
| `cbSimpleReset` | `CbSimpleReset` |
| `cbScan` with `loop` | `CbScan` |
| `cbNomotionUpdate` with `loop` | `CbNomotionUpdate` |

`Loop` has three outcomes: the odometry is missing, the lidar's transform is
missing, both are there. `loop()` has two more tests, of `init_pf_` and
`scan_receive_`; both callers have made them. `reset_id`, `asked`, `asked_at`
and `served` are history. The transitions' effects that the code asks of the
life cycle library (which transition is allowed in which state) are guards.

### EMcl2Threads

`at[t]` is the place of thread `t` (`executor` or `listener`) in its callback,
`upd[t]` the locals of the update it runs, `objs` the set of members that exist.
The steps of an update are `CbScan` (the test), `Stamp`, `SetScan`,
`TakeRequest`, `RequestTaken`, `MotionUpdate`, `SensorUpdate`, `Processed`,
`Publish`, `Return`, on either thread. `on_cleanup` and `initTF` are sequences
of steps in the order of the code, with `Join` in the middle: the destructor of
the listener cancels and joins its thread. A null pointer used brings the
process down; an object used after it is destroyed (the field that `setMap`
replaces during `sensorUpdate`, the filter that `on_cleanup` destroys during its
own callback) may. A step is one method of the filter object or one access to
the members that the other thread may see, so torn reads inside a method (the
three assignments of the requested pose, the vector of ranges) are not
modelled; they would only add to the harm shown. The contents of the particles,
`on_shutdown`, the publishers' activation and the bond are left to `EMcl2Node`.

The message filter and the transform listener are libraries: `ScanArrives`,
`Enqueue`, `TransformArrives`, `Return` and `Join` model what the node relies on.

### Pose, Estimate and ExpResetMcl2

`ExpResetMcl2` is the object of module `Mcl` seen from inside: what `Mcl` leaves
to a choice (which particles survive) is computed here, and what `Mcl` tracks
(the odometry) is a choice here. The two meet at their methods: `Initialize`,
`SimpleReset`, `SetScan` and `MotionUpdate` are in both; `SensorUpdate` of `Mcl`
is the sequence `Weigh`, `NonPenetrationRate`, `ExpansionReset`,
`NormalizeBelief`, `Resampling`, and `pc` is the place in it.

Numbers are exact: a weight is an integer over the common `total`, `alpha` is
`right / of` (`0 / 0` included, which is below no threshold), a mean is kept
times the number of particles. An angle is a multiple of half a turn over `Pi`;
a pose has one coordinate and a heading. A scan is the likelihood and the
verdict it gives to each heading, whatever they are: how they come about is the
matter of `Particle`. Random numbers are members of small sets, and the start of
the systematic resampling is one of `Grain + 1` values; the last stands for the
rounding that brings a target up to the accumulated sum. `Word` is the size of
the `uint16_t` counter that picks the particles judged; it is static, so a new
filter finds it anywhere. `before` and `dragged` are history.

### LikelihoodFieldMap and Particle

The constructor goes over the grid one cell at a time (`Visit`); then one
particle is judged by one scan, one beam at a time (`NextBeam`). Lengths are
integers and directions quarters of a turn, so that every beam runs along a row
or a column and each point of it is exact. The ranges are chosen as the walk
reads them, invalid ones included. `walk` holds what the walk is given: the
order, which is a coin's choice of the end to begin at, `phantom_robust_` and
the threshold, as a number of beams.

`sensorReset` also turns the heading, by the difference of two arc tangents;
here it may turn it by anything, and by nothing when both ends are one beam.
The other coordinate of the lidar's place (`lidar_pose_y_`) is zero. A lidar
mounted upside down is left out: the expression for its directions
(`ExpResetMcl2.cpp:63`) multiplies an `int` by a `size_t` and converts a number
out of range.

## 3. The runs

| Run | Module, cfg | Expect | Shows |
|---|---|---|---|
| `requests` | `PlacementRequests`, `MCPlacementRequests.cfg` | pass | no request is obeyed twice, poses are obeyed in order, a kept request is served unless replaced or the localizer stops |
| `node` | `MCEMcl2Node`, `MCEMcl2Node.cfg` | pass | no null pointer, coherent flags, silence unless active, particles moved by what the odometry moved since the last reading before they were placed, survivors only in a cramped scatter, and the node implements `PlacementRequests`, liveness included |
| `threads` | `EMcl2Threads`, `EMcl2Threads.cfg` | pass | the join keeps what an update uses alive and leaves nothing behind, callbacks end, and without an overlap of the threads there is no harm |
| `filter` | `MCExpResetMcl2`, `MCExpResetMcl2.cfg` | pass | the rotation judges every particle; weights are those of the poses, dragged particles apart; resampling is fair to within one copy; the mean heading is that of the arc of the headings, the covariance is possible, the cluster is one whole mode, though not always the largest; a belief wrong everywhere is reset at once |
| `particle` | `MCParticle`, `MCParticle.cfg` | pass | the field is the distance to the nearest wall; scatters land on free cells, one each; a beam penetrates exactly when it crosses a wall and comes out in the open; a conflict is a run of such beams, from either end; a perfect fit is never a conflict with the phantom check on; the drag never makes things worse |
| `bond` | `MCEMcl2Node`, `BondOnlyWhileActive.cfg` | violation | finding 1 |
| `survivors` | `MCEMcl2Node`, `NoSurvivor.cfg` | violation | finding 2 |
| `placed` | `MCEMcl2Node`, `PlacedWhereAsked.cfg` | violation | finding 3 |
| `order` | `MCEMcl2Node`, `AllInOrder.cfg` | violation | finding 4 |
| `own_scan` | `EMcl2Threads`, `OwnScan.cfg` | violation | finding 5 |
| `wait` | `EMcl2Threads`, `NoScanWaitsForever.cfg` | violation | finding 6 |
| `density` | `MCExpResetMcl2`, `DensityFollowsBayes.cfg` | violation | finding 7 |

### Findings

1. `on_shutdown` only logs. A node shut down while active keeps its bond, its
   flag and its publishers; README line 54 says it bonds "while active".
2. `simpleReset` moves no more particles than the map has free cells; the rest
   stay where they were, though the service scatters "the particles".
3. `initialize` leaves `prev_odom_` behind: the motion since the last processed
   scan, made before the pose was given, is applied after it.
4. A scatter asked before a pose is obeyed after it and undoes it.
5. A scan delivered on the listener's thread replaces the scan another update
   is about to weigh; a comment promises that every scan is processed once.
   The same overlap can lose a pose, publish a transform with another scan's
   stamp, and use a publisher that `on_cleanup` has just destroyed.
6. The timeout of the message filter never runs, as its timers are in a
   callback group that no executor spins; a comment says it bounds the wait.

7. Resampling copies the weights and nothing resets them, so a scan is counted
   once by the number of copies and again by their weight at the next scan. A
   comment in `largestClusterParticles` counts on the density alone, and so does
   `meanPose`, which ignores the weights. One scan after a placement the
   property holds; it takes two to break it.

Finding 3 and `MotionIsTracked` are two sides of one thing. The property
compares a particle with the readings the filter had: from the last one at the
time of the placement on, it gets all the motion there is, but for what is below
the threshold. Two amounts are not the particle's own. What was put off at the
placement is applied after it; it is below the threshold, and part of what the
property allows. What the robot moved after that reading and before the request
has no bound, and the filter cannot tell it from later motion: that is finding 3.

The largest cluster is not always the largest. `Mcl.hpp:58-59` promises "the
pose of the largest spatial cluster of particles (the dominant mode)", and
`Mcl.cpp:128-130` takes the densest cell for it. A mode that straddles cells is
counted in parts: with cells of 2, particles at 11, 2 and 1, in this order, form
two modes and lie in three cells, and the first cell wins: the estimate is the
one particle at 11, not the two others. The states of
`filter` hold this case, so the property checked there promises less, and says
how much: the cluster is one whole mode, which is the other half of the comment
("returns one real mode"); no cell holds more; and no mode holds more than the
cluster times the number of cells the mode is in. A mode narrower than a cell is
in two cells at most on a line, and in four on the plane, so it can be passed
over for one with half, or a quarter, of its particles.

Met on the way, without a run, as they are about wording or values. The README
calls `extraction_rate` the rate of particles that are checked (line 115); the
code takes every n-th particle, n being the rate times their number, which at
the default of 0.1 is ten particles of however many. The README says a reset
follows when the rate of *wrong* particles is above `alpha_threshold` (line 61),
the code resets when the rate of *right* ones is below it; the two agree at the
default of 0.5 only. The comment in `isPenetrating` says a beam is flagged only
if it ends in open space; the code flags one that ends in any cell but an
occupied one, next to a wall included.

What the properties leave open, knowingly. The mean heading is right while the
counted headings are in the turn: `sensorReset` and `expansionReset` do not
normalize, and a motion below the threshold does not either, so a robot that
stands can have headings outside, where both averages may be off. With
`scan_increment` above one, the two ends of the walk read different beams, and
the verdict may depend on the coin; it is a run of penetrating beams either way.

`sensorUpdate`'s guard on `processed_seq_` never fires when the threads do not
overlap: each call of `loop()` follows `setScan` or `clearProcessedScan`.

### Bounds, and why they are enough

- `MaxRequest` (4 in `requests`, 3 in `node`, 2 in `threads`): with three
  requests, one can be obeyed at once and one of each kind kept; with four, a
  kept one is replaced too. Two let one be obeyed at once and one be deferred.
- `Readings = {0, 1, 2}` with `Eps = 2`: motions of less than and of exactly
  the threshold, both ways, and motions put off that add up over several scans.
- Two particles, two maps of one and of two free cells: one map is cramped, one
  is not, and a map can be replaced by the other in either direction.
- `AskedAt = {0}` in `node`: it feeds only a history that the properties of that
  run do not read. The violation runs use all readings.
- `MaxScan = 2`, `QueueSize = 1` in `threads`: each thread can be in an update
  of its own scan, a third update comes from `request_nomotion_update`, and the
  second scan pushes the first out of the queue. In the code the queue holds 10.

- `filter` and `density`: three particles, so that one of them can be between
  two others in the vector and a third not judged (`Skip = 2`); `Pi = 3`, a turn
  of six directions, the fewest with a heading strictly inside a half turn;
  `MaxTurns = 2`, two scans, or a placement and a scan: what one update leaves
  behind meets the next. `Word = 5` is not a multiple of `Skip`, so the rotation
  is seen to jump at the wrap, as 65536 does for most skips. Two free cells
  for three particles in `filter`; three in `density`, so that no survivor of a
  scatter is what breaks the property.
- `particle`: a grid of six by five, eighty maps with walls around the lidar and
  at the edge, two reaches of the field; four beams, of which three can be in a
  run; two increments; thresholds of none, one and two beams. Range 14 is beyond
  the walls, 10 ends at or just behind one, and `NaN` is invalid.

Configurations may be repeated without bound in every run. `CHECK_DEADLOCK` is
off where the system may stop: a node that is finalized and has used up its
bound of requests, a process that is down.

### Fairness, and what justifies it

- `EMcl2Node`: `WF(CbScan)`. Scans keep arriving while the node takes them; it
  is a property of the robot, not of this code. Without scans nothing is served,
  as `loop()` runs on scans alone. No request, map or transition must occur.
- `PlacementRequests`: `WF(Serve)`, which the node implements. A scatter waits
  behind every pose: that it is served rests on the poses running out, which
  the bound on requests ensures; an unending stream of poses, one per scan,
  would starve it.
- `EMcl2Threads`: weak fairness of the steps inside a callback, one condition
  per thread: the operating system runs both threads. No arrival is fair.

## 4. What is proved

Every safety property that a passing run checks, invariants and action
properties alike, is a theorem: it holds for every value of the constants that
meets the named assumptions. Most of these say no more than what kind of value a
constant is (`NumParticles` and `Eps` positive, `Readings` integers, `FreeCells`
natural numbers, sentinels outside the sets they stand beside, bounds natural;
`PosesAssumption`: poses are on the plane and their headings in the turn). Two
say more:

- `RadiusAssumption`, `Res <= 2 * MergeRadius`. A cell of the clustering grid is
  0.5 wide and the radius is 1.0 (`Mcl.cpp:125` and `:126`), so the code has room
  to spare. With a grid wider than two radii, one cell could hold two modes.
- `ByteRange`, a hypothesis of `ParticlePenetrationIsCrossing` alone: a
  `likelihood_range` of at most 255 cells. A weight is
  `255 * (cell_num - i) / cell_num`, cut off to an integer; with a longer range
  the outermost rings within reach have weight 0, and `isPenetrating` takes them
  for open. The default of 0.2 m is a few cells. The maps of `MCParticle` meet
  the hypothesis.

By component:

- `PlacementRequests`: `TypeOK`, `AtMostOnce`, `PosesInOrder`. The inductive
  invariant adds that what is kept has not been served and that every served
  pose is older than the pose kept: without it a step that serves could repeat
  a request, or obey an old one.
- `Mcl`: each method keeps the filter's type and `Counted`, from which
  `Tracked` follows. `Counted` says where the two motions put off stand:
  `last_odom` is within the threshold of `prev_odom`, and `born` of what
  `prev_odom` was at the placement, which is `prev_odom - off`. `Tracked` alone
  is not inductive, because it forgets both. One lemma per method.
- `EMcl2Node`: `TypeOK`, `NoNullUse`, `FlagsAgree`, `QuietUnlessActive`,
  `MotionIsTracked`, `SurvivorsOnlyIfCramped`, from an invariant that adds what
  each life cycle state says of the objects (`LifecycleAgrees`) and what data a
  flag that is set comes with (`DataIsThere`). `NodeImplementsRequests` shows
  that initial states map to initial states and every callback to a step of
  `PlacementRequests` or a stutter; `NodeObeysOnceInOrder` carries `AtMostOnce`
  and `PosesInOrder` over to the node.
- `EMcl2Threads`: `AliveWhileUsed` and `NothingLeft`. The invariant follows
  `on_cleanup` and `initTF`: which members are gone at each step, that the
  listener's thread is out of its callback once joined, and that it is not
  started again before a new one is built. `TypeOK` needs the numbers of scans
  ordered: none is stamped, weighed or processed before it has arrived.
  `HarmOnlyByOverlap` adds what an update has established at each of its lines
  as long as no callback of the other thread has run beside it (`Turns`).
- `ExpResetMcl2`: `RotationCovers`, from the invariant that the counter stays in
  its word and a lemma that as many consecutive numbers as there are residues
  have them all; `WrongBeliefIsReset`, from the lemma that some particle is
  judged when the skip is no more than the number of particles;
  `WeightOfThisPose`, whose inductive invariant adds what the weights are before
  the rate is taken, and that the vector keeps its shape through the resampling;
  `TypeOK`, which says that the total by which weights are divided is never zero:
  `normalizeBelief` divides by a sum that is not negligible, or gives every
  particle the same weight. The start of the resampling is any of its values,
  and a drag is any.
- `FairShare`, for which `TotalInv` adds that the weights resampled add up to
  the total: the targets of the resampling are at equal distances along the
  accumulated weights, so those that fall to one particle are a stretch of
  consecutive ones, and a stretch of length `w` holds `w` over the distance of
  them, to within one. `TickCompares` says where the walk stops for each target,
  the fallback for rounding included, and `TicksInOrder` that it never goes back.
- `Estimate`, and with it `CovarianceIsPossible`, `MeanHeading` and
  `ClusterIsOneMode` of the filter: `CovarianceOfMean` is the inequality of
  Cauchy and Schwarz for integer sums. `HeadingOfMean` says that on whichever
  side of the cut the arc of the headings lies, one of the two averages has no
  cut in its way and has the lesser deviation, and that it is the one chosen.
  `ClusterOfModes` says that the densest cell lies within one mode, so that its
  centre is near all of that mode and far from the others; what a mode can hold
  follows by counting it cell by cell (`Pigeonholes`).
- `LikelihoodFieldMap` and `Particle`: `FieldIsOfNearestWall` and `ScatterIsFree`,
  from an invariant (`FieldInv`) that says of every round of the constructor what
  they say of the last: each cell has the weight of the nearest wall gone over
  so far, because the nearest of more walls is the nearer of two, and a cell
  outside the square of a wall is out of its reach. `PenetrationIsCrossing`
  follows, as 255 is on walls only and 0 only out of reach of all. `ConflictIsARun`
  needs `WalkInv`: `hit_counter` is the number of the last beams read that
  penetrate one after the other, and there is no run yet; a new beam can complete
  a run only together with those, as between it and any earlier beam lies one
  that does not penetrate. `PerfectFitIsKept` compares two sums term by term, and
  the last term is less. `DragImproves` is arithmetic: moving two points by half
  the sum of what they miss never adds to their squares.

**Induction without an induction rule.** The prover has no induction over data,
and sums over particles and beams are folds. `OperatorLemmas` goes round it. A
set of naturals has a least member (`NatHasLeast`), which the library's theorem
on well-founded relations gives for sets; hence a collection of subsets of a
finite set has a smallest one (`SmallestException`), and a fact about sums fails
for no set because it does not fail for a smallest one. So `SumFunctionOnSet` is
an integer, grows by the term of each member added, is additive, and is monotone.

**Only model-checked.** Everything under fairness (`PoseIsServed`,
`ScatterIsServed`, the liveness half of `KeepsRequests`, `CallbacksEnd`), which
the prover does not treat.

## 5. What is not modelled

The contents of the messages published, and the order in which a pose and a
transform leave. The expansion reset in two dimensions and correlations of `y`,
which meet the same code as `x`. The angle by which `sensorReset` turns, beams
off the axes, the directions of a lidar mounted upside down, and an increment of
zero, for which the loops do not end. `countValidBeams`'s rate, which nothing
reads. Noise laws and floating point error, other than the one rounding the code
guards against, are not properties a model checker tells apart. Parameters and
launch files hold values only; the
evaluation scripts and the benchmark keep no state of the localizer. A component
container with a multi-threaded executor would add overlaps that `main.cpp`
does not have.

## 6. Plan

Done, in this order: `PlacementRequests`, `Mcl`, `EMcl2Node`, `EMcl2Threads` and
their proofs, as the order of callbacks and the two threads are what the node's
users meet first; then the filter from inside (`Pose`, `Estimate`,
`ExpResetMcl2`) and the particle on its map (`LikelihoodFieldMap`, `Particle`).
Then the theorems, until every safety property of the passing runs had one.

Next:

1. `ExpResetMcl2` and `Mcl` meet at their methods, in prose only. A mapping from
   the filter seen from inside to the record of `Mcl` would make each method of
   the one a step of the other.
2. `Estimate` in two coordinates, with the correlations of `y`.
3. `ScatterIsFree` for any number of poses drawn, not for two of them.
