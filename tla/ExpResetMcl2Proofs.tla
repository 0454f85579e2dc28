--------------------------- MODULE ExpResetMcl2Proofs ---------------------------
(***************************************************************************)
(* Proofs about the filter, for any number of particles, any extraction    *)
(* rate and any width of the counter: which particles nonPenetrationRate() *)
(* judges and the reset that follows (src/src/ExpResetMcl2.cpp), what the  *)
(* weights are through an update, that what is published of them is what   *)
(* EstimateProofs proves of meanPose(), and how many copies of a particle  *)
(* resampling() makes (src/src/Mcl.cpp).                                   *)
(***************************************************************************)
EXTENDS ExpResetMcl2, EstimateProofs

LEMMA StrideIsPositive == Stride \in Nat \ {0}
BY SizesAssumption DEF Stride

(* The counter stays within its word.                                      *)
LEMMA ShiftInWord == Spec => [](shift \in 0 .. Word - 1)
<1>1. Init => shift \in 0 .. Word - 1
  BY DEF Init
<1>2. shift \in 0 .. Word - 1 /\ [Next]_vars => (shift \in 0 .. Word - 1)'
  BY SizesAssumption
  DEF Next, vars, Initialize, SimpleReset, SetScan, MotionUpdate, Weigh,
      NonPenetrationRate, ExpansionReset, NormalizeBelief, Resampling, Publish
<1> QED BY <1>1, <1>2, PTL DEF Spec

-----------------------------------------------------------------------------
(* Nothing but particles is judged.                                        *)
LEMMA ExaminedIsIndex == \A s \in Nat : Examined(s) \subseteq Index
<1> SUFFICES ASSUME NEW s \in Nat, NEW i \in Examined(s) PROVE i \in Index
  OBVIOUS
<1> DEFINE start == s % Stride
           n == (NumParticles - start + Stride - 1) \div Stride
<1>1. PICK k \in 0 .. n - 1 : i = start + k * Stride
  BY DEF Examined
<1>2. start \in 0 .. Stride - 1
  BY StrideIsPositive
<1>3. NumParticles \in Nat /\ Stride \in Nat \ {0}
  BY SizesAssumption, StrideIsPositive
<1>4. n * Stride <= NumParticles - start + Stride - 1
  BY <1>2, <1>3
<1>5. k * Stride <= (n - 1) * Stride
  BY <1>1, <1>2, <1>3
<1> QED BY <1>1, <1>2, <1>3, <1>4, <1>5 DEF Index

(* A particle is judged whenever the counter has its residue.              *)
LEMMA ResidueIsExamined ==
    \A i \in Index, s \in Nat : s % Stride = i % Stride => i \in Examined(s)
<1> SUFFICES ASSUME NEW i \in Index, NEW s \in Nat, s % Stride = i % Stride
             PROVE  i \in Examined(s)
  OBVIOUS
<1> DEFINE start == s % Stride
           k == i \div Stride
           n == (NumParticles - start + Stride - 1) \div Stride
<1>1. NumParticles \in Nat /\ Stride \in Nat \ {0} /\ i \in Nat /\ i < NumParticles
  BY SizesAssumption, StrideIsPositive DEF Index
<1>2. i = start + k * Stride /\ k \in Nat /\ start \in 0 .. Stride - 1
  BY <1>1
<1>3. (k + 1) * Stride <= NumParticles - start + Stride - 1
  BY <1>1, <1>2
<1>4. k + 1 <= n
  BY <1>1, <1>2, <1>3
<1>5. k \in 0 .. n - 1
  BY <1>1, <1>2, <1>4
<1> QED BY <1>2, <1>5 DEF Examined

(* Among as many consecutive numbers as there are residues, one has any     *)
(* given residue.                                                          *)
LEMMA ResidueIsReached ==
    \A m \in Nat \ {0}, s, i \in Nat : \E k \in 0 .. m - 1 : (s + k) % m = i % m
<1> SUFFICES ASSUME NEW m \in Nat \ {0}, NEW s \in Nat, NEW i \in Nat
             PROVE  \E k \in 0 .. m - 1 : (s + k) % m = i % m
  OBVIOUS
<1> DEFINE a == s % m
           b == i % m
           q == s \div m
<1>1. a \in 0 .. m - 1 /\ b \in 0 .. m - 1 /\ q \in Nat /\ s = q * m + a
  OBVIOUS
<1>2. CASE a <= b
  <2>1. s + (b - a) = q * m + b
    BY <1>1
  <2>2. (q * m + b) % m = b
    <3>1. b \in 0 .. m - 1 /\ q \in Int
      BY <1>1
    <3> HIDE DEF q, b
    <3> QED BY <3>1, DivisionIsUnique
  <2> QED BY <1>1, <1>2, <2>1, <2>2
<1>3. CASE b < a
  <2>1. s + (b - a + m) = (q + 1) * m + b
    BY <1>1
  <2>2. ((q + 1) * m + b) % m = b
    <3> DEFINE z == q + 1
    <3>1. b \in 0 .. m - 1 /\ z \in Int
      BY <1>1
    <3> HIDE DEF q, b, z
    <3>2. (z * m + b) % m = b
      BY <3>1, DivisionIsUnique
    <3> QED BY <3>2 DEF z
  <2>3. b - a + m \in 0 .. m - 1
    BY <1>1, <1>3
  <2> QED BY <1>1, <2>1, <2>2, <2>3
<1> QED BY <1>1, <1>2, <1>3

-----------------------------------------------------------------------------
(* Every particle is judged within Stride updates, or twice that at the    *)
(* wrap of the counter.                                                    *)
THEOREM FilterRotationCovers == Spec => []RotationCovers
<1>1. ASSUME shift \in 0 .. Word - 1 PROVE RotationCovers
  <2> USE SizesAssumption, StrideIsPositive, <1>1
  <2>1. Examined(shift) \subseteq Index
    BY ExaminedIsIndex
  <2>2. ASSUME NEW i \in Index, shift + Stride <= Word
        PROVE  \E k \in 0 .. Stride - 1 : i \in Examined(shift + k)
    <3>1. shift \in Nat /\ i \in Nat
      BY DEF Index
    <3>2. PICK k \in 0 .. Stride - 1 : (shift + k) % Stride = i % Stride
      BY <3>1, ResidueIsReached, Zenon
    <3>3. shift + k \in Nat
      BY <3>1, <3>2
    <3> QED BY <3>2, <3>3, ResidueIsExamined, Zenon
  <2>3. ASSUME NEW i \in Index, Stride <= Word
        PROVE  \E k \in 0 .. 2 * Stride - 2 : i \in Examined((shift + k) % Word)
    <3>1. CASE shift + Stride <= Word
      <4>1. PICK k \in 0 .. Stride - 1 : i \in Examined(shift + k)
        BY <2>2, <3>1
      <4>2. (shift + k) % Word = shift + k
        BY <3>1
      <4> QED BY <4>1, <4>2
    <3>2. CASE shift + Stride > Word
      <4>1. PICK j \in 0 .. Stride - 1 : (0 + j) % Stride = i % Stride
        BY ResidueIsReached DEF Index
      <4>2. i \in Examined(j)
        BY <4>1, ResidueIsExamined
      <4>3. Word - shift + j \in 0 .. 2 * Stride - 2
        BY <3>2
      <4>4. (shift + (Word - shift + j)) % Word = j
        BY <2>3
      <4> QED BY <4>2, <4>3, <4>4
    <3> QED BY <3>1, <3>2
  <2> QED BY <2>1, <2>2, <2>3 DEF RotationCovers
<1> QED BY <1>1, ShiftInWord, PTL

-----------------------------------------------------------------------------
(* With no more to skip than there are particles, some particle is judged. *)
LEMMA SomeIsExamined ==
    \A s \in Nat : Skip <= NumParticles =>
        Examined(s) # {} /\ IsFiniteSet(Examined(s))
<1> SUFFICES ASSUME NEW s \in Nat, Skip <= NumParticles
             PROVE  Examined(s) # {} /\ IsFiniteSet(Examined(s))
  OBVIOUS
<1>1. s % Stride \in Index /\ (s % Stride) % Stride = s % Stride
  BY SizesAssumption, StrideIsPositive DEF Index, Stride
<1>2. Examined(s) # {}
  BY <1>1, ResidueIsExamined
<1>3. IsFiniteSet(Index)
  BY SizesAssumption, FS_Interval DEF Index
<1> QED BY <1>2, <1>3, ExaminedIsIndex, FS_Subset

(* A belief that is wrong everywhere is reset by the first scan that shows *)
(* it, and one that is right everywhere is not, whichever are judged.      *)
THEOREM FilterWrongBeliefIsReset == Spec => WrongBeliefIsReset
<1> DEFINE A == pc = "rate" /\ Skip <= NumParticles /\ EnableExpansionResetting =>
        /\ 0 < Threshold[1] /\ (\A i \in Index : WallConflict(particles[i]))
              => pc' = "expand"
        /\ Threshold[1] <= Threshold[2] /\ (\A i \in Index : ~WallConflict(particles[i]))
              => pc' = "normalize"
<1>1. ASSUME shift \in 0 .. Word - 1, Next PROVE A
  <2> SUFFICES ASSUME pc = "rate", Skip <= NumParticles, EnableExpansionResetting
               PROVE  A
    OBVIOUS
  <2> DEFINE judged == Examined(shift)
  <2>1. alpha' = Rate(judged)
        /\ pc' = IF BelowThreshold(alpha') THEN "expand" ELSE "normalize"
    BY <1>1
    DEF Next, Initialize, SimpleReset, SetScan, MotionUpdate, Weigh,
        NonPenetrationRate, ExpansionReset, NormalizeBelief, Resampling, Publish
  <2>2. shift \in Nat
    BY <1>1
  <2>3. judged # {} /\ IsFiniteSet(judged) /\ judged \subseteq Index
    BY <2>2, SomeIsExamined, ExaminedIsIndex
  <2>4. Cardinality(judged) \in Nat /\ Cardinality(judged) > 0
    BY <2>3, FS_CardinalityType, FS_EmptySet
  <2>5. Threshold[1] \in Nat /\ Threshold[2] \in Nat \ {0}
    BY ThresholdAssumption
  <2>6. ASSUME 0 < Threshold[1], \A i \in Index : WallConflict(particles[i])
        PROVE  pc' = "expand"
    <3>1. {i \in judged : ~WallConflict(particles[i])} = {}
      BY <2>3, <2>6
    <3>2. alpha'.right = 0 /\ alpha'.of = Cardinality(judged)
      BY <2>1, <3>1, FS_EmptySet DEF Rate
    <3>3. 0 < Threshold[1] * Cardinality(judged)
      BY <2>4, <2>5, <2>6
    <3> QED BY <2>1, <2>5, <3>2, <3>3 DEF BelowThreshold
  <2>7. ASSUME Threshold[1] <= Threshold[2],
               \A i \in Index : ~WallConflict(particles[i])
        PROVE  pc' = "normalize"
    <3>1. {i \in judged : ~WallConflict(particles[i])} = judged
      BY <2>3, <2>7
    <3>2. alpha'.right = Cardinality(judged) /\ alpha'.of = Cardinality(judged)
      BY <2>1, <3>1 DEF Rate
    <3>3. ~(Cardinality(judged) * Threshold[2] < Threshold[1] * Cardinality(judged))
      BY <2>4, <2>5, <2>7
    <3> QED BY <2>1, <3>2, <3>3 DEF BelowThreshold
  <2> QED BY <2>6, <2>7
<1>2. shift \in 0 .. Word - 1 /\ [Next]_vars => [A]_vars
  BY <1>1
<1> QED BY <1>2, ShiftInWord, PTL DEF Spec, WrongBeliefIsReset

-----------------------------------------------------------------------------
(* The weights, followed through an update.                                *)
Pt(x, t, w) == [x |-> x, t |-> t, w |-> w]

Shaped(p) ==
    /\ p = [i \in Index |-> p[i]]
    /\ \A i \in Index :
        /\ p[i] = Pt(p[i].x, p[i].t, p[i].w)
        /\ p[i].x \in Int /\ p[i].t \in Int /\ p[i].w \in Nat

WeightInv ==
    /\ Shaped(particles)
    /\ total \in Nat \ {0}
    /\ scan \in Scans
    /\ pc = "rate" =>
         \A i \in Index : particles[i].w = before[i].w * Likelihood(particles[i])
    /\ WeightOfThisPose

(* What the operations make of a particle.                                 *)
LEMMA PtFields ==
    \A x, t, w : Pt(x, t, w).x = x /\ Pt(x, t, w).t = t /\ Pt(x, t, w).w = w
BY DEF Pt

Placed(q, x, t) == [q EXCEPT !.x = x, !.t = t]
Weighted(q, w) == [q EXCEPT !.w = w]

LEMMA PlaceOf ==
    \A x, t, w, u, v : Placed(Pt(x, t, w), u, v) = Pt(u, v, w)
<1> SUFFICES ASSUME NEW x, NEW t, NEW w, NEW u, NEW v
             PROVE  Placed(Pt(x, t, w), u, v) = Pt(u, v, w)
  OBVIOUS
<1>1. [Pt(x, t, w) EXCEPT !.x = u] = Pt(u, t, w)
  BY DEF Pt
<1>2. [Pt(u, t, w) EXCEPT !.t = v] = Pt(u, v, w)
  BY DEF Pt
<1>3. Placed(Pt(x, t, w), u, v) = [[Pt(x, t, w) EXCEPT !.x = u] EXCEPT !.t = v]
  BY DEF Placed
<1> QED BY <1>1, <1>2, <1>3, Zenon

LEMMA MoveOf ==
    \A x, t, l, r \in Int : \A w :
        Move(Pt(x, t, w), l, r) = Pt(x + l, NormalizeAngle(t + r), w)
<1> SUFFICES ASSUME NEW x \in Int, NEW t \in Int, NEW l \in Int, NEW r \in Int, NEW w
             PROVE  Move(Pt(x, t, w), l, r) = Pt(x + l, NormalizeAngle(t + r), w)
  OBVIOUS
<1> DEFINE a == NormalizeAngle(t + r)
           q == Pt(x, t, w)
<1>1. q.x = x /\ q.t = t
  BY PtFields
<1>2. Move(q, l, r) = Placed(q, x + l, a)
  BY <1>1 DEF Move, Placed
<1> HIDE DEF a
<1>3. Placed(q, x + l, a) = Pt(x + l, a, w)
  BY PlaceOf
<1> QED BY <1>2, <1>3 DEF a

LEMMA ShiftedOf ==
    \A x, t, w, d : Shifted(Pt(x, t, w), d) = Pt(x + d.x, t + d.t, w)
<1> SUFFICES ASSUME NEW x, NEW t, NEW w, NEW d
             PROVE  Shifted(Pt(x, t, w), d) = Pt(x + d.x, t + d.t, w)
  OBVIOUS
<1> DEFINE a == x + d.x
           b == t + d.t
           q == Pt(x, t, w)
<1>1. q.x = x /\ q.t = t
  BY PtFields
<1>2. Shifted(q, d) = Placed(q, a, b)
  BY <1>1 DEF Shifted, Placed
<1> HIDE DEF a, b
<1>3. Placed(q, a, b) = Pt(a, b, w)
  BY PlaceOf
<1> QED BY <1>2, <1>3 DEF a, b

LEMMA AtOf == \A q, w : At(q, w) = Pt(q.x, q.t, w)
BY DEF At, Pt

LEMMA WeightOf ==
    \A x, t, w, v : Weighted(Pt(x, t, w), v) = Pt(x, t, v)
BY DEF Pt, Weighted

LEMMA NormalizeAngleType == \A t \in Int : NormalizeAngle(t) \in Int
BY PiAssumption DEF NormalizeAngle, Normalized

LEMMA LikelihoodType ==
    ASSUME scan \in Scans, NEW q, q.t \in Int PROVE Likelihood(q) \in Nat
<1>1. Get16bitRepresentation(q.t) \in Direction
  BY PiAssumption DEF Get16bitRepresentation, Direction
<1>2. scan.likelihood \in [Direction -> Nat]
  BY ScansAssumption DEF ScanRecord
<1> QED BY <1>1, <1>2 DEF Likelihood

(* The resampling picks a particle.                                        *)
LEMMA TickIsIndex == \A u \in 0 .. Grain, i \in Index : Tick(u, i) \in Index
<1> SUFFICES ASSUME NEW u \in 0 .. Grain, NEW i \in Index PROVE Tick(u, i) \in Index
  OBVIOUS
<1> DEFINE past ==
      {k \in Index : Accum(k) * NumParticles * Grain > (u + i * Grain) * total}
<1>1. past \in SUBSET Nat /\ past \subseteq Index /\ NumParticles - 1 \in Index
  BY SizesAssumption DEF Index
<1>2. Tick(u, i) = IF past = {} THEN NumParticles - 1 ELSE Min(past)
  BY DEF Tick
<1> HIDE DEF past
<1> QED BY <1>1, <1>2, MinIsLeast

(* The sum of the weights is a natural.                                    *)
LEMMA SumOfWeights ==
    ASSUME Shaped(particles)
    PROVE  Sum(LAMBDA i : particles[i].w) \in Nat
<1> DEFINE f == [i \in Index |-> particles[i].w]
<1>1. IsFiniteSet(Index)
  BY SizesAssumption, FS_Interval DEF Index
<1>2. \A i \in Index : f[i] \in Nat
  BY DEF Shaped
<1> HIDE DEF f
<1>3. SumFunctionOnSet(f, Index) \in Nat
  BY <1>1, <1>2, SumIsNat
<1> QED BY <1>3 DEF f, Sum, SumOver

LEMMA WeightInvInit == Init => WeightInv
<1> SUFFICES ASSUME Init PROVE WeightInv
  OBVIOUS
<1>1. PICK q \in InitPoses : particles = [i \in Index |-> At(q, 1)]
  BY DEF Init
<1>2. Shaped(particles)
  BY <1>1, PosesAssumption, AtOf, PtFields DEF Shaped, PoseRecord
<1> QED BY <1>2, SizesAssumption DEF Init, WeightInv, WeightOfThisPose

LEMMA WeightInvStep == WeightInv /\ [Next]_vars => WeightInv'
<1> SUFFICES ASSUME WeightInv, [Next]_vars PROVE WeightInv'
  OBVIOUS
<1>1. CASE Initialize
  <2>1. PICK q \in InitPoses : particles' = [i \in Index |-> At(q, 1)]
    BY <1>1 DEF Initialize
  <2>2. Shaped(particles')
    BY <2>1, PosesAssumption, AtOf, PtFields DEF Shaped, PoseRecord
  <2> QED BY <1>1, <2>2, SizesAssumption DEF WeightInv, Initialize, WeightOfThisPose
<1>2. CASE SimpleReset
  <2>1. PICK poses \in [Index -> FreePoses] :
          particles' = [i \in Index |->
              IF i < FreeCells THEN At(poses[i], total)
              ELSE [particles[i] EXCEPT !.w = @ * NumParticles]]
    BY <1>2 DEF SimpleReset
  <2>2. \A i \in Index : particles'[i] =
          IF i < FreeCells THEN Pt(poses[i].x, poses[i].t, total)
          ELSE Pt(particles[i].x, particles[i].t, particles[i].w * NumParticles)
    BY <2>1, AtOf, WeightOf DEF WeightInv, Shaped, Weighted
  <2>3. \A i \in Index : poses[i].x \in Int /\ poses[i].t \in Int
    BY PosesAssumption DEF PoseRecord
  <2>4. \A i \in Index : total \in Nat /\ particles[i].w * NumParticles \in Nat
    BY SizesAssumption DEF WeightInv, Shaped
  <2>5. Shaped(particles')
    BY <2>1, <2>2, <2>3, <2>4, PtFields DEF WeightInv, Shaped
  <2>6. total' \in Nat \ {0}
    BY <1>2, SizesAssumption DEF WeightInv, SimpleReset
  <2> QED BY <1>2, <2>5, <2>6 DEF WeightInv, SimpleReset, WeightOfThisPose
<1>3. CASE \E s \in Scans : SetScan(s)
  BY <1>3 DEF WeightInv, SetScan, WeightOfThisPose
<1>4. CASE MotionUpdate
  <2>1. CASE UNCHANGED particles
    BY <1>4, <2>1 DEF WeightInv, MotionUpdate, Shaped, WeightOfThisPose
  <2>2. ASSUME NEW noise \in [Index -> Noises],
               particles' = [i \in Index |-> Move(particles[i], noise[i].x, noise[i].t)]
        PROVE  WeightInv'
    <3>1. \A i \in Index : noise[i].x \in Int /\ noise[i].t \in Int
      BY DisplacementsAssumption DEF Displacement
    <3>2. \A i \in Index : particles'[i] =
            Pt(particles[i].x + noise[i].x, NormalizeAngle(particles[i].t + noise[i].t),
               particles[i].w)
      BY <2>2, <3>1, MoveOf DEF WeightInv, Shaped
    <3>3. \A i \in Index : particles[i].x + noise[i].x \in Int
                         /\ NormalizeAngle(particles[i].t + noise[i].t) \in Int
      BY <3>1, NormalizeAngleType DEF WeightInv, Shaped
    <3>4. Shaped(particles')
      BY <2>2, <3>2, <3>3, PtFields DEF WeightInv, Shaped
    <3>5. pc' = "weigh" /\ UNCHANGED <<total, scan>>
      BY <1>4 DEF MotionUpdate
    <3> QED BY <3>4, <3>5 DEF WeightInv, WeightOfThisPose
  <2> QED BY <1>4, <2>1, <2>2 DEF MotionUpdate
<1>5. CASE Weigh
  <2>1. CASE UNCHANGED particles /\ pc' = "publish"
    BY <1>5, <2>1 DEF WeightInv, Weigh, Shaped, WeightOfThisPose
  <2>2. CASE particles' = Weighed(particles) /\ pc' = "rate"
    <3>1. \A i \in Index : particles'[i] =
            Pt(particles[i].x, particles[i].t, particles[i].w * Likelihood(particles[i]))
      BY <2>2, WeightOf DEF WeightInv, Shaped, Weighed, Weighted
    <3>2. Shaped(particles')
      <4>1. \A i \in Index : Likelihood(particles[i]) \in Nat
        BY LikelihoodType DEF WeightInv, Shaped
      <4>2. \A i \in Index : particles[i].w * Likelihood(particles[i]) \in Nat
        BY <4>1 DEF WeightInv, Shaped
      <4>3. particles' = [i \in Index |-> particles'[i]]
        BY <2>2 DEF Weighed
      <4> QED BY <3>1, <4>2, <4>3, PtFields DEF WeightInv, Shaped
    <3>3. before' = particles /\ scan' = scan
      BY <1>5 DEF Weigh
    <3>4. \A i \in Index :
            particles'[i].w = before'[i].w * Likelihood(particles[i])
            /\ Likelihood(particles[i])' = Likelihood(particles[i])
      BY <3>1, <3>3, PtFields DEF Likelihood
    <3> QED BY <1>5, <3>2, <3>3, <3>4 DEF WeightInv, Weigh, WeightOfThisPose
  <2> QED BY <1>5, <2>1, <2>2 DEF Weigh
<1>6. CASE NonPenetrationRate
  <2> DEFINE wrong == {i \in Examined(shift) : SensorReset /\ WallConflict(particles[i])}
  <2>1. PICK d \in [wrong -> Drags] :
          particles' = [i \in Index |->
              IF i \in wrong THEN Shifted(particles[i], d[i]) ELSE particles[i]]
    BY <1>6 DEF NonPenetrationRate
  <2>2. dragged' = wrong /\ UNCHANGED <<before, scan, total>> /\ pc = "rate"
        /\ pc' \in {"expand", "normalize"}
    BY <1>6 DEF NonPenetrationRate
  <2> HIDE DEF wrong
  <2>3. \A i \in wrong : d[i].x \in Int /\ d[i].t \in Int
    BY DisplacementsAssumption DEF Displacement
  <2>4. \A i \in Index : particles'[i] =
          IF i \in wrong
          THEN Pt(particles[i].x + d[i].x, particles[i].t + d[i].t, particles[i].w)
          ELSE particles[i]
    BY <2>1, ShiftedOf DEF WeightInv, Shaped
  <2>5. Shaped(particles')
    BY <2>1, <2>3, <2>4, PtFields DEF WeightInv, Shaped
  <2>6. \A i \in Index \ dragged' :
          particles'[i].w = before'[i].w * Likelihood(particles[i])'
    BY <2>2, <2>4 DEF WeightInv, Likelihood
  <2> QED BY <2>2, <2>5, <2>6 DEF WeightInv, WeightOfThisPose
<1>7. CASE ExpansionReset
  <2>1. PICK d \in [Index -> Spread] : particles' = Expanded(d)
    BY <1>7 DEF ExpansionReset
  <2>2. scan' = scan /\ pc' = "normalize"
    BY <1>7 DEF ExpansionReset
  <2>3. \A i \in Index : d[i].x \in Int /\ d[i].t \in Int
    BY DisplacementsAssumption DEF Displacement
  <2> DEFINE at(i) == Pt(particles[i].x + d[i].x, particles[i].t + d[i].t, 1)
  <2>4. \A i \in Index : [Shifted(particles[i], d[i]) EXCEPT !.w = 1] = at(i)
    BY ShiftedOf, WeightOf DEF WeightInv, Shaped, Weighted
  <2>5. \A i \in Index : at(i).t \in Int /\ Likelihood(at(i)) \in Nat
    <3>1. \A i \in Index : at(i).t \in Int
      BY <2>3, PtFields DEF WeightInv, Shaped
    <3> HIDE DEF at
    <3> QED BY <3>1, LikelihoodType DEF WeightInv
  <2>6. \A i \in Index : particles'[i] = [at(i) EXCEPT !.w = at(i).w * Likelihood(at(i))]
    BY <2>1, <2>4 DEF Expanded, Weighed
  <2>7. \A i \in Index : particles'[i] =
          Pt(particles[i].x + d[i].x, particles[i].t + d[i].t, Likelihood(at(i)))
    <3> SUFFICES ASSUME NEW i \in Index
                 PROVE  particles'[i] = Pt(particles[i].x + d[i].x,
                                           particles[i].t + d[i].t, Likelihood(at(i)))
      OBVIOUS
    <3>1. at(i).w * Likelihood(at(i)) = Likelihood(at(i))
      BY <2>5, PtFields
    <3>2. particles'[i] = Weighted(at(i), Likelihood(at(i)))
      BY <2>6, <3>1 DEF Weighted
    <3> QED BY <3>2, WeightOf
  <2>8. Shaped(particles')
    <3>1. particles' = [i \in Index |-> particles'[i]]
      BY <2>1 DEF Expanded, Weighed
    <3>2. \A i \in Index : particles[i].x + d[i].x \in Int
                         /\ particles[i].t + d[i].t \in Int
      BY <2>3 DEF WeightInv, Shaped
    <3> HIDE DEF at
    <3> QED BY <2>5, <2>7, <3>1, <3>2, PtFields DEF Shaped
  <2>9. \A i \in Index : particles'[i].w = Likelihood(particles[i])'
    BY <2>2, <2>7, PtFields DEF Likelihood
  <2>10. total' \in Nat \ {0}
    BY <1>7, SizesAssumption DEF ExpansionReset
  <2> QED BY <2>2, <2>8, <2>9, <2>10 DEF WeightInv, WeightOfThisPose
<1>8. CASE NormalizeBelief
  <2>1. pc' \in {"resample", "publish"} /\ scan' = scan
    BY <1>8 DEF NormalizeBelief
  <2>2. \/ particles' = particles
        \/ particles' = [i \in Index |-> [particles[i] EXCEPT !.w = 1]]
    BY <1>8 DEF NormalizeBelief
  <2>3. Shaped(particles')
    <3>1. CASE particles' = particles
      BY <3>1 DEF WeightInv
    <3>2. CASE particles' = [i \in Index |-> [particles[i] EXCEPT !.w = 1]]
      <4>1. \A i \in Index : particles'[i] = Pt(particles[i].x, particles[i].t, 1)
        BY <3>2, WeightOf DEF WeightInv, Shaped, Weighted
      <4> QED BY <3>2, <4>1, PtFields DEF WeightInv, Shaped
    <3> QED BY <2>2, <3>1, <3>2
  <2>4. total' \in Nat \ {0}
    <3> DEFINE sum == Sum(LAMBDA i : particles[i].w)
    <3>1. CASE sum * Negligible > total
      <4>1. sum \in Nat
        BY SumOfWeights DEF WeightInv
      <4>2. total' = sum
        BY <1>8, <3>1 DEF NormalizeBelief
      <4> HIDE DEF sum
      <4> QED BY <3>1, <4>1, <4>2, SizesAssumption DEF WeightInv
    <3>2. CASE ~(sum * Negligible > total)
      BY <1>8, <3>2, SizesAssumption DEF NormalizeBelief
    <3> QED BY <3>1, <3>2
  <2> QED BY <2>1, <2>3, <2>4 DEF WeightInv, WeightOfThisPose
<1>9. CASE Resampling
  <2>1. PICK u \in 0 .. Grain : particles' = [i \in Index |-> particles[Tick(u, i)]]
    BY <1>9 DEF Resampling
  <2>2. \A i \in Index : Tick(u, i) \in Index
    BY TickIsIndex
  <2>3. Shaped(particles')
    BY <2>1, <2>2 DEF WeightInv, Shaped
  <2> QED BY <1>9, <2>3 DEF WeightInv, Resampling, WeightOfThisPose
<1>10. CASE Publish
  BY <1>10 DEF WeightInv, Publish, Shaped, WeightOfThisPose
<1>11. CASE UNCHANGED vars
  BY <1>11 DEF WeightInv, vars, Shaped, WeightOfThisPose, Likelihood
<1> QED
  BY <1>1, <1>2, <1>3, <1>4, <1>5, <1>6, <1>7, <1>8, <1>9, <1>10, <1>11 DEF Next

-----------------------------------------------------------------------------
(* The other variables.  alpha is a fraction, since what is right is among *)
(* what is judged.                                                         *)
RestTyped ==
    /\ fresh \in BOOLEAN
    /\ alpha \in [right : Nat, of : Nat] /\ alpha.right <= alpha.of
    /\ pc \in {"idle", "move", "weigh", "rate", "expand",
               "normalize", "resample", "publish"}
    /\ turns \in 0 .. MaxTurns
    /\ Shaped(before)
    /\ dragged \subseteq Index

LEMMA RateIsFraction ==
    \A s \in Nat : /\ Rate(Examined(s)) \in [right : Nat, of : Nat]
                  /\ Rate(Examined(s)).right <= Rate(Examined(s)).of
<1> SUFFICES ASSUME NEW s \in Nat
             PROVE  /\ Rate(Examined(s)) \in [right : Nat, of : Nat]
                    /\ Rate(Examined(s)).right <= Rate(Examined(s)).of
  OBVIOUS
<1> DEFINE judged == Examined(s)
           right == {i \in judged : ~WallConflict(particles[i])}
<1>1. IsFiniteSet(Index) /\ judged \subseteq Index
  BY SizesAssumption, FS_Interval, ExaminedIsIndex DEF Index
<1>2. IsFiniteSet(judged) /\ right \subseteq judged
  BY <1>1, FS_Subset
<1>3. /\ Cardinality(judged) \in Nat /\ Cardinality(right) \in Nat
      /\ Cardinality(right) <= Cardinality(judged)
  BY <1>2, FS_Subset, FS_CardinalityType
<1> QED BY <1>3 DEF Rate

LEMMA RestTypedInit == Init => RestTyped
BY WeightInvInit, SizesAssumption DEF Init, RestTyped, WeightInv

LEMMA RestTypedStep ==
    WeightInv /\ RestTyped /\ shift \in 0 .. Word - 1 /\ [Next]_vars => RestTyped'
<1> SUFFICES ASSUME WeightInv, RestTyped, shift \in 0 .. Word - 1, [Next]_vars
             PROVE  RestTyped'
  OBVIOUS
<1> USE SizesAssumption DEF RestTyped
<1>1. CASE Initialize
  BY <1>1 DEF Initialize
<1>2. CASE SimpleReset
  BY <1>2 DEF SimpleReset
<1>3. CASE \E s \in Scans : SetScan(s)
  BY <1>3 DEF SetScan
<1>4. CASE MotionUpdate
  BY <1>4 DEF MotionUpdate
<1>5. CASE Weigh
  <2>1. Shaped(before')
    BY <1>5 DEF Weigh, WeightInv
  <2> QED BY <1>5, <2>1 DEF Weigh
<1>6. CASE NonPenetrationRate
  <2>1. alpha' = Rate(Examined(shift)) /\ dragged' \subseteq Examined(shift)
        /\ pc' \in {"expand", "normalize"} /\ UNCHANGED <<fresh, turns, before>>
    BY <1>6 DEF NonPenetrationRate
  <2>2. Examined(shift) \subseteq Index
    BY ExaminedIsIndex
  <2> QED BY <2>1, <2>2, RateIsFraction
<1>7. CASE ExpansionReset
  BY <1>7 DEF ExpansionReset
<1>8. CASE NormalizeBelief
  BY <1>8 DEF NormalizeBelief
<1>9. CASE Resampling
  BY <1>9 DEF Resampling
<1>10. CASE Publish
  <2>1. Shaped(before')
    BY <1>10 DEF Publish, WeightInv
  <2> QED BY <1>10, <2>1 DEF Publish
<1>11. CASE UNCHANGED vars
  BY <1>11 DEF vars
<1> QED
  BY <1>1, <1>2, <1>3, <1>4, <1>5, <1>6, <1>7, <1>8, <1>9, <1>10, <1>11 DEF Next

LEMMA FilterInvariant ==
    Spec => [](WeightInv /\ RestTyped /\ shift \in 0 .. Word - 1)
<1>1. WeightInv /\ RestTyped /\ shift \in 0 .. Word - 1 /\ [Next]_vars
        => (WeightInv /\ RestTyped)'
  BY WeightInvStep, RestTypedStep
<1>2. Init => WeightInv /\ RestTyped
  BY WeightInvInit, RestTypedInit
<1> QED BY <1>1, <1>2, ShiftInWord, PTL DEF Spec

LEMMA ShapedIsTyped ==
    ASSUME NEW p, Shaped(p) PROVE p \in [Index -> [x : Int, t : Int, w : Nat]]
BY DEF Shaped, Pt

(* Poses stay on the plane, weights are naturals, and their total, by which *)
(* normalizeBelief() divides, is never zero.                               *)
THEOREM FilterTypeOK == Spec => []TypeOK
<1>1. WeightInv /\ RestTyped /\ shift \in 0 .. Word - 1 => TypeOK
  BY ShapedIsTyped DEF WeightInv, RestTyped, TypeOK
<1> QED BY <1>1, FilterInvariant, PTL

(* A weight is the one brought to the scan times the likelihood of the pose *)
(* the particle has when the belief is normalized, unless it was dragged.  *)
THEOREM FilterWeightOfThisPose == Spec => []WeightOfThisPose
<1>1. WeightInv => WeightOfThisPose
  BY DEF WeightInv
<1> QED BY <1>1, WeightInvInit, WeightInvStep, PTL DEF Spec

-----------------------------------------------------------------------------
(* The particles are a vector as meanPose() takes it.                      *)
LEMMA ParticlesAreAVector ==
    WeightInv => Vector(particles) /\ DOMAIN particles \subseteq Nat
<1> SUFFICES ASSUME WeightInv
             PROVE  Vector(particles) /\ DOMAIN particles \subseteq Nat
  OBVIOUS
<1>1. Shaped(particles)
  BY DEF WeightInv
<1>2. DOMAIN particles = Index
  BY <1>1 DEF Shaped
<1>3. IsFiniteSet(Index) /\ 0 \in Index /\ Index \subseteq Nat
  BY SizesAssumption, FS_Interval DEF Index
<1>4. \A i \in Index : particles[i].x \in Int /\ particles[i].t \in Int
  BY <1>1 DEF Shaped
<1> QED BY <1>2, <1>3, <1>4 DEF Vector

(* Whatever the filter has been through, the covariances it publishes are  *)
(* those of some distribution.                                             *)
THEOREM FilterCovarianceIsPossible == Spec => []CovarianceIsPossible
<1>1. WeightInv => CovarianceIsPossible
  BY ParticlesAreAVector, CovarianceOfMean DEF CovarianceIsPossible
<1> QED BY <1>1, WeightInvInit, WeightInvStep, PTL DEF Spec

(* And the heading it publishes is the mean along the arc on which the     *)
(* headings of the counted particles lie.                                  *)
THEOREM FilterMeanHeading == Spec => []MeanHeading
<1>1. WeightInv => MeanHeading
  BY ParticlesAreAVector, HeadingOfMean DEF MeanHeading
<1> QED BY <1>1, WeightInvInit, WeightInvStep, PTL DEF Spec

(* And its largest cluster is one mode, where modes are apart.             *)
THEOREM FilterClusterIsOneMode == Spec => []ClusterIsOneMode
<1>1. WeightInv => ClusterIsOneMode
  BY ParticlesAreAVector, ClusterOfModes DEF ClusterIsOneMode
<1> QED BY <1>1, WeightInvInit, WeightInvStep, PTL DEF Spec

-----------------------------------------------------------------------------
(* Resampling.  The weights that resampling() walks through add up to the  *)
(* total it divides by.                                                    *)
TotalInv == pc = "resample" => total = Sum(LAMBDA i : particles[i].w)

LEMMA TotalInvInit == Init => TotalInv
BY DEF Init, TotalInv

LEMMA SumUnchanged ==
    ASSUME particles' = particles
    PROVE  Sum(LAMBDA i : particles[i].w)' = Sum(LAMBDA i : particles[i].w)
BY Zenon DEF Sum, SumOver, Index

LEMMA TotalInvStep == TotalInv /\ [Next]_vars => TotalInv'
<1> SUFFICES ASSUME TotalInv, [Next]_vars PROVE TotalInv'
  OBVIOUS
<1>1. CASE NormalizeBelief
  <2>1. CASE pc' = "publish"
    BY <2>1 DEF TotalInv
  <2>2. CASE pc' = "resample"
    <3>1. particles' = particles /\ total' = Sum(LAMBDA i : particles[i].w)
      BY <1>1, <2>2, Zenon DEF NormalizeBelief
    <3>2. total' = Sum(LAMBDA i : particles[i].w)'
      BY <3>1, SumUnchanged, Zenon
    <3> QED BY <3>2, Zenon DEF TotalInv
  <2> QED BY <1>1, <2>1, <2>2 DEF NormalizeBelief
<1>2. CASE UNCHANGED vars
  <2>1. pc' = pc /\ total' = total /\ particles' = particles
    BY <1>2 DEF vars
  <2>2. Sum(LAMBDA i : particles[i].w)' = Sum(LAMBDA i : particles[i].w)
    BY <2>1, SumUnchanged, Zenon
  <2> QED BY <2>1, <2>2, Zenon DEF TotalInv
<1>3. CASE pc' # "resample"
  BY <1>3 DEF TotalInv
<1>4. ASSUME Next, ~NormalizeBelief PROVE pc' # "resample"
  BY <1>4
  DEF Next, Initialize, SimpleReset, SetScan, MotionUpdate, Weigh,
      NonPenetrationRate, ExpansionReset, Resampling, Publish
<1> QED BY <1>1, <1>2, <1>3, <1>4

(* The accumulated weight before a particle and with it.                   *)
Weights == [i \in Index |-> particles[i].w]
Before(k) == IF k = 0 THEN 0 ELSE Accum(k - 1)

LEMMA AccumOfWeights ==
    ASSUME Shaped(particles), NEW k \in Index
    PROVE  /\ Accum(k) = SumFunctionOnSet(Weights, 0 .. k)
           /\ 0 .. k \subseteq Index /\ IsFiniteSet(0 .. k)
<1>1. 0 .. k \subseteq Index /\ IsFiniteSet(0 .. k) /\ k \in Nat
  BY SizesAssumption, FS_Interval DEF Index
<1> DEFINE f == [i \in 0 .. k |-> particles[i].w]
<1>2. \A i \in 0 .. k : Weights[i] \in Int /\ f[i] = Weights[i]
  BY <1>1 DEF Weights, Shaped
<1>3. Accum(k) = SumFunctionOnSet(f, 0 .. k)
  BY Zenon DEF Accum, SumOver
<1> HIDE DEF f
<1>4. SumFunctionOnSet(f, 0 .. k) = SumFunctionOnSet(Weights, 0 .. k)
  BY <1>1, <1>2, SumOfSame
<1> QED BY <1>1, <1>3, <1>4

LEMMA Accumulates ==
    ASSUME Shaped(particles)
    PROVE  /\ \A k \in Index :
                /\ Accum(k) \in Nat /\ Before(k) \in Nat
                /\ particles[k].w \in Nat
                /\ Accum(k) = Before(k) + particles[k].w
           /\ \A i, k \in Index : i <= k => Accum(i) <= Accum(k)
           /\ Accum(NumParticles - 1) = Sum(LAMBDA i : particles[i].w)
<1>1. \A i \in Index : Weights[i] = particles[i].w /\ Weights[i] \in Nat
  BY DEF Weights, Shaped
<1>2. IsFiniteSet(Index) /\ NumParticles \in Nat \ {0}
  BY SizesAssumption, FS_Interval DEF Index
<1>3. ASSUME NEW k \in Index PROVE Accum(k) \in Nat
  <2>1. \A i \in 0 .. k : Weights[i] \in Nat
    BY <1>1, AccumOfWeights
  <2> QED BY <2>1, AccumOfWeights, SumIsNat
<1>4. ASSUME NEW i \in Index, NEW k \in Index, i <= k PROVE Accum(i) <= Accum(k)
  <2> DEFINE r == 0 .. i
             s == 0 .. k
  <2>1. r \in SUBSET s
    BY <1>4 DEF Index
  <2>2. IsFiniteSet(s) /\ \A l \in s : Weights[l] \in Nat
    BY <1>1, AccumOfWeights
  <2>3. Accum(i) = SumFunctionOnSet(Weights, r) /\ Accum(k) = SumFunctionOnSet(Weights, s)
    BY AccumOfWeights
  <2> HIDE DEF r, s
  <2> QED BY <2>1, <2>2, <2>3, SumOfMore
<1>5. ASSUME NEW k \in Index
      PROVE  Before(k) \in Nat /\ Accum(k) = Before(k) + particles[k].w
  <2> DEFINE s == 0 .. k
  <2>1. k \in s /\ k \in Nat
    BY DEF Index
  <2>2. IsFiniteSet(s) /\ \A l \in s : Weights[l] \in Int
    BY <1>1, AccumOfWeights
  <2>3. Accum(k) = Weights[k] + SumFunctionOnSet(Weights, s \ {k})
    <3>1. Accum(k) = SumFunctionOnSet(Weights, s)
      BY AccumOfWeights
    <3> HIDE DEF s
    <3> QED BY <2>1, <2>2, <3>1, SumOfRest
  <2>4. CASE k = 0
    <3>1. s \ {k} = {}
      BY <2>4
    <3>2. SumFunctionOnSet(Weights, s \ {k}) = 0
      BY <3>1, SumOfNone
    <3> QED BY <1>1, <2>3, <2>4, <3>2 DEF Before
  <2>5. CASE k # 0
    <3>1. k - 1 \in Index /\ s \ {k} = 0 .. k - 1
      <4>1. k \in Nat /\ k < NumParticles /\ k > 0 /\ NumParticles \in Nat
        BY <1>2, <2>1, <2>5 DEF Index
      <4>2. \A l : l \in (0 .. k) \ {k} <=> l \in 0 .. k - 1
        BY <4>1
      <4>3. (0 .. k) \ {k} = 0 .. k - 1
        BY <4>2, Zenon
      <4> QED BY <4>1, <4>3 DEF Index
    <3>2. Accum(k - 1) = SumFunctionOnSet(Weights, s \ {k}) /\ Accum(k - 1) \in Nat
      BY <1>3, <3>1, AccumOfWeights
    <3>3. Before(k) = Accum(k - 1)
      BY <2>5 DEF Before
    <3> QED BY <1>1, <2>3, <3>2, <3>3
  <2> QED BY <2>4, <2>5
<1>6. Accum(NumParticles - 1) = Sum(LAMBDA i : particles[i].w)
  BY Zenon DEF Accum, Sum, Index
<1> QED BY <1>1, <1>3, <1>4, <1>5, <1>6

(* Weights and targets on the scale on which Tick() compares them.          *)
Reach(k) == Accum(k) * NumParticles * Grain
Target(u, i) == (u + i * Grain) * total
Sampled == Shaped(particles) /\ total \in Nat \ {0}
           /\ total = Sum(LAMBDA i : particles[i].w)

LEMMA ReachAndTarget ==
    ASSUME Sampled
    PROVE  /\ \A k \in Index : Reach(k) \in Nat /\ Reach(k) <= Reach(NumParticles - 1)
           /\ \A i, k \in Index : i <= k => Reach(i) <= Reach(k)
           /\ Reach(NumParticles - 1) = NumParticles * Grain * total
           /\ NumParticles - 1 \in Index
           /\ \A u, i \in Int : Target(u, i) \in Int
           /\ \A u, i, k \in Int : i <= k => Target(u, i) <= Target(u, k)
<1>1. NumParticles \in Nat \ {0} /\ Grain \in Nat \ {0} /\ total \in Nat \ {0}
  BY SizesAssumption DEF Sampled
<1>2. NumParticles - 1 \in Index /\ \A k \in Index : k \in Int /\ k <= NumParticles - 1
  BY <1>1 DEF Index
<1>3. ASSUME NEW i \in Index, NEW k \in Index, i <= k
      PROVE  Reach(i) \in Nat /\ Reach(i) <= Reach(k)
  <2>1. Accum(i) \in Nat /\ Accum(k) \in Nat /\ Accum(i) <= Accum(k)
    BY <1>3, Accumulates DEF Sampled
  <2> DEFINE a == Accum(i)
             b == Accum(k)
             n == NumParticles
             g == Grain
  <2>2. a \in Nat /\ b \in Nat /\ a <= b /\ n \in Nat /\ g \in Nat
    BY <1>1, <2>1
  <2> SUFFICES a * n * g \in Nat /\ a * n * g <= b * n * g
    BY DEF Reach
  <2> HIDE DEF a, b, n, g
  <2>3. a * n <= b * n /\ a * n \in Nat /\ b * n \in Nat
    BY <2>2, TimesIsMonotone
  <2> QED BY <2>2, <2>3, TimesIsMonotone
<1>4. Reach(NumParticles - 1) = NumParticles * Grain * total
  <2>1. Accum(NumParticles - 1) = total
    BY Accumulates DEF Sampled
  <2>2. Reach(NumParticles - 1) = total * NumParticles * Grain
    BY <2>1 DEF Reach
  <2> QED BY <1>1, <2>2
<1>5. ASSUME NEW u \in Int, NEW i \in Int, NEW k \in Int, i <= k
      PROVE  Target(u, i) \in Int /\ Target(u, i) <= Target(u, k)
  <2> DEFINE g == Grain
             t == total
             a == u + i * g
             b == u + k * g
  <2>1. g \in Nat /\ t \in Nat
    BY <1>1
  <2>2. i * g <= k * g /\ i * g \in Int /\ k * g \in Int
    <3> HIDE DEF g
    <3> QED BY <1>5, <2>1, TimesIsMonotone
  <2>3. a \in Int /\ b \in Int /\ a <= b
    BY <2>2
  <2> SUFFICES a * t \in Int /\ a * t <= b * t
    BY DEF Target
  <2> HIDE DEF a, b, t
  <2> QED BY <2>1, <2>3, TimesIsMonotone
<1>6. \A u, i \in Int : Target(u, i) \in Int
  <2> TAKE u \in Int, i \in Int
  <2> QED BY <1>5
<1> QED BY <1>2, <1>3, <1>4, <1>5, <1>6

(* The particle at which the walk stops for the i-th target, compared with  *)
(* any other: weight and target say which comes first.                     *)
LEMMA TickCompares ==
    ASSUME Sampled, NEW u \in 0 .. Grain, NEW i \in Index, NEW j \in Index
    PROVE  /\ Tick(u, i) > j => Reach(j) <= Target(u, i)
           /\ Tick(u, i) <= j =>
                \/ Target(u, i) < Reach(j)
                \/ /\ j = NumParticles - 1 /\ i = NumParticles - 1
                   /\ Target(u, i) <= Reach(j)
<1> DEFINE past ==
      {k \in Index : Accum(k) * NumParticles * Grain > (u + i * Grain) * total}
           n == NumParticles
<1>1. Tick(u, i) = IF past = {} THEN n - 1 ELSE Min(past)
  BY DEF Tick
<1>2. past = {k \in Index : Reach(k) > Target(u, i)}
  BY DEF Reach, Target
<1>3. past \in SUBSET Nat
  BY DEF Index
<1>4. past # {} => Min(past) \in past /\ \A y \in past : Min(past) <= y
  <2> HIDE DEF past
  <2> QED BY <1>3, MinIsLeast
<1>5. n \in Nat \ {0} /\ Grain \in Nat \ {0} /\ total \in Nat \ {0}
      /\ i \in Nat /\ i <= n - 1 /\ j \in Nat /\ j <= n - 1 /\ u \in Nat /\ u <= Grain
  BY SizesAssumption DEF Sampled, Index
<1>6. Reach(j) \in Nat /\ Target(u, i) \in Int /\ n - 1 \in Index
  BY <1>5, ReachAndTarget
<1> HIDE DEF past
<1>7. ASSUME Tick(u, i) > j PROVE Reach(j) <= Target(u, i)
  <2>1. j \notin past
    <3>1. CASE past = {}
      BY <3>1
    <3>2. CASE past # {}
      <4>1. Min(past) \in Nat /\ Min(past) > j
        BY <1>1, <1>3, <1>4, <1>7, <3>2
      <4> QED BY <1>4, <1>5, <3>2, <4>1
    <3> QED BY <3>1, <3>2
  <2> QED BY <1>2, <1>6, <2>1
<1>8. ASSUME Tick(u, i) <= j, past # {} PROVE Target(u, i) < Reach(j)
  <2>1. Min(past) \in Index /\ Reach(Min(past)) > Target(u, i) /\ Min(past) <= j
    BY <1>1, <1>2, <1>4, <1>8
  <2>2. Reach(Min(past)) <= Reach(j) /\ Reach(Min(past)) \in Nat
    BY <2>1, ReachAndTarget
  <2> QED BY <1>6, <2>1, <2>2
<1>9. ASSUME Tick(u, i) <= j, past = {}
      PROVE  j = n - 1 /\ i = n - 1 /\ Target(u, i) <= Reach(j)
  <2>1. j = n - 1
    BY <1>1, <1>5, <1>9
  <2>2. Reach(j) = n * Grain * total
    BY <2>1, ReachAndTarget
  <2>3. ~(Reach(j) > Target(u, i))
    BY <1>2, <1>9
  <2> DEFINE a == n * Grain
             b == u + i * Grain
  <2>4. a \in Int /\ b \in Int
    BY <1>5
  <2>5. Target(u, i) = b * total /\ Reach(j) = a * total
    BY <2>2 DEF Target
  <2>6. a <= b
    <3>1. a * total <= b * total
      BY <1>6, <2>3, <2>5
    <3> HIDE DEF a, b
    <3> QED BY <1>5, <2>4, <3>1, TimesCancels
  <2>7. i = n - 1
    <3> SUFFICES ASSUME i + 1 <= n - 1 PROVE FALSE
      BY <1>5
    <3>1. (i + 1) * Grain <= (n - 1) * Grain
      BY <1>5, TimesIsMonotone
    <3>2. i * Grain \in Int /\ n * Grain \in Int
      BY <1>5
    <3>3. (i + 1) * Grain = i * Grain + Grain /\ (n - 1) * Grain = n * Grain - Grain
      BY <1>5
    <3> QED BY <1>5, <2>6, <3>1, <3>2, <3>3
  <2>8. b <= a
    <3>1. (n - 1) * Grain = n * Grain - Grain /\ n * Grain \in Int
      BY <1>5
    <3> QED BY <1>5, <2>7, <3>1
  <2>9. b * total <= a * total
    <3> HIDE DEF a, b
    <3> QED BY <1>5, <2>4, <2>8, TimesIsMonotone
  <2> QED BY <2>1, <2>5, <2>7, <2>9
<1> QED BY <1>7, <1>8, <1>9

-----------------------------------------------------------------------------
(* A set of indices that holds every index above its members is an end      *)
(* piece of the vector.                                                    *)
LEMMA UpperIsInterval ==
    ASSUME NEW S \in SUBSET Index, \A i \in S, k \in Index : i <= k => k \in S
    PROVE  \E b \in 0 .. NumParticles : S = b .. NumParticles - 1
<1>1. NumParticles \in Nat \ {0}
  BY SizesAssumption
<1>2. CASE S = {}
  <2>1. NumParticles .. NumParticles - 1 = {}
    BY <1>1
  <2> QED BY <1>1, <1>2, <2>1
<1>3. CASE S # {}
  <2>1. S \in SUBSET Nat
    BY DEF Index
  <2>2. PICK b \in S : \A y \in S : b <= y
    BY <1>3, <2>1, NatHasLeast
  <2>3. b \in 0 .. NumParticles
    BY <1>1, <2>2 DEF Index
  <2>4. ASSUME NEW k \in S PROVE k \in b .. NumParticles - 1
    <3>1. k \in Nat /\ b \in Nat /\ b <= k /\ k \in 0 .. NumParticles - 1
      BY <2>1, <2>2 DEF Index
    <3> QED BY <1>1, <3>1
  <2>5. ASSUME NEW k \in b .. NumParticles - 1 PROVE k \in S
    <3>1. b \in Nat
      BY <2>1, <2>2
    <3>2. k \in Index /\ b <= k
      BY <1>1, <3>1 DEF Index
    <3> QED BY <2>2, <3>2
  <2>6. S = b .. NumParticles - 1
    BY <2>4, <2>5, Zenon
  <2> QED BY <2>3, <2>6
<1> QED BY <1>2, <1>3

LEMMA TicksInOrder ==
    ASSUME Sampled, NEW u \in 0 .. Grain, NEW i \in Index, NEW k \in Index, i <= k
    PROVE  Tick(u, i) <= Tick(u, k)
<1> DEFINE j == Tick(u, k)
           l == Tick(u, i)
<1>1. j \in Index /\ l \in Index
  BY TickIsIndex
<1>2. Reach(j) \in Nat /\ Target(u, i) \in Int /\ Target(u, k) \in Int
      /\ Target(u, i) <= Target(u, k)
  <2>1. u \in Int /\ i \in Int /\ k \in Int
    BY DEF Index
  <2> QED BY <1>1, <2>1, ReachAndTarget
<1>3. j <= j => \/ Target(u, k) < Reach(j)
                \/ j = NumParticles - 1
  <2> HIDE DEF j
  <2> QED BY <1>1, TickCompares DEF j
<1>4. l > j => Reach(j) <= Target(u, i)
  <2>1. Tick(u, i) > j => Reach(j) <= Target(u, i)
    <3> HIDE DEF j
    <3> QED BY <1>1, TickCompares
  <2> QED BY <2>1
<1>5. j \in Int /\ l \in Int /\ j <= j /\ l <= NumParticles - 1 /\ NumParticles \in Nat
  BY <1>1, SizesAssumption DEF Index
<1> HIDE DEF j, l
<1>6. l <= j
  BY <1>2, <1>3, <1>4, <1>5
<1> QED BY <1>6 DEF j, l

(* The particles that stop at j are the b-th to the (d - 1)-th; what the    *)
(* targets of these two and of their neighbours say about the reach of j.  *)
CopiesAt(u, j) == {i \in Index : Tick(u, i) = j}
Stretch(u, j, b, d) ==
    /\ b \in 0 .. NumParticles /\ d \in 0 .. NumParticles /\ b <= d
    /\ CopiesAt(u, j) = b .. d - 1
    /\ Target(u, b - 1) <= Before(j) * NumParticles * Grain
    /\ Reach(j) <= Target(u, d)
    /\ b < d => /\ Before(j) * NumParticles * Grain <= Target(u, b)
                /\ Target(u, d - 1) <= Reach(j)

LEMMA CopiesAreAStretch ==
    ASSUME Sampled, NEW u \in 0 .. Grain, NEW j \in Index
    PROVE  \E b, d : Stretch(u, j, b, d)
<1> DEFINE n == NumParticles
           S1 == {i \in Index : Tick(u, i) >= j}
           S2 == {i \in Index : Tick(u, i) > j}
           B == Before(j) * n * Grain
<1>1. n \in Nat \ {0} /\ Grain \in Nat \ {0} /\ total \in Nat \ {0}
      /\ u \in Nat /\ u <= Grain /\ j \in Nat /\ j <= n - 1
  BY SizesAssumption DEF Sampled, Index
<1>2. \A i \in Index : i \in Int /\ Tick(u, i) \in Index /\ Tick(u, i) \in Int
  <2>1. \A i \in Index : i \in Int
    BY DEF Index
  <2> QED BY <2>1, TickIsIndex
<1>3. \A i, k \in Index : i <= k => Tick(u, i) <= Tick(u, k)
  BY TicksInOrder
<1>4. PICK b \in 0 .. n : S1 = b .. n - 1
  <2>1. S1 \in SUBSET Index /\ \A i \in S1, k \in Index : i <= k => k \in S1
    BY <1>1, <1>2, <1>3
  <2> HIDE DEF S1
  <2> QED BY <2>1, UpperIsInterval
<1>5. PICK d \in 0 .. n : S2 = d .. n - 1
  <2>1. S2 \in SUBSET Index /\ \A i \in S2, k \in Index : i <= k => k \in S2
    BY <1>1, <1>2, <1>3
  <2> HIDE DEF S2
  <2> QED BY <2>1, UpperIsInterval
<1>6. \A i \in Index : (i >= b <=> Tick(u, i) >= j) /\ (i >= d <=> Tick(u, i) > j)
  <2> SUFFICES ASSUME NEW i \in Index
               PROVE  (i >= b <=> Tick(u, i) >= j) /\ (i >= d <=> Tick(u, i) > j)
    OBVIOUS
  <2>1. i \in S1 <=> Tick(u, i) >= j
    OBVIOUS
  <2>2. i \in S2 <=> Tick(u, i) > j
    OBVIOUS
  <2>3. i \in Int /\ i <= n - 1
    BY <1>1 DEF Index
  <2> HIDE DEF S1, S2
  <2> QED BY <1>1, <1>4, <1>5, <2>1, <2>2, <2>3
<1>7. b <= d
  <2> SUFFICES ASSUME d < b PROVE FALSE
    BY <1>4, <1>5
  <2>1. d \in Index
    BY <1>1, <1>4, <1>5 DEF Index
  <2> QED BY <1>1, <1>2, <1>4, <1>5, <1>6, <2>1
<1>8. CopiesAt(u, j) = b .. d - 1
  <2>1. \A i : i \in CopiesAt(u, j) <=> i \in Index /\ i >= b /\ ~(i >= d)
    <3>1. \A i \in Index : Tick(u, i) = j <=> Tick(u, i) >= j /\ ~(Tick(u, i) > j)
      <4> TAKE i \in Index
      <4> DEFINE l == Tick(u, i)
      <4>1. l \in Int
        BY <1>2
      <4> HIDE DEF l
      <4>2. l = j <=> l >= j /\ ~(l > j)
        BY <1>1, <4>1
      <4> QED BY <4>2 DEF l
    <3>2. \A i \in Index : Tick(u, i) = j <=> i >= b /\ ~(i >= d)
      BY <1>6, <3>1, Zenon
    <3> QED BY <3>2, Zenon DEF CopiesAt
  <2>2. \A i : (i \in Index /\ i >= b /\ ~(i >= d)) <=> i \in b .. d - 1
    BY <1>1, <1>4, <1>5, <1>7 DEF Index
  <2> QED BY <2>1, <2>2
<1>9. Reach(j) \in Nat /\ Reach(j) <= n * Grain * total
  BY ReachAndTarget
<1>10. \A i \in Int : Target(u, i) \in Int
  BY <1>1, ReachAndTarget
<1>11. B \in Nat
  <2>1. Before(j) \in Nat
    BY Accumulates DEF Sampled
  <2> QED BY <1>1, <2>1
<1>12. ASSUME j # 0 PROVE j - 1 \in Index /\ B = Reach(j - 1)
  BY <1>1, <1>12 DEF Index, Before, Reach
<1>13. ASSUME j = 0 PROVE B = 0
  BY <1>1, <1>13 DEF Before
<1>14. \A i \in Index : i >= b => B <= Target(u, i)
  <2> SUFFICES ASSUME NEW i \in Index, i >= b PROVE B <= Target(u, i)
    OBVIOUS
  <2>1. CASE j = 0
    <3>1. i \in Nat /\ u + i * Grain \in Nat
      BY <1>1 DEF Index
    <3>2. Target(u, i) >= 0
      BY <1>1, <3>1 DEF Target
    <3> QED BY <1>13, <2>1, <3>2, <1>10, <1>2
  <2>2. CASE j # 0
    <3>1. Tick(u, i) > j - 1
      BY <1>1, <1>2, <1>6
    <3> HIDE DEF B
    <3> QED BY <1>12, <2>2, <3>1, TickCompares
  <2> QED BY <2>1, <2>2
<1>15. \A i \in Index : ~(i >= b) => Target(u, i) <= B
  <2> SUFFICES ASSUME NEW i \in Index, ~(i >= b) PROVE Target(u, i) <= B
    OBVIOUS
  <2>1. Tick(u, i) <= j - 1 /\ j # 0
    BY <1>1, <1>2, <1>6 DEF Index
  <2> HIDE DEF B
  <2>2. Target(u, i) < Reach(j - 1) \/ Target(u, i) <= Reach(j - 1)
    BY <1>12, <2>1, TickCompares
  <2> QED BY <1>2, <1>10, <1>11, <1>12, <2>1, <2>2
<1>16. \A i \in Index : i >= d => Reach(j) <= Target(u, i)
  BY <1>6, TickCompares
<1>17. \A i \in Index : ~(i >= d) => Target(u, i) <= Reach(j)
  <2> SUFFICES ASSUME NEW i \in Index, ~(i >= d) PROVE Target(u, i) <= Reach(j)
    OBVIOUS
  <2>1. Tick(u, i) <= j
    <3>1. ~(Tick(u, i) > j) /\ Tick(u, i) \in Int
      BY <1>2, <1>6, Zenon
    <3> QED BY <1>1, <3>1
  <2>2. Target(u, i) < Reach(j) \/ Target(u, i) <= Reach(j)
    BY <2>1, TickCompares
  <2>3. i \in Int
    BY <1>2
  <2>4. Target(u, i) \in Int
    BY <1>10, <2>3
  <2> QED BY <1>9, <2>2, <2>4
<1>18. Target(u, b - 1) <= B
  <2>1. CASE b = 0
    <3>1. u + (b - 1) * Grain \in Int /\ u + (b - 1) * Grain <= 0
      BY <1>1, <2>1
    <3>2. (u + (b - 1) * Grain) * total <= 0 * total
      BY <1>1, <3>1, TimesIsMonotone
    <3>3. b - 1 \in Int
      BY <2>1
    <3>4. Target(u, b - 1) <= 0
      BY <1>1, <3>2 DEF Target
    <3> QED BY <1>10, <1>11, <3>3, <3>4
  <2>2. CASE b # 0
    <3>1. b - 1 \in Index /\ ~(b - 1 >= b)
      BY <1>1, <1>4, <2>2 DEF Index
    <3> QED BY <1>15, <3>1
  <2> QED BY <2>1, <2>2
<1>19. Reach(j) <= Target(u, d)
  <2>1. CASE d = n
    <3> DEFINE a == n * Grain
    <3>1. a \in Int /\ u + a \in Int /\ a <= u + a
      BY <1>1
    <3>2. a * total <= (u + a) * total
      <4> HIDE DEF a
      <4> QED BY <1>1, <3>1, TimesIsMonotone
    <3>3. Target(u, d) = (u + a) * total
      BY <2>1 DEF Target
    <3>4. d \in Int
      BY <1>5
    <3> HIDE DEF a
    <3>5. a * total \in Int
      BY <1>1, <3>1
    <3>6. Reach(j) <= a * total
      BY <1>9 DEF a
    <3> QED BY <1>9, <1>10, <3>2, <3>3, <3>4, <3>5, <3>6
  <2>2. CASE d # n
    <3>1. d \in Index /\ d >= d
      BY <1>1, <1>5, <2>2 DEF Index
    <3> QED BY <1>16, <3>1
  <2> QED BY <2>1, <2>2
<1>20. ASSUME b < d PROVE B <= Target(u, b) /\ Target(u, d - 1) <= Reach(j)
  <2>1. b \in Index /\ b >= b /\ d - 1 \in Index /\ ~(d - 1 >= d)
    BY <1>1, <1>4, <1>5, <1>20 DEF Index
  <2> QED BY <1>14, <1>17, <2>1
<1> QED BY <1>4, <1>5, <1>7, <1>8, <1>18, <1>19, <1>20 DEF Stretch

(* What these inequalities say of the number of copies, d - b.             *)
LEMMA ShareInBounds ==
    ASSUME NEW w \in Nat, NEW n \in Nat, NEW g \in Nat \ {0}, NEW t \in Nat,
           NEW u \in Int, NEW b \in Int, NEW d \in Int, b <= d,
           NEW r \in Int, NEW s \in Int, s = r + w * n * g,
           (u + (b - 1) * g) * t <= r, s <= (u + d * g) * t,
           b < d => r <= (u + b * g) * t /\ (u + (d - 1) * g) * t <= s
    PROVE  Abs((d - b) * t - n * w) <= t
<1> DEFINE c == (d - b) * t
           v == n * w
           z == u * t
<1>1. c \in Int /\ v \in Nat /\ z \in Int /\ w * n * g = v * g /\ v * g \in Int
  OBVIOUS
<1>2. \A k \in Int : (u + k * g) * t = z + k * t * g /\ k * t \in Int /\ k * t * g \in Int
  OBVIOUS
<1>3. v <= c + t
  <2>1. v * g <= (z + d * t * g) - (z + (b - 1) * t * g)
    <3>1. (u + (b - 1) * g) * t = z + (b - 1) * t * g /\ (b - 1) * t * g \in Int
      BY <1>2
    <3>2. (u + d * g) * t = z + d * t * g /\ d * t * g \in Int
      BY <1>2
    <3> DEFINE p == (b - 1) * t * g
               q == d * t * g
    <3> HIDE DEF p, q, z, v
    <3> QED BY <1>1, <3>1, <3>2 DEF p, q
  <2>2. (z + d * t * g) - (z + (b - 1) * t * g) = (c + t) * g
    BY <1>1
  <2>3. v * g <= (c + t) * g /\ c + t \in Int
    BY <1>1, <2>1, <2>2
  <2> HIDE DEF v, c
  <2> QED BY <1>1, <2>3, TimesCancels
<1>4. c <= v + t
  <2>1. CASE b = d
    <3>1. c = 0
      BY <2>1
    <3> HIDE DEF c, v
    <3> QED BY <1>1, <3>1
  <2>2. CASE b < d
    <3>1. (z + (d - 1) * t * g) - (z + b * t * g) <= v * g
      <4>1. (u + (d - 1) * g) * t = z + (d - 1) * t * g /\ (d - 1) * t * g \in Int
        BY <1>2
      <4>2. (u + b * g) * t = z + b * t * g /\ b * t * g \in Int
        BY <1>2
      <4> DEFINE p == (d - 1) * t * g
                 q == b * t * g
      <4> HIDE DEF p, q, z, v
      <4> QED BY <1>1, <2>2, <4>1, <4>2 DEF p, q
    <3>2. (z + (d - 1) * t * g) - (z + b * t * g) = (c - t) * g
      BY <1>1
    <3>3. (c - t) * g <= v * g /\ c - t \in Int /\ c \in Int
      BY <1>1, <3>1, <3>2
    <3> HIDE DEF v, c
    <3>4. c - t <= v
      BY <1>1, <3>3, TimesCancels
    <3> QED BY <1>1, <3>3, <3>4
  <2> QED BY <2>1, <2>2
<1>5. c - v <= t /\ c - v >= -t /\ c - v \in Int
  <2> HIDE DEF c, v
  <2> QED BY <1>1, <1>3, <1>4
<1> HIDE DEF c, v
<1>6. Abs(c - v) <= t
  <2> DEFINE x == c - v
  <2>1. x \in Int /\ x <= t /\ x >= -t
    BY <1>5
  <2> HIDE DEF x
  <2> QED BY <2>1 DEF x, Abs
<1> QED BY <1>6 DEF c, v

LEMMA TicksAreFair ==
    ASSUME Sampled, NEW u \in 0 .. Grain
    PROVE  FairCopies([i \in Index |-> Tick(u, i)])
<1> DEFINE c == [i \in Index |-> Tick(u, i)]
           n == NumParticles
<1>1. \A i, j \in Index : i <= j => c[i] <= c[j]
  BY TicksInOrder
<1>2. n \in Nat \ {0} /\ Grain \in Nat \ {0} /\ total \in Nat \ {0} /\ u \in Int
  BY SizesAssumption DEF Sampled
<1>3. ASSUME NEW j \in Index
      PROVE  Abs(Copies(c, j) * total - n * particles[j].w) <= total
  <2>1. PICK b, d : Stretch(u, j, b, d)
    BY CopiesAreAStretch
  <2>2. Copies(c, j) = d - b
    <3>1. {i \in Index : c[i] = j} = b .. d - 1
      BY <2>1 DEF Stretch, CopiesAt
    <3>2. b \in Int /\ d \in Int /\ d - 1 \in Int /\ b <= d
      BY <2>1 DEF Stretch
    <3>3. Cardinality(b .. d - 1) = IF b > d - 1 THEN 0 ELSE (d - 1) - b + 1
      BY <3>2, FS_Interval
    <3>4. Cardinality(b .. d - 1) = d - b
      <4> DEFINE k == Cardinality(b .. d - 1)
      <4>1. k = IF b > d - 1 THEN 0 ELSE (d - 1) - b + 1
        BY <3>3
      <4> HIDE DEF k
      <4>2. k = d - b
        BY <3>2, <4>1
      <4> QED BY <4>2 DEF k
    <3> QED BY <3>1, <3>4, Zenon DEF Copies
  <2> DEFINE w == particles[j].w
             r == Before(j) * n * Grain
             s == Reach(j)
  <2>3. Before(j) \in Nat /\ w \in Nat /\ Accum(j) = Before(j) + w
    BY Accumulates DEF Sampled
  <2>4. r \in Int /\ s \in Int /\ s = r + w * n * Grain
    <3>1. s = (Before(j) + w) * n * Grain
      BY <2>3 DEF Reach
    <3> DEFINE a == Before(j)
    <3>2. a \in Nat
      BY <2>3
    <3> HIDE DEF a, w
    <3>3. (a + w) * n * Grain = a * n * Grain + w * n * Grain
          /\ a * n * Grain \in Int /\ w * n * Grain \in Int
      BY <1>2, <2>3, <3>2
    <3> QED BY <3>1, <3>3 DEF a
  <2>5. /\ b \in Int /\ d \in Int /\ b <= d
        /\ (u + (b - 1) * Grain) * total <= r
        /\ s <= (u + d * Grain) * total
        /\ b < d => r <= (u + b * Grain) * total /\ (u + (d - 1) * Grain) * total <= s
    BY <2>1 DEF Stretch, Target
  <2> HIDE DEF r, s, w, c
  <2>6. Abs((d - b) * total - n * w) <= total
    BY <1>2, <2>3, <2>4, <2>5, ShareInBounds
  <2> QED BY <2>2, <2>6 DEF w
<1>4. ASSUME NEW j \in Index, particles[j].w = 0, NEW i \in Index, Tick(u, i) = j
      PROVE  j = n - 1 /\ i = n - 1
  <2>1. PICK b, d : Stretch(u, j, b, d)
    BY CopiesAreAStretch
  <2>2. i \in b .. d - 1
    BY <1>4, <2>1 DEF Stretch, CopiesAt
  <2>3. Before(j) * n * Grain = Reach(j)
    <3>1. Before(j) \in Nat /\ Accum(j) = Before(j) + 0
      BY <1>4, Accumulates DEF Sampled
    <3>2. Accum(j) = Before(j)
      BY <3>1
    <3> QED BY <3>2 DEF Reach
  <2>4. b \in Int /\ i \in Int /\ b <= i /\ b < d
    BY <2>1, <2>2 DEF Stretch
  <2>5. Reach(j) <= Target(u, b) /\ Target(u, b) <= Target(u, i)
        /\ Reach(j) \in Nat /\ Target(u, b) \in Int /\ Target(u, i) \in Int
    BY <1>2, <2>1, <2>3, <2>4, ReachAndTarget DEF Stretch
  <2>6. j \in Int
    BY DEF Index
  <2>7. Tick(u, i) <= j
    BY <1>4, <2>6
  <2>8. \/ Target(u, i) < Reach(j)
        \/ j = n - 1 /\ i = n - 1
    BY <2>7, TickCompares
  <2> QED BY <2>5, <2>8
<1>5. ASSUME NEW j \in Index, particles[j].w = 0
      PROVE  Copies(c, j) = 0 \/ (j = n - 1 /\ Copies(c, j) = 1)
  <2> DEFINE C == {i \in Index : c[i] = j}
  <2>1. \A i \in C : j = n - 1 /\ i = n - 1
    BY <1>4, <1>5
  <2>2. C = {} \/ (j = n - 1 /\ C = {n - 1})
    <3> HIDE DEF C
    <3> QED BY <2>1
  <2>3. Copies(c, j) = Cardinality(C)
    BY DEF Copies
  <2> HIDE DEF C, c
  <2> QED BY <2>2, <2>3, FS_EmptySet, FS_Singleton
<1> HIDE DEF c
<1>6. FairCopies(c)
  BY <1>1, <1>3, <1>5 DEF FairCopies
<1> QED BY <1>6 DEF c

(* resampling() gives every particle its share of copies, within one, in   *)
(* the order of the vector, and a particle of no weight none, but for the  *)
(* fallback on the last one; for any draw of the start.                    *)
THEOREM FilterFairShare == Spec => FairShare
<1> DEFINE Fair == pc = "resample" =>
             \E c \in [Index -> Index] :
                 FairCopies(c) /\ particles' = [i \in Index |-> particles[c[i]]]
<1>1. WeightInv /\ TotalInv /\ [Next]_vars => [Fair]_vars
  <2> SUFFICES ASSUME WeightInv, TotalInv, Next, pc = "resample"
               PROVE  \E c \in [Index -> Index] :
                        FairCopies(c) /\ particles' = [i \in Index |-> particles[c[i]]]
    OBVIOUS
  <2>1. Sampled
    BY DEF WeightInv, TotalInv, Sampled
  <2>2. Resampling
    BY DEF Next, Initialize, SimpleReset, SetScan, MotionUpdate, Weigh,
           NonPenetrationRate, ExpansionReset, NormalizeBelief, Publish
  <2>3. PICK u \in 0 .. Grain : particles' = [i \in Index |-> particles[Tick(u, i)]]
    BY <2>2 DEF Resampling
  <2> DEFINE c == [i \in Index |-> Tick(u, i)]
  <2>4. c \in [Index -> Index]
    BY TickIsIndex
  <2>5. FairCopies(c)
    BY <2>1, TicksAreFair
  <2>6. particles' = [i \in Index |-> particles[c[i]]]
    BY <2>3, Zenon
  <2> HIDE DEF c
  <2> QED BY <2>4, <2>5, <2>6
<1>2. Spec => []TotalInv
  BY TotalInvInit, TotalInvStep, PTL DEF Spec
<1> QED BY <1>1, <1>2, WeightInvInit, WeightInvStep, PTL DEF Spec, FairShare
=================================================================================
