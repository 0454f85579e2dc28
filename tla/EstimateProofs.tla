------------------------------ MODULE EstimateProofs ------------------------------
(***************************************************************************)
(* Proofs about what Mcl::meanPose() makes of the particles: that its      *)
(* covariances are possible (CovarianceOfMean), that its heading is the    *)
(* mean along the arc of the headings (HeadingOfMean), and that the        *)
(* largest cluster is one mode of them (ClusterOfModes), for any number of *)
(* particles and any resolution of the angles.                             *)
(*                                                                         *)
(* The first two are about sums of squares.  The first is the inequality   *)
(* of Cauchy and Schwarz; where the headings turned by half a turn were    *)
(* the better, the angles from the mean are the shortest way round, so     *)
(* their squares add up to no more than the deviation published.  The      *)
(* second compares dispersions: headings turned by different whole turns   *)
(* lie further apart (TurnedIsMoreDispersed), so that the smaller of the   *)
(* two deviations is that of headings which were not cut.                  *)
(***************************************************************************)
EXTENDS Estimate, OperatorLemmas

(* The product of two functions, summed over S.                            *)
Dot(f, g, S) == SumFunctionOnSet([i \in S |-> f[i] * g[i]], S)

(* It is an integer, and of a function with itself a natural.              *)
LEMMA DotType ==
    ASSUME NEW S, IsFiniteSet(S), NEW f, NEW g, \A i \in S : f[i] \in Int /\ g[i] \in Int
    PROVE  Dot(f, g, S) \in Int /\ Dot(f, f, S) \in Nat
<1> DEFINE ff == [i \in S |-> f[i] * f[i]]
           fg == [i \in S |-> f[i] * g[i]]
<1>1. \A i \in S : ff[i] \in Nat /\ fg[i] \in Int
  OBVIOUS
<1> HIDE DEF ff, fg
<1>2. SumFunctionOnSet(ff, S) \in Nat /\ SumFunctionOnSet(fg, S) \in Int
  BY <1>1, SumIsNat, SumType
<1> QED BY <1>2 DEF Dot, ff, fg

(* h is u * f + v * g.                                                     *)
Combines(h, u, f, v, g, S) ==
    /\ u \in Int /\ v \in Int
    /\ \A i \in S : f[i] \in Int /\ g[i] \in Int /\ h[i] = u * f[i] + v * g[i]

(* Its square, multiplied out.                                             *)
LEMMA SquareOfCombination ==
    ASSUME NEW S, IsFiniteSet(S), NEW f, NEW g, NEW u, NEW v, NEW h,
           Combines(h, u, f, v, g, S)
    PROVE  /\ \A i \in S : h[i] \in Int
           /\ Dot(h, h, S) = (u * u) * Dot(f, f, S)
                 + ((2 * u * v) * Dot(f, g, S) + (v * v) * Dot(g, g, S))
<1> DEFINE ff == [i \in S |-> f[i] * f[i]]
           fg == [i \in S |-> f[i] * g[i]]
           gg == [i \in S |-> g[i] * g[i]]
           hh == [i \in S |-> h[i] * h[i]]
           uff == [i \in S |-> (u * u) * ff[i]]
           ufg == [i \in S |-> (2 * u * v) * fg[i]]
           ugg == [i \in S |-> (v * v) * gg[i]]
           mid == [i \in S |-> ufg[i] + ugg[i]]
           all == [i \in S |-> uff[i] + mid[i]]
           A == SumFunctionOnSet(ff, S)
           X == SumFunctionOnSet(fg, S)
           B == SumFunctionOnSet(gg, S)
<1> USE DEF Combines
<1>1. \A i \in S : ff[i] \in Int /\ fg[i] \in Int /\ gg[i] \in Int /\ h[i] \in Int
  OBVIOUS
<1>2. u * u \in Int /\ 2 * u * v \in Int /\ v * v \in Int
  OBVIOUS
<1>3. ASSUME NEW i \in S PROVE hh[i] = all[i]
  <2>1. all[i] = (u * u) * (f[i] * f[i])
                   + ((2 * u * v) * (f[i] * g[i]) + (v * v) * (g[i] * g[i]))
    OBVIOUS
  <2>2. hh[i] = (u * f[i] + v * g[i]) * (u * f[i] + v * g[i])
    OBVIOUS
  <2> HIDE DEF hh, all
  <2> QED BY <2>1, <2>2
<1>4. \A i \in S : uff[i] \in Int /\ ufg[i] \in Int /\ ugg[i] \in Int
  BY <1>1, <1>2
<1>5. SumFunctionOnSet(uff, S) = (u * u) * A
  <2> HIDE DEF ff
  <2> QED BY <1>1, <1>2, SumTimes
<1>6. SumFunctionOnSet(ufg, S) = (2 * u * v) * X
  <2> HIDE DEF fg
  <2> QED BY <1>1, <1>2, SumTimes
<1>7. SumFunctionOnSet(ugg, S) = (v * v) * B
  <2> HIDE DEF gg
  <2> QED BY <1>1, <1>2, SumTimes
<1> HIDE DEF uff, ufg, ugg, Combines
<1>8. SumFunctionOnSet(mid, S) = SumFunctionOnSet(ufg, S) + SumFunctionOnSet(ugg, S)
  BY <1>4, SumPlus
<1>9. \A i \in S : mid[i] \in Int
  BY <1>4
<1> HIDE DEF mid
<1>10. SumFunctionOnSet(all, S) = SumFunctionOnSet(uff, S) + SumFunctionOnSet(mid, S)
  BY <1>4, <1>9, SumPlus
<1>11. \A i \in S : all[i] \in Int
  BY <1>4, <1>9
<1> HIDE DEF all, hh
<1>12. SumFunctionOnSet(hh, S) = SumFunctionOnSet(all, S)
  BY <1>3, <1>11, SumOfSame
<1> QED BY <1>1, <1>5, <1>6, <1>7, <1>8, <1>10, <1>12 DEF Dot, hh

(* The inequality of Cauchy and Schwarz.                                   *)
LEMMA CauchySchwarz ==
    ASSUME NEW S, IsFiniteSet(S), NEW f, NEW g, \A i \in S : f[i] \in Int /\ g[i] \in Int
    PROVE  Dot(f, g, S) * Dot(f, g, S) <= Dot(f, f, S) * Dot(g, g, S)
<1> DEFINE A == Dot(f, f, S)
           X == Dot(f, g, S)
           B == Dot(g, g, S)
           Form(u, v) == (u * u) * A + ((2 * u * v) * X + (v * v) * B)
<1>1. ASSUME NEW u \in Int, NEW v \in Int PROVE Form(u, v) >= 0
  <2> DEFINE h == [i \in S |-> u * f[i] + v * g[i]]
  <2>1. \A i \in S : h[i] = u * f[i] + v * g[i]
    OBVIOUS
  <2> HIDE DEF h
  <2>2. Dot(h, h, S) = Form(u, v) /\ \A i \in S : h[i] \in Int
    <3>1. Combines(h, u, f, v, g, S)
      BY <2>1 DEF Combines
    <3> QED BY <3>1, SquareOfCombination
  <2>3. Dot(h, h, S) \in Nat
    BY <2>2, DotType
  <2> HIDE DEF Form
  <2> QED BY <2>2, <2>3
<1>2. A \in Nat /\ B \in Nat /\ X \in Int
  BY DotType
<1> HIDE DEF A, X, B, Form
<1> SUFFICES X * X <= A * B
  BY DEF A, X, B
<1>3. CASE B = 0
  <2> DEFINE y == -(X * (A + 1))
  <2>1. Form(1, y) >= 0
    <3>1. y \in Int
      BY <1>2
    <3> HIDE DEF y
    <3> QED BY <1>1, <3>1
  <2>2. A - 2 * (X * X) * (A + 1) >= 0
    <3>1. Form(1, y) = A + 2 * y * X
      BY <1>2, <1>3 DEF Form
    <3>2. y * X = -((X * X) * (A + 1))
      BY <1>2
    <3> QED BY <1>2, <2>1, <3>1, <3>2
  <2>3. X * X \in Nat
    BY <1>2
  <2>4. X * X = 0
    <3> SUFFICES ASSUME X * X >= 1 PROVE FALSE
      BY <2>3
    <3> DEFINE z == X * X
    <3>1. 2 * z * (A + 1) >= 2 * (A + 1)
      <4> HIDE DEF z
      <4>1. z \in Nat /\ z >= 1
        BY <2>3 DEF z
      <4>2. (z - 1) * (A + 1) >= 0
        BY <1>2, <4>1
      <4> QED BY <1>2, <4>1, <4>2
    <3> QED BY <1>2, <2>2, <3>1
  <2> QED BY <1>2, <1>3, <2>4
<1>4. CASE B > 0
  <2>1. Form(B, -X) >= 0
    BY <1>1, <1>2
  <2>2. B * (A * B - X * X) >= 0
    <3>1. Form(B, -X) = B * (A * B - X * X)
      BY <1>2 DEF Form
    <3> QED BY <2>1, <3>1
  <2> DEFINE d == A * B - X * X
  <2>3. d \in Int
    BY <1>2
  <2>4. d >= 0
    <3>1. B * d >= 0
      BY <2>2
    <3> HIDE DEF d
    <3> QED BY <1>2, <1>4, <2>3, <3>1
  <2> QED BY <1>2, <2>4
<1> QED BY <1>2, <1>3, <1>4

-----------------------------------------------------------------------------
(* Normalized() adds whole turns, and ends within half a turn.             *)
LEMMA NormalizedTurns ==
    \A t \in Int, pi \in Nat \ {0} :
        /\ Normalized(t, pi) \in Int
        /\ -pi <= Normalized(t, pi) /\ Normalized(t, pi) <= pi
        /\ \E k \in Int : Normalized(t, pi) = t + 2 * pi * k
<1> SUFFICES ASSUME NEW t \in Int, NEW pi \in Nat \ {0}
             PROVE  /\ Normalized(t, pi) \in Int
                    /\ -pi <= Normalized(t, pi) /\ Normalized(t, pi) <= pi
                    /\ \E k \in Int : Normalized(t, pi) = t + 2 * pi * k
  OBVIOUS
<1>2. CASE t > pi
  <2> DEFINE z == pi - t
             m == 2 * pi
             r == z % m
             q == z \div m
  <2>1. r \in 0 .. 2 * pi - 1 /\ q \in Int /\ r = (pi - t) - 2 * pi * q
    <3>1. z \in Int /\ m \in Nat \ {0}
      OBVIOUS
    <3>2. r \in 0 .. m - 1 /\ q \in Int /\ z = m * q + r
      <4> HIDE DEF z, m
      <4> QED BY <3>1, Division
    <3> HIDE DEF r, q
    <3> QED BY <3>2
  <2>2. Normalized(t, pi) = pi - r
    BY <1>2 DEF Normalized
  <2> HIDE DEF r, q
  <2>3. Normalized(t, pi) = t + 2 * pi * q
    BY <2>1, <2>2
  <2> QED BY <2>1, <2>2, <2>3
<1>3. CASE t < -pi
  <2> DEFINE z == t + pi
             m == 2 * pi
             r == z % m
             q == z \div m
  <2>1. r \in 0 .. 2 * pi - 1 /\ q \in Int /\ r = (t + pi) - 2 * pi * q
    <3>1. z \in Int /\ m \in Nat \ {0}
      OBVIOUS
    <3>2. r \in 0 .. m - 1 /\ q \in Int /\ z = m * q + r
      <4> HIDE DEF z, m
      <4> QED BY <3>1, Division
    <3> HIDE DEF r, q
    <3> QED BY <3>2
  <2>2. Normalized(t, pi) = r - pi
    BY <1>3 DEF Normalized
  <2> HIDE DEF r, q
  <2>3. Normalized(t, pi) = t + 2 * pi * (-q) /\ -q \in Int
    BY <2>1, <2>2
  <2> QED BY <2>1, <2>2, <2>3
<1>4. CASE ~(t > pi) /\ ~(t < -pi)
  <2>1. Normalized(t, pi) = t + 2 * pi * 0
    BY <1>4 DEF Normalized
  <2> QED BY <1>4, <2>1
<1> QED BY <1>2, <1>3, <1>4

(* Of the angles that are a whole number of turns apart, it is the least.  *)
LEMMA NormalizedIsLeast ==
    \A z, y, k \in Int, pi \in Nat \ {0} :
        y = z + 2 * pi * k => Normalized(z, pi) * Normalized(z, pi) <= y * y
<1> SUFFICES ASSUME NEW z \in Int, NEW y \in Int, NEW k \in Int, NEW pi \in Nat \ {0},
                    y = z + 2 * pi * k
             PROVE  Normalized(z, pi) * Normalized(z, pi) <= y * y
  OBVIOUS
<1> DEFINE r == Normalized(z, pi)
<1>1. PICK j \in Int : r = z + 2 * pi * j
  BY NormalizedTurns
<1>2. r \in Int /\ -pi <= r /\ r <= pi
  BY NormalizedTurns
<1> DEFINE m == k - j
<1>3. y = r + 2 * pi * m /\ m \in Int
  <2>1. 2 * pi * m = 2 * pi * k - 2 * pi * j
    OBVIOUS
  <2> QED BY <1>1, <1>2, <2>1
<1> HIDE DEF r, m
<1> SUFFICES r * r <= y * y
  BY DEF r
<1>4. CASE m = 0
  BY <1>2, <1>3, <1>4
<1>5. CASE m >= 1
  <2>1. 2 * pi * m >= 2 * pi
    BY <1>3, <1>5
  <2>2. y >= pi
    BY <1>2, <1>3, <2>1
  <2>3. r * r <= pi * pi
    BY <1>2
  <2>4. pi * pi <= y * y
    BY <2>2
  <2> QED BY <1>2, <2>3, <2>4
<1>6. CASE m <= -1
  <2>1. 2 * pi * m <= -(2 * pi)
    BY <1>3, <1>6
  <2>2. y <= -pi
    BY <1>2, <1>3, <2>1
  <2>3. r * r <= pi * pi
    BY <1>2
  <2>4. pi * pi <= y * y
    BY <2>2
  <2> QED BY <1>2, <2>3, <2>4
<1> QED BY <1>3, <1>4, <1>5, <1>6

(* The vector of particles of a filter.                                    *)
Vector(p) ==
    /\ IsFiniteSet(DOMAIN p) /\ DOMAIN p # {}
    /\ \A i \in DOMAIN p : p[i].x \in Int /\ p[i].t \in Int

(* The opposite heading is half a turn and whole turns away.               *)
LEMMA OppositeTurns ==
    \A t \in Int : /\ Opposite(t) \in Int
                  /\ -Pi <= Opposite(t) /\ Opposite(t) <= Pi
                  /\ \E k \in Int : Opposite(t) = t + Pi + 2 * Pi * k
<1> SUFFICES ASSUME NEW t \in Int
             PROVE  /\ Opposite(t) \in Int
                    /\ -Pi <= Opposite(t) /\ Opposite(t) <= Pi
                    /\ \E k \in Int : Opposite(t) = t + Pi + 2 * Pi * k
  OBVIOUS
<1> DEFINE z == t + Pi
<1>1. z \in Int /\ Pi \in Nat \ {0} /\ Opposite(t) = Normalized(z, Pi)
  BY PiAssumption DEF Opposite, NormalizeAngle
<1> HIDE DEF z
<1>2. /\ Normalized(z, Pi) \in Int
      /\ -Pi <= Normalized(z, Pi) /\ Normalized(z, Pi) <= Pi
      /\ \E k \in Int : Normalized(z, Pi) = z + 2 * Pi * k
  BY <1>1, NormalizedTurns
<1> QED BY <1>1, <1>2 DEF z

(* Some particle is counted.                                               *)
LEMMA CountedIsFinite ==
    ASSUME NEW p, Vector(p)
    PROVE  /\ Counted(p) \subseteq DOMAIN p
           /\ IsFiniteSet(Counted(p))
           /\ Cardinality(Counted(p)) \in Nat \ {0}
<1>1. Counted(p) \subseteq DOMAIN p /\ Counted(p) # {}
  BY DEF Counted, LargestClusterParticles, Gathered, Vector
<1> QED BY <1>1, FS_Subset, FS_CardinalityType, FS_EmptySet DEF Vector

(* The covariances of meanPose() belong together: no correlation is above 1. *)
THEOREM CovarianceOfMean ==
    ASSUME NEW p, Vector(p) PROVE PossibleCovariance(p)
<1> DEFINE ps == Counted(p)
           num == Cardinality(ps)
           x == SumOver(ps, LAMBDA i : p[i].x)
           t == SumOver(ps, LAMBDA i : p[i].t)
           t2 == SumOver(ps, LAMBDA i : Opposite(p[i].t))
           from(i, mean) == Normalized(num * p[i].t - mean, num * Pi)
           opp(i) == num * Opposite(p[i].t) - t2
           tt == SumOver(ps, LAMBDA i : from(i, t) * from(i, t))
           tt2 == SumOver(ps, LAMBDA i : opp(i) * opp(i))
           t_mean == IF tt > tt2 THEN Normalized(t2 - num * Pi, num * Pi) ELSE t
           f == [i \in ps |-> num * p[i].x - x]
           g == [i \in ps |-> from(i, t_mean)]
           mean == MeanPose(p)
<1>1. /\ mean.xx = Dot(f, f, ps)
      /\ mean.tx = Dot(f, g, ps)
      /\ mean.tt = IF tt > tt2 THEN tt2 ELSE tt
  <2>1. mean.xx = SumOver(ps, LAMBDA i : (num * p[i].x - x) * (num * p[i].x - x))
    BY DEF MeanPose, MeanPoseOf
  <2>2. mean.tx = SumOver(ps, LAMBDA i : (num * p[i].x - x) * from(i, t_mean))
    BY DEF MeanPose, MeanPoseOf
  <2>3. mean.tt = IF tt > tt2 THEN tt2 ELSE tt
    BY DEF MeanPose, MeanPoseOf
  <2>4. [i \in ps |-> (num * p[i].x - x) * (num * p[i].x - x)]
          = [i \in ps |-> f[i] * f[i]]
    BY Zenon
  <2>5. [i \in ps |-> (num * p[i].x - x) * from(i, t_mean)] = [i \in ps |-> f[i] * g[i]]
    BY Zenon
  <2> HIDE DEF mean
  <2> QED BY <2>1, <2>2, <2>3, <2>4, <2>5, Zenon DEF SumOver, Dot
<1>2. /\ IsFiniteSet(ps) /\ ps \subseteq DOMAIN p /\ num \in Nat \ {0}
      /\ num * Pi \in Nat \ {0}
  BY CountedIsFinite, PiAssumption
<1>3. \A i \in ps : p[i].x \in Int /\ p[i].t \in Int /\ Opposite(p[i].t) \in Int
  BY <1>2, OppositeTurns DEF Vector
<1>4. x \in Int /\ t \in Int /\ t2 \in Int
  <2> DEFINE a == [i \in ps |-> p[i].x]
             b == [i \in ps |-> p[i].t]
             c == [i \in ps |-> Opposite(p[i].t)]
  <2>1. \A i \in ps : a[i] \in Int /\ b[i] \in Int /\ c[i] \in Int
    BY <1>3
  <2> HIDE DEF a, b, c
  <2>2. /\ SumFunctionOnSet(a, ps) \in Int /\ SumFunctionOnSet(b, ps) \in Int
        /\ SumFunctionOnSet(c, ps) \in Int
    BY <1>2, <2>1, SumType
  <2> QED BY <2>2 DEF a, b, c, SumOver
<1> HIDE DEF x, t, t2, ps
<1>5. t_mean \in Int /\ t2 - num * Pi \in Int
  <2> HIDE DEF num
  <2>1. t2 - num * Pi \in Int
    BY <1>2, <1>4, PiAssumption
  <2> DEFINE z == t2 - num * Pi
             pi == num * Pi
  <2>2. Normalized(z, pi) \in Int
    <3> HIDE DEF z, pi
    <3> QED BY <1>2, <2>1, NormalizedTurns DEF z, pi
  <2> HIDE DEF tt, tt2
  <2> QED BY <1>4, <2>1, <2>2
<1>6. \A i \in ps : opp(i) \in Int /\ num * p[i].t - t_mean \in Int
  <2> HIDE DEF t_mean, num
  <2> QED BY <1>2, <1>3, <1>4, <1>5
<1>7. \A i \in ps : f[i] \in Int /\ g[i] \in Int
  <2>1. \A i \in ps : f[i] \in Int
    <3> HIDE DEF num
    <3> QED BY <1>2, <1>3, <1>4
  <2>2. \A i \in ps : g[i] = Normalized(num * p[i].t - t_mean, num * Pi)
    OBVIOUS
  <2> HIDE DEF g, f, num, t_mean
  <2> QED BY <1>2, <1>6, <2>1, <2>2, NormalizedTurns
<1>8. Dot(f, g, ps) * Dot(f, g, ps) <= Dot(f, f, ps) * Dot(g, g, ps)
  <2> HIDE DEF f, g
  <2> QED BY <1>2, <1>7, CauchySchwarz
<1>9. Dot(g, g, ps) <= mean.tt
  <2>1. CASE ~(tt > tt2)
    <3>1. t_mean = t
      BY <2>1, Zenon
    <3>2. [i \in ps |-> from(i, t) * from(i, t)] = [i \in ps |-> g[i] * g[i]]
      BY <3>1, Zenon
    <3>3. tt = Dot(g, g, ps)
      <4> HIDE DEF from, g
      <4> QED BY <3>2, Zenon DEF SumOver, Dot
    <3>4. mean.tt = tt
      BY <1>1, <2>1, Zenon
    <3>5. Dot(g, g, ps) \in Int
      <4> HIDE DEF g
      <4> QED BY <1>2, <1>7, DotType
    <3> HIDE DEF tt, mean, g
    <3> QED BY <3>3, <3>4, <3>5
  <2>2. CASE tt > tt2
    <3> DEFINE gg == [i \in ps |-> g[i] * g[i]]
               oo == [i \in ps |-> opp(i) * opp(i)]
    <3>1. mean.tt = tt2
      BY <1>1, <2>2, Zenon
    <3>2. tt2 = SumFunctionOnSet(oo, ps) /\ Dot(g, g, ps) = SumFunctionOnSet(gg, ps)
      BY Zenon DEF SumOver, Dot
    <3>3. t_mean = Normalized(t2 - num * Pi, num * Pi)
      BY <2>2, Zenon
    <3>4. PICK m \in Int : t_mean = t2 - num * Pi + 2 * (num * Pi) * m
      <4> HIDE DEF num, tt, tt2, t_mean
      <4> DEFINE z == t2 - num * Pi
                 pi == num * Pi
      <4>1. z \in Int /\ pi \in Nat \ {0} /\ t_mean = Normalized(z, pi)
        BY <1>2, <1>5, <3>3
      <4>2. \E m \in Int : t_mean = z + 2 * pi * m
        <5> HIDE DEF z, pi
        <5> QED BY <4>1, NormalizedTurns
      <4> QED BY <4>2
    <3>5. ASSUME NEW i \in ps PROVE gg[i] \in Int /\ oo[i] \in Int /\ gg[i] <= oo[i]
      <4> DEFINE z == num * p[i].t - t_mean
                 y == opp(i)
                 pi == num * Pi
      <4>1. PICK k \in Int : Opposite(p[i].t) = p[i].t + Pi + 2 * Pi * k
        BY <1>3, OppositeTurns
      <4>2. z \in Int /\ y \in Int /\ pi \in Nat \ {0}
        BY <1>2, <1>6
      <4>3. y = z + 2 * pi * (m + k)
        <5> HIDE DEF num, t_mean
        <5>1. y = num * p[i].t + num * Pi + num * (2 * Pi * k) - t2
          BY <1>2, <1>3, <1>4, <4>1, PiAssumption
        <5>2. z = num * p[i].t - t2 + num * Pi - 2 * (num * Pi) * m
          BY <1>2, <1>3, <1>4, <3>4, PiAssumption
        <5>3. num * (2 * Pi * k) = 2 * (num * Pi) * k
          BY <1>2, PiAssumption
        <5>4. 2 * pi * (m + k) = 2 * (num * Pi) * m + 2 * (num * Pi) * k
          BY <1>2, PiAssumption
        <5> HIDE DEF y, z
        <5> DEFINE a == num * Pi
                   am == 2 * a * m
                   ak == 2 * a * k
                   b == num * p[i].t
        <5>5. a \in Int /\ am \in Int /\ ak \in Int /\ b \in Int
          BY <1>2, <1>3, PiAssumption
        <5>6. y = b + a + ak - t2 /\ z = b - t2 + a - am /\ 2 * pi * (m + k) = am + ak
          BY <5>1, <5>2, <5>3, <5>4
        <5> HIDE DEF a, am, ak, b, pi
        <5> QED BY <1>4, <5>5, <5>6
      <4>4. g[i] = Normalized(z, pi)
        OBVIOUS
      <4>5. gg[i] = g[i] * g[i] /\ oo[i] = y * y
        OBVIOUS
      <4> HIDE DEF z, y, pi, g, gg, oo
      <4>6. m + k \in Int
        OBVIOUS
      <4>7. g[i] * g[i] <= y * y
        BY <4>2, <4>3, <4>4, <4>6, NormalizedIsLeast
      <4> QED BY <1>7, <4>2, <4>5, <4>7
    <3> HIDE DEF gg, oo, g, tt2, mean
    <3>6. SumFunctionOnSet(gg, ps) <= SumFunctionOnSet(oo, ps)
      BY <1>2, <3>5, SumIsMonotone
    <3> QED BY <3>1, <3>2, <3>6
  <2> QED BY <2>1, <2>2
<1>10. /\ Dot(f, f, ps) \in Nat /\ Dot(g, g, ps) \in Nat
       /\ Dot(f, g, ps) \in Int
  <2> HIDE DEF f, g
  <2> QED BY <1>2, <1>7, DotType
<1>11. tt \in Int /\ tt2 \in Int
  <2> DEFINE h == [i \in ps |-> from(i, t)]
             o == [i \in ps |-> opp(i)]
  <2>1. \A i \in ps : h[i] \in Int /\ o[i] \in Int
    <3>1. \A i \in ps : num * p[i].t - t \in Int
      <4> HIDE DEF num
      <4> QED BY <1>2, <1>3, <1>4
    <3>2. \A i \in ps : from(i, t) \in Int
      <4> HIDE DEF num
      <4> QED BY <1>2, <3>1, NormalizedTurns
    <3> HIDE DEF opp, from
    <3> QED BY <1>6, <3>2
  <2>2. tt = Dot(h, h, ps) /\ tt2 = Dot(o, o, ps)
    <3>1. /\ [i \in ps |-> from(i, t) * from(i, t)] = [i \in ps |-> h[i] * h[i]]
          /\ [i \in ps |-> opp(i) * opp(i)] = [i \in ps |-> o[i] * o[i]]
      BY Zenon
    <3> HIDE DEF from, opp, h, o
    <3> QED BY <3>1, Zenon DEF SumOver, Dot
  <2> HIDE DEF h, o
  <2> QED BY <1>2, <2>1, <2>2, DotType
<1> DEFINE A == Dot(f, f, ps)
           B == Dot(g, g, ps)
           X == Dot(f, g, ps)
<1>12. mean.tt \in Int
  <2> HIDE DEF tt, tt2, mean
  <2> QED BY <1>1, <1>11
<1>13. A * B <= A * mean.tt
  <2> HIDE DEF A, B, mean
  <2>1. A \in Nat /\ B \in Nat
    BY <1>10 DEF A, B
  <2>2. B <= mean.tt
    BY <1>9 DEF B
  <2> QED BY <1>12, <2>1, <2>2
<1>14. mean.tx * mean.tx <= mean.xx * mean.tt
  <2> HIDE DEF f, g, mean
  <2>1. mean.xx = A /\ mean.tx = X
    BY <1>1, Zenon
  <2>2. X * X <= A * B
    BY <1>8, Zenon
  <2>3. A \in Int /\ B \in Int /\ X \in Int
    BY <1>10
  <2> HIDE DEF A, B, X
  <2> QED BY <1>12, <1>13, <2>1, <2>2, <2>3
<1> QED BY <1>14, Zenon DEF PossibleCovariance

-----------------------------------------------------------------------------
(* h is the distance of a * f from c.                                      *)
MeasuredFrom(h, a, f, c, S) ==
    /\ a \in Int /\ c \in Int
    /\ \A i \in S : f[i] \in Int /\ h[i] = a * f[i] - c

(* Its square, multiplied out.                                             *)
LEMMA SquaresFrom ==
    ASSUME NEW S, IsFiniteSet(S), NEW f, NEW a, NEW c, NEW h, MeasuredFrom(h, a, f, c, S)
    PROVE  /\ \A i \in S : h[i] \in Int
           /\ Dot(h, h, S) = (a * a) * Dot(f, f, S)
                 + ((2 * a * (-c)) * SumFunctionOnSet(f, S) + (c * c) * Cardinality(S))
<1> DEFINE g == [i \in S |-> 1]
           k == [i \in S |-> f[i] * g[i]]
           o == [i \in S |-> g[i] * g[i]]
<1> USE DEF MeasuredFrom
<1>1. \A i \in S : g[i] = 1 /\ k[i] = f[i] /\ o[i] = 1
  OBVIOUS
<1>2. SumFunctionOnSet(g, S) = Cardinality(S) * 1
  <2>1. 1 \in Int
    OBVIOUS
  <2> QED BY <2>1, SumConstant, Zenon
<1> HIDE DEF g, k, o
<1>3. SumFunctionOnSet(k, S) = SumFunctionOnSet(f, S)
  BY <1>1, SumOfSame
<1>4. SumFunctionOnSet(o, S) = SumFunctionOnSet(g, S)
  BY <1>1, SumOfSame
<1>5. Dot(f, g, S) = SumFunctionOnSet(f, S) /\ Dot(g, g, S) = Cardinality(S) * 1
  BY <1>2, <1>3, <1>4 DEF Dot, k, o
<1>6. Combines(h, a, f, -c, g, S)
  BY <1>1 DEF Combines
<1>7. Dot(h, h, S) = (a * a) * Dot(f, f, S)
        + ((2 * a * (-c)) * Dot(f, g, S) + ((-c) * (-c)) * Dot(g, g, S))
  BY <1>6, SquareOfCombination
<1>8. ((-c) * (-c)) * (Cardinality(S) * 1) = (c * c) * Cardinality(S)
  BY FS_CardinalityType
<1>9. \A i \in S : h[i] \in Int
  BY <1>6, SquareOfCombination
<1> QED BY <1>5, <1>7, <1>8, <1>9

(* Cardinality(S) times the squares of f, less the square of its sum.      *)
Dispersion(f, S) ==
    Cardinality(S) * Dot(f, f, S) - SumFunctionOnSet(f, S) * SumFunctionOnSet(f, S)

(* It is an integer.                                                       *)
LEMMA DispersionType ==
    ASSUME NEW S, IsFiniteSet(S), NEW f, \A i \in S : f[i] \in Int
    PROVE  Dispersion(f, S) \in Int
<1>1. /\ Cardinality(S) \in Int /\ Dot(f, f, S) \in Int
      /\ SumFunctionOnSet(f, S) \in Int
  BY FS_CardinalityType, DotType, SumType
<1> QED BY <1>1 DEF Dispersion

(* The squares of the distances from all members to one.                   *)
DistancesTo(f, S) ==
    [i \in S |-> SumFunctionOnSet([j \in S |-> (f[j] - f[i]) * (f[j] - f[i])], S)]

(* They are given by the square of f and its sum.                          *)
LEMMA DistancesToOne ==
    ASSUME NEW S, IsFiniteSet(S), NEW f, \A i \in S : f[i] \in Int, NEW i \in S
    PROVE  DistancesTo(f, S)[i] = Dot(f, f, S)
             + ((-2 * SumFunctionOnSet(f, S)) * f[i] + Cardinality(S) * (f[i] * f[i]))
<1> DEFINE h == [j \in S |-> f[j] - f[i]]
           hh == [j \in S |-> (f[j] - f[i]) * (f[j] - f[i])]
<1>1. MeasuredFrom(h, 1, f, f[i], S)
  BY DEF MeasuredFrom
<1>2. [j \in S |-> h[j] * h[j]] = hh
  BY Zenon
<1>3. Dot(h, h, S) = DistancesTo(f, S)[i]
  BY <1>2, Zenon DEF Dot, DistancesTo
<1> HIDE DEF h
<1>4. Dot(h, h, S) = (1 * 1) * Dot(f, f, S)
        + ((2 * 1 * (-f[i])) * SumFunctionOnSet(f, S) + (f[i] * f[i]) * Cardinality(S))
  BY <1>1, SquaresFrom
<1>5. Dot(f, f, S) \in Int /\ SumFunctionOnSet(f, S) \in Int /\ Cardinality(S) \in Int
  BY DotType, SumType, FS_CardinalityType
<1> QED BY <1>3, <1>4, <1>5

(* The squares of all distances add up to twice the dispersion.            *)
LEMMA DispersionOfPairs ==
    ASSUME NEW S, IsFiniteSet(S), NEW f, \A i \in S : f[i] \in Int
    PROVE  SumFunctionOnSet(DistancesTo(f, S), S) = 2 * Dispersion(f, S)
<1> DEFINE N == Cardinality(S)
           Q == Dot(f, f, S)
           F == SumFunctionOnSet(f, S)
           m == -2 * F
           ff == [i \in S |-> f[i] * f[i]]
           q == [i \in S |-> Q]
           b == [i \in S |-> m * f[i]]
           c == [i \in S |-> N * ff[i]]
           bc == [i \in S |-> b[i] + c[i]]
           qbc == [i \in S |-> q[i] + bc[i]]
           d == DistancesTo(f, S)
<1>1. N \in Int /\ Q \in Int /\ F \in Int /\ m \in Int
  BY FS_CardinalityType, DotType, SumType
<1>2. ASSUME NEW i \in S PROVE d[i] = qbc[i]
  <2>1. qbc[i] = Q + ((-2 * F) * f[i] + N * (f[i] * f[i]))
    OBVIOUS
  <2> HIDE DEF d, qbc
  <2> QED BY <2>1, DistancesToOne DEF d
<1> HIDE DEF d
<1>3. SumFunctionOnSet(q, S) = N * Q
  <2> HIDE DEF Q
  <2> QED BY <1>1, SumConstant
<1>4. SumFunctionOnSet(b, S) = m * F
  <2> HIDE DEF m
  <2> QED BY <1>1, SumTimes
<1>5. SumFunctionOnSet(c, S) = N * Q
  <2>1. \A i \in S : ff[i] \in Int
    OBVIOUS
  <2>2. SumFunctionOnSet(ff, S) = Q
    BY DEF Dot
  <2> HIDE DEF N, ff, Q
  <2> QED BY <1>1, <2>1, <2>2, SumTimes
<1>6. \A i \in S : q[i] \in Int /\ b[i] \in Int /\ c[i] \in Int
  <2> HIDE DEF N, Q, m
  <2> QED BY <1>1
<1> HIDE DEF q, b, c
<1>7. SumFunctionOnSet(bc, S) = SumFunctionOnSet(b, S) + SumFunctionOnSet(c, S)
  BY <1>6, SumPlus
<1>8. \A i \in S : bc[i] \in Int
  BY <1>6
<1> HIDE DEF bc
<1>9. SumFunctionOnSet(qbc, S) = SumFunctionOnSet(q, S) + SumFunctionOnSet(bc, S)
  BY <1>6, <1>8, SumPlus
<1>10. \A i \in S : qbc[i] \in Int
  BY <1>6, <1>8
<1> HIDE DEF qbc
<1>11. SumFunctionOnSet(d, S) = SumFunctionOnSet(qbc, S)
  BY <1>2, <1>10, SumOfSame
<1>12. SumFunctionOnSet(d, S) = N * Q + ((-2 * F) * F + N * Q)
  BY <1>3, <1>4, <1>5, <1>7, <1>9, <1>11
<1>13. Dispersion(f, S) = N * Q - F * F
  BY Zenon DEF Dispersion
<1> HIDE DEF N, Q, F
<1> QED BY <1>1, <1>12, <1>13 DEF d

(* No distance is less in f than in g.                                     *)
Wider(f, g, S) ==
    \A i, j \in S :
        (g[j] - g[i]) * (g[j] - g[i]) <= (f[j] - f[i]) * (f[j] - f[i])

(* What lies wider apart is more dispersed.                                *)
LEMMA WiderIsMoreDispersed ==
    ASSUME NEW S, IsFiniteSet(S), NEW f, NEW g, \A i \in S : f[i] \in Int /\ g[i] \in Int,
           Wider(f, g, S)
    PROVE  /\ Dispersion(g, S) <= Dispersion(f, S)
           /\ Dispersion(g, S) = Dispersion(f, S) =>
                \A i, j \in S :
                    (f[j] - f[i]) * (f[j] - f[i]) = (g[j] - g[i]) * (g[j] - g[i])
<1> DEFINE sq(h, i) == [j \in S |-> (h[j] - h[i]) * (h[j] - h[i])]
           df == DistancesTo(f, S)
           dg == DistancesTo(g, S)
<1>1. ASSUME NEW i \in S
      PROVE  /\ df[i] \in Int /\ dg[i] \in Int /\ dg[i] <= df[i]
             /\ \A j \in S : sq(g, i)[j] < sq(f, i)[j] => dg[i] < df[i]
  <2> DEFINE a == sq(f, i)
             b == sq(g, i)
  <2>1. \A j \in S : b[j] \in Int /\ a[j] \in Int /\ b[j] <= a[j]
    BY DEF Wider
  <2>2. df[i] = SumFunctionOnSet(a, S) /\ dg[i] = SumFunctionOnSet(b, S)
    BY Zenon DEF DistancesTo
  <2> HIDE DEF a, b, df, dg
  <2>3. SumFunctionOnSet(a, S) \in Int /\ SumFunctionOnSet(b, S) \in Int
    BY <2>1, SumType
  <2>4. SumFunctionOnSet(b, S) <= SumFunctionOnSet(a, S)
    BY <2>1, SumIsMonotone
  <2>5. ASSUME NEW j \in S, b[j] < a[j]
        PROVE  SumFunctionOnSet(b, S) < SumFunctionOnSet(a, S)
    BY <2>1, <2>5, SumIsMonotone
  <2> QED BY <2>2, <2>3, <2>4, <2>5 DEF a, b
<1> HIDE DEF df, dg
<1>2. SumFunctionOnSet(dg, S) <= SumFunctionOnSet(df, S)
  BY <1>1, SumIsMonotone
<1>3. SumFunctionOnSet(df, S) = 2 * Dispersion(f, S)
      /\ SumFunctionOnSet(dg, S) = 2 * Dispersion(g, S)
  BY DispersionOfPairs DEF df, dg
<1>4. Dispersion(f, S) \in Int /\ Dispersion(g, S) \in Int
  BY DispersionType
<1>5. ASSUME NEW i \in S, NEW j \in S, Dispersion(g, S) = Dispersion(f, S)
      PROVE  (f[j] - f[i]) * (f[j] - f[i]) = (g[j] - g[i]) * (g[j] - g[i])
  <2> DEFINE a == (f[j] - f[i]) * (f[j] - f[i])
             b == (g[j] - g[i]) * (g[j] - g[i])
  <2>1. a \in Int /\ b \in Int /\ b <= a
    BY DEF Wider
  <2>2. SUFFICES ASSUME b < a PROVE FALSE
    <3> HIDE DEF a, b
    <3>1. a = b
      BY <2>1, <2>2
    <3> QED BY <3>1 DEF a, b
  <2>3. sq(g, i)[j] < sq(f, i)[j]
    BY <2>2
  <2>4. dg[i] < df[i]
    BY <1>1, <2>3
  <2>5. SumFunctionOnSet(dg, S) < SumFunctionOnSet(df, S)
    BY <1>1, <2>4, SumIsMonotone
  <2> QED BY <1>3, <1>4, <1>5, <2>5
<1> QED BY <1>2, <1>3, <1>4, <1>5

(* The squares of the distances of the f[i] from c, all taken Cardinality(S) *)
(* times, are least when c is the sum.                                     *)
LEMMA DeviationFrom ==
    ASSUME NEW S, IsFiniteSet(S), NEW f, NEW c, NEW h,
           MeasuredFrom(h, Cardinality(S), f, c, S)
    PROVE  Dot(h, h, S) = Cardinality(S) * (Dispersion(f, S)
             + (SumFunctionOnSet(f, S) - c) * (SumFunctionOnSet(f, S) - c))
<1> DEFINE N == Cardinality(S)
           Q == Dot(f, f, S)
           F == SumFunctionOnSet(f, S)
<1>1. N \in Int /\ c \in Int /\ Q \in Int /\ F \in Int
  BY FS_CardinalityType, DotType, SumType DEF MeasuredFrom
<1>2. Dot(h, h, S) = (N * N) * Q + ((2 * N * (-c)) * F + (c * c) * N)
  BY SquaresFrom
<1>3. Dispersion(f, S) = N * Q - F * F
  BY Zenon DEF Dispersion
<1> HIDE DEF N, Q, F
<1>4. (N * N) * Q + ((2 * N * (-c)) * F + (c * c) * N)
        = N * ((N * Q - F * F) + (F - c) * (F - c))
  BY <1>1
<1> QED BY <1>2, <1>3, <1>4 DEF N, F

-----------------------------------------------------------------------------
(* A multiple leaves no remainder.                                         *)
LEMMA MultipleHasNoRemainder ==
    \A m \in Nat \ {0}, q \in Int : (m * q) % m = 0
<1> SUFFICES ASSUME NEW m \in Nat \ {0}, NEW q \in Int PROVE (m * q) % m = 0
  OBVIOUS
<1> DEFINE z == m * q
           d == z \div m
           r == z % m
<1>1. z \in Int
  OBVIOUS
<1>2. r \in 0 .. m - 1 /\ d \in Int /\ z = m * d + r
  <2> HIDE DEF z
  <2> QED BY <1>1, Division
<1>3. r = m * (q - d)
  <2> HIDE DEF d, r
  <2> QED BY <1>2
<1> DEFINE k == q - d
<1>4. k \in Int /\ r = m * k
  <2> HIDE DEF d, r
  <2> QED BY <1>2, <1>3
<1>5. r = 0
  <2> HIDE DEF r, k
  <2>1. CASE k >= 1
    <3>1. m * k >= m
      BY <1>4, <2>1
    <3> QED BY <1>2, <1>4, <3>1
  <2>2. CASE k <= -1
    <3>1. m * k <= -m
      BY <1>4, <2>2
    <3> QED BY <1>2, <1>4, <3>1
  <2>3. CASE k = 0
    BY <1>4, <2>3
  <2> QED BY <1>4, <2>1, <2>2, <2>3
<1> QED BY <1>5

(* Whole turns between two directions less than half a turn apart take them *)
(* further apart.                                                          *)
LEMMA TurnsTakeApart ==
    \A d, k \in Int : -Pi < d /\ d < Pi =>
        /\ d * d <= (d + 2 * Pi * k) * (d + 2 * Pi * k)
        /\ d * d = (d + 2 * Pi * k) * (d + 2 * Pi * k) => k = 0
<1> SUFFICES ASSUME NEW d \in Int, NEW k \in Int, -Pi < d, d < Pi
             PROVE  /\ d * d <= (d + 2 * Pi * k) * (d + 2 * Pi * k)
                    /\ d * d = (d + 2 * Pi * k) * (d + 2 * Pi * k) => k = 0
  OBVIOUS
<1> DEFINE e == d + 2 * Pi * k
<1> USE PiAssumption
<1>1. e \in Int
  OBVIOUS
<1>2. CASE k = 0
  BY <1>2
<1>3. CASE k >= 1
  <2>1. 2 * Pi * k >= 2 * Pi
    BY <1>3
  <2>2. e > Pi
    BY <2>1
  <2> HIDE DEF e
  <2>3. e * e > Pi * Pi /\ d * d <= Pi * Pi
    BY <1>1, <2>2
  <2>4. d * d < e * e
    BY <1>1, <2>3
  <2> QED BY <2>4 DEF e
<1>4. CASE k <= -1
  <2>1. 2 * Pi * k <= -(2 * Pi)
    BY <1>4
  <2>2. e < -Pi
    BY <2>1
  <2> HIDE DEF e
  <2>3. e * e > Pi * Pi /\ d * d <= Pi * Pi
    BY <1>1, <2>2
  <2>4. d * d < e * e
    BY <1>1, <2>3
  <2> QED BY <2>4 DEF e
<1> QED BY <1>2, <1>3, <1>4

(* f is g with a constant added.                                           *)
Shift(f, g, c, S) == c \in Int /\ \A i \in S : g[i] \in Int /\ f[i] = g[i] + c

(* The constant shows in the sum, not in the dispersion.                   *)
LEMMA SumOfShifted ==
    ASSUME NEW S, IsFiniteSet(S), NEW f, NEW g, NEW c, Shift(f, g, c, S)
    PROVE  /\ SumFunctionOnSet(f, S) = SumFunctionOnSet(g, S) + Cardinality(S) * c
           /\ Dispersion(f, S) = Dispersion(g, S)
<1> DEFINE k == [i \in S |-> c]
           h == [i \in S |-> g[i] + k[i]]
<1> USE DEF Shift
<1>1. SumFunctionOnSet(k, S) = Cardinality(S) * c
  BY SumConstant
<1>2. \A i \in S : /\ k[i] \in Int /\ g[i] \in Int
                   /\ f[i] \in Int /\ h[i] \in Int /\ f[i] = h[i]
  OBVIOUS
<1> HIDE DEF k, Shift
<1>3. SumFunctionOnSet(h, S) = SumFunctionOnSet(g, S) + SumFunctionOnSet(k, S)
  BY <1>2, SumPlus
<1> HIDE DEF h
<1>4. SumFunctionOnSet(f, S) = SumFunctionOnSet(h, S)
  BY <1>2, SumOfSame
<1>5. \A i, j \in S : (f[j] - f[i]) * (f[j] - f[i]) = (g[j] - g[i]) * (g[j] - g[i])
  <2>1. \A i, j \in S : f[j] - f[i] = g[j] - g[i]
    BY DEF Shift
  <2> QED BY <2>1
<1>6. \A i, j \in S : (f[j] - f[i]) * (f[j] - f[i]) \in Int
  BY <1>2
<1>7. Wider(f, g, S) /\ Wider(g, f, S)
  BY <1>5, <1>6 DEF Wider
<1>8. Dispersion(g, S) <= Dispersion(f, S) /\ Dispersion(f, S) <= Dispersion(g, S)
  BY <1>2, <1>7, WiderIsMoreDispersed
<1>9. Dispersion(f, S) \in Int /\ Dispersion(g, S) \in Int
  BY <1>2, DispersionType
<1> QED BY <1>1, <1>3, <1>4, <1>8, <1>9

(* f is g turned by c, and each member by whole turns more; the members of  *)
(* g lie within half a turn.                                               *)
Turned(f, g, c, S) ==
    /\ c \in Int
    /\ \A i \in S : f[i] \in Int /\ g[i] \in Int
    /\ \A i \in S : \E k \in Int : f[i] = g[i] + c + 2 * Pi * k
    /\ \A i, j \in S : g[i] - g[j] < Pi

(* That does not bring them closer, and leaves the dispersion only if all   *)
(* are turned alike.                                                       *)
LEMMA TurnedIsMoreDispersed ==
    ASSUME NEW S, IsFiniteSet(S), S # {}, NEW f, NEW g, NEW c, Turned(f, g, c, S)
    PROVE  /\ Dispersion(g, S) <= Dispersion(f, S)
           /\ Dispersion(g, S) = Dispersion(f, S) =>
                \E k \in Int : Shift(f, g, c + 2 * Pi * k, S)
<1> DEFINE turns(i, j) == \E k \in Int : f[j] - f[i] = (g[j] - g[i]) + 2 * Pi * k
<1>1. ASSUME NEW i \in S, NEW j \in S
      PROVE  /\ -Pi < g[j] - g[i] /\ g[j] - g[i] < Pi /\ g[j] - g[i] \in Int
             /\ \E k \in Int : f[j] - f[i] = (g[j] - g[i]) + 2 * Pi * k
  <2>1. PICK k \in Int : f[i] = g[i] + c + 2 * Pi * k
    BY DEF Turned
  <2>2. PICK m \in Int : f[j] = g[j] + c + 2 * Pi * m
    BY DEF Turned
  <2>3. 2 * Pi * (m - k) = 2 * Pi * m - 2 * Pi * k
    BY PiAssumption
  <2>4. /\ f[i] \in Int /\ f[j] \in Int /\ g[i] \in Int /\ g[j] \in Int /\ c \in Int
        /\ g[j] - g[i] < Pi /\ g[i] - g[j] < Pi
    BY DEF Turned
  <2>5. f[j] - f[i] = (g[j] - g[i]) + 2 * Pi * (m - k)
    BY <2>1, <2>2, <2>3, <2>4, PiAssumption
  <2> QED BY <2>4, <2>5, PiAssumption
<1>2. ASSUME NEW i \in S, NEW j \in S
      PROVE  LET d == g[j] - g[i]
                 e == f[j] - f[i]
             IN  d * d <= e * e /\ (d * d = e * e => e = d)
  <2> DEFINE d == g[j] - g[i]
             e == f[j] - f[i]
  <2>1. PICK k \in Int : e = d + 2 * Pi * k
    BY <1>1
  <2>2. -Pi < d /\ d < Pi /\ d \in Int
    BY <1>1
  <2> HIDE DEF d, e
  <2>3. d * d <= e * e /\ (d * d = e * e => k = 0)
    BY <2>1, <2>2, TurnsTakeApart
  <2>4. d * d = e * e => e = d
    BY <2>1, <2>2, <2>3, PiAssumption
  <2> QED BY <2>3, <2>4 DEF d, e
<1>3. Wider(f, g, S)
  BY <1>2 DEF Wider
<1>4. /\ Dispersion(g, S) <= Dispersion(f, S)
      /\ Dispersion(g, S) = Dispersion(f, S) =>
           \A i, j \in S :
               (f[j] - f[i]) * (f[j] - f[i]) = (g[j] - g[i]) * (g[j] - g[i])
  BY <1>3, WiderIsMoreDispersed DEF Turned
<1>5. ASSUME Dispersion(g, S) = Dispersion(f, S)
      PROVE  \E k \in Int : Shift(f, g, c + 2 * Pi * k, S)
  <2>1. \A i, j \in S : f[j] - f[i] = g[j] - g[i]
    BY <1>2, <1>4, <1>5
  <2>2. PICK i \in S : TRUE
    OBVIOUS
  <2>3. PICK k \in Int : f[i] = g[i] + c + 2 * Pi * k
    BY DEF Turned
  <2> DEFINE b == c + 2 * Pi * k
  <2>4. b \in Int /\ f[i] = g[i] + b
    BY <2>3, PiAssumption DEF Turned
  <2> HIDE DEF b
  <2>5. ASSUME NEW j \in S PROVE f[j] = g[j] + b
    <3>1. f[j] - f[i] = g[j] - g[i]
      BY <2>1
    <3>2. f[i] \in Int /\ f[j] \in Int /\ g[i] \in Int /\ g[j] \in Int
      BY DEF Turned
    <3> QED BY <2>4, <3>1, <3>2
  <2>6. Shift(f, g, b, S)
    BY <2>4, <2>5 DEF Shift, Turned
  <2> QED BY <2>6 DEF b
<1> QED BY <1>4, <1>5

(* What Opposite() makes of a heading in the turn.                         *)
LEMMA OppositeInTurn ==
    \A t \in Int : InTurn(t) => Opposite(t) = IF t > 0 THEN t - Pi ELSE t + Pi
<1> SUFFICES ASSUME NEW t \in Int, InTurn(t)
             PROVE  Opposite(t) = IF t > 0 THEN t - Pi ELSE t + Pi
  OBVIOUS
<1>1. PICK k \in Int : Opposite(t) = t + Pi + 2 * Pi * k
  BY OppositeTurns
<1>2. -Pi <= Opposite(t) /\ Opposite(t) <= Pi
  BY OppositeTurns
<1>3. -Pi <= t /\ t <= Pi /\ Pi \in Nat \ {0}
  BY PiAssumption DEF InTurn
<1>4. CASE t > 0
  <2>1. CASE k >= 0
    <3>1. 2 * Pi * k >= 0
      BY <1>3, <2>1
    <3> QED BY <1>1, <1>2, <1>3, <1>4, <3>1
  <2>2. CASE k <= -2
    <3>1. 2 * Pi * k <= -(4 * Pi)
      BY <1>3, <2>2
    <3> QED BY <1>1, <1>2, <1>3, <1>4, <3>1
  <2>3. CASE k = -1
    <3>1. 2 * Pi * k = -(2 * Pi)
      BY <1>3, <2>3
    <3> QED BY <1>1, <1>3, <1>4, <3>1
  <2> QED BY <2>1, <2>2, <2>3
<1>5. CASE t <= 0
  <2>1. t + Pi \in Int /\ ~(t + Pi > Pi) /\ ~(t + Pi < -Pi)
    BY <1>3, <1>5
  <2>2. Opposite(t) = t + Pi
    BY <2>1 DEF Opposite, NormalizeAngle, Normalized
  <2> QED BY <1>3, <1>5, <2>2
<1> QED BY <1>3, <1>4, <1>5

(* The heading unwrapped along the arc that begins at a.                   *)
Along(a, t) == a + FromOn(a, t)

(* It differs from the heading by whole turns.                             *)
LEMMA AlongTheArc ==
    \A a, t \in Int : /\ FromOn(a, t) \in Int /\ FromOn(a, t) >= 0
                      /\ \E k \in Int : Along(a, t) = t + 2 * Pi * k
<1> SUFFICES ASSUME NEW a \in Int, NEW t \in Int
             PROVE  /\ FromOn(a, t) \in Int /\ FromOn(a, t) >= 0
                    /\ \E k \in Int : Along(a, t) = t + 2 * Pi * k
  OBVIOUS
<1> DEFINE z == t - a
           m == 2 * Pi
           r == z % m
           q == z \div m
<1>1. z \in Int /\ m \in Nat \ {0}
  BY PiAssumption
<1>2. r \in 0 .. m - 1 /\ q \in Int /\ z = m * q + r
  <2> HIDE DEF z, m
  <2> QED BY <1>1, Division
<1>3. FromOn(a, t) = r
  BY DEF FromOn
<1> HIDE DEF r, q
<1>4. a + r = t + 2 * Pi * (-q) /\ -q \in Int
  BY <1>2, PiAssumption
<1> QED BY <1>1, <1>2, <1>3, <1>4 DEF Along

(* An arc that does not hold the cut at Pi or is not cut by it holds the    *)
(* headings as they are, less one turn at most; another holds them turned  *)
(* by half a turn.                                                         *)
LEMMA ArcIsWhole ==
    ASSUME NEW a \in Direction, NEW t \in Int, InTurn(t), FromOn(a, t) < Pi
    PROVE  /\ a = 0 => t = Along(a, t)
           /\ a > Pi => t = Along(a, t) - 2 * Pi
           /\ 1 <= a /\ a <= Pi => Opposite(t) = Along(a, t) - Pi
<1> DEFINE w == Along(a, t)
<1>0. a \in Int /\ 0 <= a /\ a < 2 * Pi
  BY PiAssumption DEF Direction
<1>1. PICK k \in Int : w = t + 2 * Pi * k
  BY <1>0, AlongTheArc
<1>2. /\ w \in Int /\ a <= w /\ w < a + Pi
      /\ -Pi <= t /\ t <= Pi /\ Pi \in Nat \ {0}
  <2>1. FromOn(a, t) \in Int /\ FromOn(a, t) >= 0
    BY <1>0, AlongTheArc
  <2>2. w = a + FromOn(a, t)
    BY DEF Along
  <2> HIDE DEF w
  <2> QED BY <1>0, <2>1, <2>2, PiAssumption DEF InTurn
<1> HIDE DEF w
<1> SUFFICES /\ a = 0 => t = w
             /\ a > Pi => t = w - 2 * Pi
             /\ 1 <= a /\ a <= Pi => Opposite(t) = w - Pi
  BY DEF w
<1>3. /\ k >= 1 => 2 * Pi * k >= 2 * Pi
      /\ k >= 2 => 2 * Pi * k >= 4 * Pi
      /\ k <= -1 => 2 * Pi * k <= -(2 * Pi)
      /\ k = 0 => 2 * Pi * k = 0
      /\ k = 1 => 2 * Pi * k = 2 * Pi
  BY <1>2
<1>4. k \in {0, 1}
  <2>1. ~(k <= -1)
    BY <1>0, <1>1, <1>2, <1>3
  <2>2. ~(k >= 2)
    BY <1>0, <1>1, <1>2, <1>3
  <2> QED BY <2>1, <2>2
<1>5. CASE a = 0
  BY <1>0, <1>1, <1>2, <1>3, <1>4, <1>5
<1>6. CASE a > Pi
  BY <1>0, <1>1, <1>2, <1>3, <1>4, <1>6
<1>7. CASE 1 <= a /\ a <= Pi
  <2>1. Opposite(t) = IF t > 0 THEN t - Pi ELSE t + Pi
    BY OppositeInTurn
  <2> QED BY <1>0, <1>1, <1>2, <1>3, <1>4, <1>7, <2>1
<1> QED BY <1>0, <1>2, <1>5, <1>6, <1>7

-----------------------------------------------------------------------------
(* The heading of meanPose() is the mean along the arc on which the         *)
(* headings lie, wherever the arc begins: if it does not hold the cut at Pi *)
(* the headings themselves have the dispersion of the arc and no others    *)
(* less, and otherwise their opposites have.                               *)
THEOREM HeadingOfMean ==
    ASSUME NEW p, Vector(p), \A i \in Counted(p) : InTurn(p[i].t)
    PROVE  CentralHeading(p)
<1> DEFINE ps == Counted(p)
           num == Cardinality(ps)
           T == [i \in ps |-> p[i].t]
           O == [i \in ps |-> Opposite(p[i].t)]
           t == SumFunctionOnSet(T, ps)
           t2 == SumFunctionOnSet(O, ps)
           h == [i \in ps |-> Normalized(num * p[i].t - t, num * Pi)]
           o == [i \in ps |-> num * Opposite(p[i].t) - t2]
           tt == Dot(h, h, ps)
           tt2 == Dot(o, o, ps)
           pi == num * Pi
           mean == MeanPose(p)
<1>1. mean.t = IF tt > tt2 THEN Normalized(t2 - pi, pi) ELSE t
  <2> DEFINE s == SumOver(ps, LAMBDA i : p[i].t)
             s2 == SumOver(ps, LAMBDA i : Opposite(p[i].t))
             from(i, c) == Normalized(num * p[i].t - c, num * Pi)
             opp(i) == num * Opposite(p[i].t) - s2
             ss == SumOver(ps, LAMBDA i : from(i, s) * from(i, s))
             ss2 == SumOver(ps, LAMBDA i : opp(i) * opp(i))
  <2>1. mean.t = IF ss > ss2 THEN Normalized(s2 - num * Pi, num * Pi) ELSE s
    BY DEF MeanPose, MeanPoseOf
  <2>2. t = s /\ t2 = s2
    BY Zenon DEF SumOver
  <2>3. /\ [i \in ps |-> from(i, s) * from(i, s)] = [i \in ps |-> h[i] * h[i]]
        /\ [i \in ps |-> opp(i) * opp(i)] = [i \in ps |-> o[i] * o[i]]
    <3> HIDE DEF t, t2, s, s2
    <3> QED BY <2>2, Zenon DEF h, o
  <2>4. tt = ss /\ tt2 = ss2
    <3> HIDE DEF h, o, from, opp
    <3> QED BY <2>3, Zenon DEF SumOver, Dot
  <2> HIDE DEF t, t2, tt, tt2, s, s2, ss, ss2, mean
  <2> QED BY <2>1, <2>2, <2>4, Zenon
<1>2. /\ IsFiniteSet(ps) /\ ps \subseteq DOMAIN p /\ num \in Nat \ {0} /\ ps # {}
      /\ pi \in Nat \ {0} /\ Pi \in Nat \ {0}
  BY CountedIsFinite, PiAssumption, FS_EmptySet
<1>3. mean.num = num
  BY DEF MeanPose, MeanPoseOf
<1> SUFFICES ASSUME NEW a \in Direction, Together(p, ps, a)
             PROVE  (num * a + SumOver(ps, LAMBDA i : FromOn(a, p[i].t)) - mean.t)
                        % (num * 2 * Pi) = 0
  BY <1>3, Zenon DEF CentralHeading
<1> DEFINE s == SumOver(ps, LAMBDA i : FromOn(a, p[i].t))
<1> SUFFICES (num * a + (s - mean.t)) % (num * 2 * Pi) = 0
  OBVIOUS
<1> DEFINE W == [i \in ps |-> Along(a, p[i].t)]
           w == SumFunctionOnSet(W, ps)
<1>4. a \in Int /\ 0 <= a /\ a < 2 * Pi
  BY <1>2 DEF Direction
<1>5. \A i \in ps : /\ p[i].t \in Int /\ InTurn(p[i].t) /\ FromOn(a, p[i].t) < Pi
                    /\ FromOn(a, p[i].t) \in Int /\ FromOn(a, p[i].t) >= 0
                    /\ Along(a, p[i].t) \in Int /\ Opposite(p[i].t) \in Int
  <2>1. \A i \in ps : p[i].t \in Int /\ InTurn(p[i].t) /\ FromOn(a, p[i].t) < Pi
    BY <1>2 DEF Vector, Together
  <2> SUFFICES ASSUME NEW i \in ps
               PROVE  /\ FromOn(a, p[i].t) \in Int /\ FromOn(a, p[i].t) >= 0
                      /\ Along(a, p[i].t) \in Int /\ Opposite(p[i].t) \in Int
    BY <2>1
  <2> DEFINE x == p[i].t
  <2>2. x \in Int
    BY <2>1
  <2> HIDE DEF x
  <2>3. FromOn(a, x) \in Int /\ FromOn(a, x) >= 0 /\ Opposite(x) \in Int
    BY <1>4, <2>2, AlongTheArc, OppositeTurns
  <2> QED BY <1>4, <2>3 DEF Along, x
<1>6. \A i \in ps : /\ T[i] = p[i].t /\ T[i] \in Int
                    /\ O[i] = Opposite(p[i].t) /\ O[i] \in Int
                    /\ W[i] = Along(a, p[i].t) /\ W[i] \in Int
  BY <1>5
<1>7. num * a + s = w /\ s \in Int
  <2> DEFINE F == [i \in ps |-> FromOn(a, p[i].t)]
  <2>1. Shift(W, F, a, ps)
    BY <1>4, <1>5 DEF Shift, Along
  <2>2. \A i \in ps : F[i] \in Int
    BY <1>5
  <2>3. SumOver(ps, LAMBDA i : FromOn(a, p[i].t)) = SumFunctionOnSet(F, ps)
    BY Zenon DEF SumOver
  <2> HIDE DEF F, W
  <2>4. SumFunctionOnSet(F, ps) \in Int
    BY <1>2, <2>2, SumType
  <2>5. w = SumFunctionOnSet(F, ps) + num * a
    BY <1>2, <2>1, SumOfShifted
  <2> HIDE DEF w, num
  <2> QED BY <1>2, <1>4, <2>3, <2>4, <2>5
<1>8. t \in Int /\ t2 \in Int /\ w \in Int
  <2> HIDE DEF T, O, W
  <2> QED BY <1>2, <1>6, SumType
<1>9. mean.t \in Int
  <2>1. t2 - pi \in Int
    <3> HIDE DEF t2, pi
    <3> QED BY <1>2, <1>8
  <2> DEFINE z == t2 - pi
  <2> HIDE DEF t, tt, tt2, mean, z, pi
  <2>2. Normalized(z, pi) \in Int
    BY <1>2, <2>1, NormalizedTurns DEF z
  <2> QED BY <1>1, <1>8, <2>2 DEF z
<1> HIDE DEF s
<1>10. SUFFICES \E k \in Int : w - mean.t = (2 * pi) * k
  <2> PICK k \in Int : w - mean.t = (2 * pi) * k
    BY <1>10
  <2>1. 2 * pi \in Nat \ {0} /\ num * 2 * Pi = 2 * pi
    BY <1>2
  <2> HIDE DEF pi, w, mean
  <2>2. (w - mean.t) % (2 * pi) = 0
    BY <2>1, MultipleHasNoRemainder
  <2>3. (w - mean.t) % (num * 2 * Pi) = 0
    BY <2>1, <2>2
  <2>4. num * a \in Int /\ mean.t \in Int
    <3>1. num * a \in Int
      BY <1>2, <1>4
    <3> QED BY <3>1, <1>9
  <2>5. num * a + (s - mean.t) = w - mean.t
    BY <1>7, <1>8, <2>4
  <2> QED BY <2>3, <2>5
<1> HIDE DEF mean
<1>11. \A i, j \in ps : W[i] - W[j] < Pi
  <2>1. \A i \in ps : W[i] = a + FromOn(a, p[i].t)
    BY DEF Along
  <2> HIDE DEF W
  <2> QED BY <1>2, <1>4, <1>5, <2>1
(* tt2 is the dispersion of the opposites.                                 *)
<1>12. tt2 = num * Dispersion(O, ps)
  <2>1. MeasuredFrom(o, num, O, t2, ps)
    BY <1>2, <1>6, <1>8 DEF MeasuredFrom
  <2> HIDE DEF o, O
  <2>2. tt2 = num * (Dispersion(O, ps) + (t2 - t2) * (t2 - t2))
    BY <1>2, <2>1, DeviationFrom
  <2>3. Dispersion(O, ps) \in Int
    BY <1>2, <1>6, DispersionType
  <2> HIDE DEF t2, tt2, num
  <2> QED BY <1>2, <1>8, <2>2, <2>3
(* tt is the dispersion of headings V, turned by whole turns, and what     *)
(* their mean differs from t.                                              *)
<1> DEFINE norm(i) == Normalized(num * p[i].t - t, pi)
           V == [i \in ps |-> p[i].t
                    + 2 * Pi * (CHOOSE k \in Int :
                                    norm(i) = num * p[i].t - t + 2 * pi * k)]
           v == SumFunctionOnSet(V, ps)
<1>13. ASSUME NEW i \in ps
       PROVE  /\ \E k \in Int : V[i] = T[i] + 2 * Pi * k
              /\ h[i] = num * V[i] - t
  <2> DEFINE k == CHOOSE k \in Int : norm(i) = num * p[i].t - t + 2 * pi * k
             z == num * p[i].t - t
  <2>1. z \in Int
    <3> HIDE DEF num, t
    <3> QED BY <1>2, <1>5, <1>8
  <2>2. \E j \in Int : norm(i) = z + 2 * pi * j
    <3> HIDE DEF z, pi
    <3>1. norm(i) = Normalized(z, pi)
      BY DEF z
    <3> QED BY <1>2, <2>1, <3>1, NormalizedTurns
  <2>3. k \in Int /\ norm(i) = z + 2 * pi * k
    BY <2>2
  <2>4. V[i] = p[i].t + 2 * Pi * k /\ h[i] = norm(i)
    OBVIOUS
  <2> HIDE DEF k, norm, V, h
  <2>5. num * (2 * Pi * k) = 2 * pi * k
    BY <1>2, <2>3
  <2>6. num * V[i] = num * p[i].t + num * (2 * Pi * k)
    <3> DEFINE q == 2 * Pi * k
    <3>1. q \in Int /\ p[i].t \in Int /\ num \in Int
      BY <1>2, <1>5, <2>3
    <3> HIDE DEF q, num
    <3>2. num * (p[i].t + q) = num * p[i].t + num * q
      BY <3>1
    <3> QED BY <2>4, <3>2 DEF q
  <2>7. h[i] = num * V[i] - t
    <3> DEFINE b == num * p[i].t
               c == 2 * pi * k
    <3>1. b \in Int /\ c \in Int
      BY <1>2, <1>5, <2>3
    <3>2. h[i] = b - t + c /\ num * V[i] = b + c
      BY <2>3, <2>4, <2>5, <2>6
    <3> HIDE DEF b, c, t
    <3> QED BY <1>8, <3>1, <3>2
  <2>8. T[i] = p[i].t
    OBVIOUS
  <2> HIDE DEF T
  <2> QED BY <2>3, <2>4, <2>7, <2>8
<1>14. \A i \in ps : V[i] \in Int
  <2> HIDE DEF V, T
  <2> QED BY <1>2, <1>6, <1>13
<1>15. v \in Int /\ Dispersion(V, ps) \in Int /\ Dispersion(O, ps) \in Int
       /\ Dispersion(W, ps) \in Int /\ Dispersion(T, ps) \in Int
  <2> HIDE DEF V, O, W, T
  <2> QED BY <1>2, <1>6, <1>14, SumType, DispersionType
<1>16. tt = num * (Dispersion(V, ps) + (v - t) * (v - t))
  <2>1. MeasuredFrom(h, num, V, t, ps)
    <3> HIDE DEF h, V, t, num
    <3> QED BY <1>2, <1>8, <1>13, <1>14 DEF MeasuredFrom
  <2> HIDE DEF h, V, t
  <2> QED BY <1>2, <2>1, DeviationFrom
<1>17. tt <= num * Dispersion(T, ps)
  <2> DEFINE g == [i \in ps |-> num * p[i].t - t]
             gg == [i \in ps |-> g[i] * g[i]]
             hh == [i \in ps |-> h[i] * h[i]]
  <2>1. MeasuredFrom(g, num, T, t, ps)
    <3> HIDE DEF t, num
    <3> QED BY <1>2, <1>5, <1>8 DEF MeasuredFrom
  <2>2. Dot(g, g, ps) = num * (Dispersion(T, ps) + (t - t) * (t - t))
    <3> HIDE DEF g, T
    <3> QED BY <1>2, <2>1, DeviationFrom
  <2>3. ASSUME NEW i \in ps PROVE hh[i] \in Int /\ gg[i] \in Int /\ hh[i] <= gg[i]
    <3> DEFINE z == num * p[i].t - t
    <3>1. z \in Int
      <4> HIDE DEF num, t
      <4> QED BY <1>2, <1>5, <1>8
    <3>2. hh[i] = Normalized(z, pi) * Normalized(z, pi) /\ gg[i] = z * z
      BY DEF hh, gg
    <3>3. z = z + 2 * pi * 0
      BY <1>2, <3>1
    <3> HIDE DEF z, hh, gg, pi
    <3>4. Normalized(z, pi) \in Int
      BY <1>2, <3>1, NormalizedTurns
    <3>5. Normalized(z, pi) * Normalized(z, pi) <= z * z
      <4>1. 0 \in Int
        OBVIOUS
      <4> QED BY <1>2, <3>1, <3>3, <4>1, NormalizedIsLeast
    <3> QED BY <3>1, <3>2, <3>4, <3>5
  <2>4. tt = SumFunctionOnSet(hh, ps) /\ Dot(g, g, ps) = SumFunctionOnSet(gg, ps)
    <3> HIDE DEF h, g
    <3> QED BY Zenon DEF Dot
  <2> HIDE DEF gg, hh, tt
  <2>5. SumFunctionOnSet(hh, ps) <= SumFunctionOnSet(gg, ps)
    BY <1>2, <2>3, SumIsMonotone
  <2>6. num * (Dispersion(T, ps) + (t - t) * (t - t)) = num * Dispersion(T, ps)
    <3> DEFINE x == Dispersion(T, ps)
    <3> HIDE DEF x, t, num, T, V, O, W
    <3>1. x \in Int /\ t \in Int /\ num \in Int
      BY <1>2, <1>8, <1>15 DEF x
    <3>2. num * (x + (t - t) * (t - t)) = num * x
      BY <3>1
    <3> QED BY <3>2 DEF x
  <2> HIDE DEF t, num, T
  <2> QED BY <2>2, <2>4, <2>5, <2>6
<1> HIDE DEF tt, tt2, h, o
(* V and O are the headings along the arc, turned.                         *)
<1>18. Turned(V, W, 0, ps) /\ Turned(O, W, Pi, ps)
  <2>1. ASSUME NEW i \in ps PROVE \E k \in Int : V[i] = W[i] + 0 + 2 * Pi * k
    <3>1. PICK k \in Int : V[i] = T[i] + 2 * Pi * k
      BY <1>13
    <3>2. PICK j \in Int : W[i] = T[i] + 2 * Pi * j
      <4>1. /\ p[i].t \in Int /\ W[i] = Along(a, p[i].t) /\ T[i] = p[i].t
        BY <1>5, <1>6
      <4> DEFINE x == p[i].t
      <4> HIDE DEF W, T, x
      <4>2. \E j \in Int : Along(a, x) = x + 2 * Pi * j
        BY <1>4, <4>1, AlongTheArc DEF x
      <4> QED BY <4>1, <4>2 DEF x
    <3>3. 2 * Pi * (k - j) = 2 * Pi * k - 2 * Pi * j
      BY <1>2
    <3> HIDE DEF V, W, T
    <3>4. V[i] = W[i] + 0 + 2 * Pi * (k - j)
      BY <1>2, <1>6, <3>1, <3>2, <3>3
    <3> QED BY <3>4
  <2>2. ASSUME NEW i \in ps PROVE \E k \in Int : O[i] = W[i] + Pi + 2 * Pi * k
    <3>1. PICK k \in Int : O[i] = T[i] + Pi + 2 * Pi * k
      BY <1>5, <1>6, OppositeTurns
    <3>2. PICK j \in Int : W[i] = T[i] + 2 * Pi * j
      <4>1. /\ p[i].t \in Int /\ W[i] = Along(a, p[i].t) /\ T[i] = p[i].t
        BY <1>5, <1>6
      <4> DEFINE x == p[i].t
      <4> HIDE DEF W, T, x
      <4>2. \E j \in Int : Along(a, x) = x + 2 * Pi * j
        BY <1>4, <4>1, AlongTheArc DEF x
      <4> QED BY <4>1, <4>2 DEF x
    <3>3. 2 * Pi * (k - j) = 2 * Pi * k - 2 * Pi * j
      BY <1>2
    <3> HIDE DEF O, W, T
    <3>4. O[i] = W[i] + Pi + 2 * Pi * (k - j)
      BY <1>2, <1>6, <3>1, <3>2, <3>3
    <3> QED BY <3>4
  <2> HIDE DEF V, O, W
  <2> QED BY <1>2, <1>6, <1>14, <1>11, <2>1, <2>2 DEF Turned
<1>19. Dispersion(W, ps) <= Dispersion(V, ps) /\ Dispersion(W, ps) <= Dispersion(O, ps)
  <2> HIDE DEF V, O, W
  <2> QED BY <1>2, <1>18, TurnedIsMoreDispersed
<1>20. CASE 1 <= a /\ a <= Pi
  <2>1. Shift(O, W, -Pi, ps)
    <3>1. ASSUME NEW i \in ps PROVE O[i] = W[i] + (-Pi)
      <4>1. Opposite(p[i].t) = Along(a, p[i].t) - Pi
        BY <1>5, <1>20, ArcIsWhole
      <4> HIDE DEF O, W
      <4> QED BY <1>2, <1>6, <4>1
    <3> HIDE DEF O, W
    <3> QED BY <1>2, <1>6, <3>1 DEF Shift
  <2>2. t2 = w + num * (-Pi) /\ Dispersion(O, ps) = Dispersion(W, ps)
    <3> HIDE DEF O, W
    <3> QED BY <1>2, <2>1, SumOfShifted
  <2>3. t2 = w - pi
    <3> HIDE DEF t2, w
    <3> QED BY <1>2, <1>8, <2>2
  <2> HIDE DEF t, t2, v, w, V, W, O, T, num
  <2>4. CASE tt > tt2
    <3> DEFINE z == t2 - pi
    <3>1. z \in Int /\ mean.t = Normalized(z, pi)
      BY <1>1, <1>2, <1>8, <2>4
    <3>2. PICK k \in Int : mean.t = z + 2 * pi * k
      <4> HIDE DEF z, pi
      <4> QED BY <1>2, <3>1, NormalizedTurns
    <3> HIDE DEF pi
    <3>3. w - mean.t = (2 * pi) * (1 - k)
      BY <1>2, <1>8, <2>3, <3>2
    <3> QED BY <3>3
  <2>5. CASE ~(tt > tt2)
    <3> DEFINE d == Dispersion(V, ps) - Dispersion(W, ps)
               e == (v - t) * (v - t)
    <3>1. d \in Nat /\ e \in Nat /\ v - t \in Int
      BY <1>8, <1>15, <1>19
    <3>2. d + e = 0
      <4>1. tt = num * (Dispersion(W, ps) + (d + e))
        BY <1>8, <1>15, <1>16
      <4>2. tt <= num * Dispersion(W, ps)
        <5>1. tt \in Int
          BY <1>2, <1>15, <3>1, <4>1
        <5>2. num * Dispersion(W, ps) \in Int
          BY <1>2, <1>15
        <5> QED BY <1>12, <2>2, <2>5, <5>1, <5>2
      <4> DEFINE r == d + e
                 x == Dispersion(W, ps)
      <4>3. r \in Nat /\ x \in Int /\ num * (x + r) <= num * x
        BY <1>15, <3>1, <4>1, <4>2
      <4> HIDE DEF r, x
      <4>4. num \in Nat \ {0}
        BY <1>2
      <4>5. num * r <= 0
        BY <4>3, <4>4
      <4>6. (num - 1) * r >= 0 /\ (num - 1) * r = num * r - r
        BY <4>3, <4>4
      <4>7. num * r \in Int
        BY <4>3, <4>4
      <4>8. r = 0
        BY <4>3, <4>5, <4>6, <4>7
      <4> QED BY <4>8 DEF r
    <3>3. d = 0 /\ e = 0
      <4> HIDE DEF d, e
      <4> QED BY <3>1, <3>2
    <3>4. v = t
      <4> DEFINE y == v - t
      <4>1. y \in Int /\ y * y = 0
        BY <3>1, <3>3
      <4>2. y = 0
        <5> HIDE DEF y
        <5> QED BY <4>1
      <4> QED BY <1>8, <1>15, <4>2
    <3>5. PICK k \in Int : Shift(V, W, 0 + 2 * Pi * k, ps)
      <4>1. Dispersion(W, ps) = Dispersion(V, ps)
        BY <1>15, <3>3
      <4> QED BY <1>2, <1>18, <4>1, TurnedIsMoreDispersed
    <3>6. v = w + num * (0 + 2 * Pi * k)
      <4> DEFINE c == 0 + 2 * Pi * k
      <4>1. Shift(V, W, c, ps)
        BY <3>5
      <4> HIDE DEF c
      <4>2. v = w + num * c
        BY <1>2, <4>1, SumOfShifted DEF v, w, num
      <4> QED BY <4>2 DEF c
    <3>7. mean.t = t
      BY <1>1, <2>5
    <3>8. num * (0 + 2 * Pi * k) = (2 * pi) * k
      BY <1>2
    <3> DEFINE x == (2 * pi) * k
    <3>9. x \in Int /\ v = w + x
      BY <1>2, <3>6, <3>8
    <3>10. w - v = -x /\ (2 * pi) * (-k) = -x
      <4>1. (2 * pi) * (-k) = -x
        BY <1>2
      <4> HIDE DEF x
      <4> QED BY <1>8, <3>9, <4>1
    <3>11. w - mean.t = (2 * pi) * (-k) /\ -k \in Int
      BY <3>4, <3>7, <3>10
    <3> QED BY <3>11
  <2> QED BY <2>4, <2>5
<1>21. CASE a = 0 \/ a > Pi
  <2> DEFINE c == IF a = 0 THEN 0 ELSE -(2 * Pi)
  <2>1. Shift(T, W, c, ps)
    <3>1. ASSUME NEW i \in ps PROVE T[i] = W[i] + c
      <4>1. /\ a = 0 => p[i].t = Along(a, p[i].t)
            /\ a > Pi => p[i].t = Along(a, p[i].t) - 2 * Pi
        BY <1>5, ArcIsWhole
      <4> HIDE DEF T, W
      <4> QED BY <1>2, <1>4, <1>6, <1>21, <4>1
    <3> HIDE DEF T, W
    <3> QED BY <1>2, <1>6, <3>1 DEF Shift
  <2>2. t = w + num * c /\ Dispersion(T, ps) = Dispersion(W, ps)
    <3> HIDE DEF T, W, c
    <3> QED BY <1>2, <2>1, SumOfShifted
  <2> HIDE DEF t, t2, v, w, V, W, O, T, num
  <2>3. ~(tt > tt2)
    <3> DEFINE x == Dispersion(W, ps)
               y == Dispersion(O, ps)
    <3>1. x \in Int /\ y \in Int /\ x <= y
      BY <1>15, <1>19
    <3>2. tt <= num * x /\ tt2 = num * y
      BY <1>12, <1>17, <2>2
    <3>3. tt \in Int
      <4> DEFINE z == Dispersion(V, ps) + (v - t) * (v - t)
      <4>1. z \in Int /\ tt = num * z
        BY <1>8, <1>15, <1>16
      <4> HIDE DEF z
      <4> QED BY <1>2, <4>1
    <3> HIDE DEF x, y
    <3>4. num * x <= num * y
      BY <1>2, <3>1
    <3>5. num * x \in Int /\ num * y \in Int
      BY <1>2, <3>1
    <3> QED BY <3>2, <3>3, <3>4, <3>5
  <2>4. mean.t = t
    BY <1>1, <2>3
  <2>5. CASE a = 0
    <3>1. num * c = 0
      BY <1>2, <2>5
    <3> HIDE DEF c
    <3>2. w - mean.t = (2 * pi) * 0
      BY <1>2, <1>8, <2>2, <2>4, <3>1
    <3> QED BY <3>2
  <2>6. CASE a # 0
    <3>1. num * c = -(2 * pi)
      BY <1>2, <2>6
    <3> HIDE DEF c, pi
    <3>2. w - mean.t = (2 * pi) * 1
      BY <1>2, <1>8, <2>2, <2>4, <3>1
    <3> QED BY <3>2
  <2> QED BY <2>5, <2>6
<1> QED BY <1>2, <1>4, <1>20, <1>21

-----------------------------------------------------------------------------
(* The average of numbers within half of b of c is within half of b of c.  *)
LEMMA AverageIsNear ==
    ASSUME NEW S, IsFiniteSet(S), NEW f, NEW c \in Int, NEW b \in Int,
           \A i \in S : f[i] \in Int /\ 2 * c - b <= 2 * f[i] /\ 2 * f[i] <= 2 * c + b
    PROVE  /\ Cardinality(S) * (2 * c - b) <= 2 * SumFunctionOnSet(f, S)
           /\ 2 * SumFunctionOnSet(f, S) <= Cardinality(S) * (2 * c + b)
<1> DEFINE low == [i \in S |-> 2 * c - b]
           high == [i \in S |-> 2 * c + b]
           g == [i \in S |-> 2 * f[i]]
<1>1. \A i \in S : /\ low[i] \in Int /\ high[i] \in Int /\ g[i] \in Int
                   /\ low[i] <= g[i] /\ g[i] <= high[i]
  OBVIOUS
<1>2. SumFunctionOnSet(low, S) = Cardinality(S) * (2 * c - b)
  <2> DEFINE d == 2 * c - b
  <2>1. d \in Int
    OBVIOUS
  <2>2. SumFunctionOnSet([i \in S |-> d], S) = Cardinality(S) * d
    <3> HIDE DEF d
    <3> QED BY <2>1, SumConstant
  <2> QED BY <2>2, Zenon
<1>3. SumFunctionOnSet(high, S) = Cardinality(S) * (2 * c + b)
  <2> DEFINE d == 2 * c + b
  <2>1. d \in Int
    OBVIOUS
  <2>2. SumFunctionOnSet([i \in S |-> d], S) = Cardinality(S) * d
    <3> HIDE DEF d
    <3> QED BY <2>1, SumConstant
  <2> QED BY <2>2, Zenon
<1>4. SumFunctionOnSet(g, S) = 2 * SumFunctionOnSet(f, S)
  <2>1. 2 \in Int /\ \A i \in S : f[i] \in Int
    OBVIOUS
  <2> QED BY <2>1, SumTimes
<1> HIDE DEF low, high, g
<1>5. /\ SumFunctionOnSet(low, S) <= SumFunctionOnSet(g, S)
      /\ SumFunctionOnSet(g, S) <= SumFunctionOnSet(high, S)
  BY <1>1, SumIsMonotone
<1> QED BY <1>2, <1>3, <1>4, <1>5

(* The particles of one cell are less than its side apart.                 *)
LEMMA CellIsNarrow ==
    ASSUME NEW p, NEW i, NEW j, p[i].x \in Int, p[j].x \in Int,
           CellOf(p[i]) = CellOf(p[j])
    PROVE  p[i].x - p[j].x < Res
<1> DEFINE x == p[i].x
           y == p[j].x
<1>1. Res \in Nat \ {0}
  BY ClusterAssumption
<1>2. x \div Res = y \div Res /\ x \in Int /\ y \in Int
  BY DEF CellOf
<1> HIDE DEF x, y
<1>3. /\ x % Res \in 0 .. Res - 1 /\ x = Res * (x \div Res) + (x % Res)
      /\ y % Res \in 0 .. Res - 1 /\ y = Res * (y \div Res) + (y % Res)
  BY <1>1, <1>2, Division
<1>4. x - y = (x % Res) - (y % Res)
  <2> DEFINE q == Res * (y \div Res)
  <2>1. q \in Int /\ x = q + (x % Res) /\ y = q + (y % Res)
    BY <1>1, <1>2, <1>3
  <2> HIDE DEF q
  <2> QED BY <1>3, <2>1
<1>5. x - y < Res
  BY <1>1, <1>3, <1>4
<1> QED BY <1>5 DEF x, y

(* The densest cell holds a particle, and all that were counted with it.   *)
LEMMA PeakIsDensest ==
    ASSUME NEW p, Vector(p), DOMAIN p \subseteq Nat
    PROVE  /\ InPeak(p) # {} /\ InPeak(p) \subseteq DOMAIN p
           /\ \A n \in DOMAIN p : CountUpTo(p, n) <= Cardinality(InPeak(p))
<1> DEFINE D == DOMAIN p
           C == {CountUpTo(p, n) : n \in D}
           peak_count == Max(C)
           First == {n \in D : CountUpTo(p, n) = peak_count}
           m == Min(First)
           up(n) == {i \in D : i <= n /\ CellOf(p[i]) = CellOf(p[n])}
<1>1. IsFiniteSet(D) /\ D # {}
  BY DEF Vector
<1>2. ASSUME NEW n \in D
      PROVE  /\ CountUpTo(p, n) \in Nat
             /\ CountUpTo(p, n) <= Cardinality(D)
             /\ CountUpTo(p, n) = Cardinality(up(n))
  <2>1. up(n) \subseteq D
    OBVIOUS
  <2>2. CountUpTo(p, n) = Cardinality(up(n))
    BY DEF CountUpTo
  <2> QED BY <1>1, <2>1, <2>2, FS_Subset, FS_CardinalityType
<1>3. peak_count \in C /\ \A c \in C : c <= peak_count
  <2>1. C \in SUBSET Nat /\ C # {} /\ \A c \in C : c <= Cardinality(D)
    BY <1>1, <1>2
  <2>2. Cardinality(D) \in Nat
    BY <1>1, FS_CardinalityType
  <2> HIDE DEF C
  <2> QED BY <2>1, <2>2, MaxIsGreatest
<1>4. First # {} /\ First \in SUBSET Nat
  BY <1>3
<1>5. m \in First
  <2> HIDE DEF First
  <2> QED BY <1>4, MinIsLeast
<1>6. m \in D /\ CountUpTo(p, m) = peak_count
  BY <1>5
<1>7. PeakCell(p) = CellOf(p[m])
  BY Zenon DEF PeakCell
<1>8. ASSUME NEW n \in D PROVE CountUpTo(p, n) <= peak_count
  BY <1>3
<1> HIDE DEF m, peak_count
<1>9. up(m) \subseteq InPeak(p) /\ m \in InPeak(p) /\ InPeak(p) \subseteq D
  BY <1>6, <1>7 DEF InPeak
<1>10. Cardinality(up(m)) <= Cardinality(InPeak(p))
  <2>1. IsFiniteSet(InPeak(p))
    BY <1>1, <1>9, FS_Subset
  <2> QED BY <1>9, <2>1, FS_Subset
<1>11. ASSUME NEW n \in D PROVE CountUpTo(p, n) <= Cardinality(InPeak(p))
  <2>1. /\ CountUpTo(p, n) \in Nat /\ CountUpTo(p, n) <= peak_count
        /\ peak_count = CountUpTo(p, m) /\ CountUpTo(p, m) \in Nat
        /\ CountUpTo(p, m) = Cardinality(up(m))
    BY <1>2, <1>6, <1>8
  <2>2. Cardinality(InPeak(p)) \in Nat
    BY <1>1, <1>9, FS_Subset, FS_CardinalityType
  <2> QED BY <1>10, <2>1, <2>2
<1> QED BY <1>9, <1>11

(* A set whose members have few in common with each value of f has not     *)
(* many more members than f has values on it.                              *)
LEMMA Pigeonholes ==
    ASSUME NEW S, IsFiniteSet(S), NEW f, NEW k \in Nat,
           \A s \in S : Cardinality({r \in S : f[r] = f[s]}) <= k
    PROVE  /\ IsFiniteSet({f[s] : s \in S})
           /\ Cardinality(S) <= k * Cardinality({f[s] : s \in S})
<1> DEFINE val(u) == {f[s] : s \in u}
           T == val(S)
           over(c) == {s \in S : f[s] \in c}
<1>1. IsFiniteSet(T)
  <2> DEFINE B == {u \in SUBSET S : ~IsFiniteSet(val(u))}
  <2> SUFFICES ASSUME B # {} PROVE FALSE
    OBVIOUS
  <2>1. PICK u \in B : \A s \in u : u \ {s} \notin B
    <3>1. B \subseteq SUBSET S
      OBVIOUS
    <3> HIDE DEF B
    <3> QED BY <3>1, SmallestException
  <2>2. u # {}
    <3>1. val({}) = {}
      OBVIOUS
    <3> QED BY <3>1, <2>1, FS_EmptySet
  <2>3. PICK s \in u : TRUE
    BY <2>2
  <2>4. IsFiniteSet(val(u \ {s}))
    BY <2>1, <2>3
  <2>5. val(u) = val(u \ {s}) \cup {f[s]}
    BY <2>3
  <2> HIDE DEF val
  <2>6. IsFiniteSet(val(u \ {s}) \cup {f[s]})
    BY <2>4, FS_AddElement
  <2>7. IsFiniteSet(val(u))
    BY <2>5, <2>6, Zenon
  <2> QED BY <2>1, <2>7 DEF val
<1>2. \A c \in SUBSET T : /\ IsFiniteSet(c) /\ Cardinality(c) \in Nat
                          /\ IsFiniteSet(over(c)) /\ Cardinality(over(c)) \in Nat
  <2> SUFFICES ASSUME NEW c \in SUBSET T
               PROVE  /\ IsFiniteSet(c) /\ Cardinality(c) \in Nat
                      /\ IsFiniteSet(over(c)) /\ Cardinality(over(c)) \in Nat
    OBVIOUS
  <2>1. over(c) \in SUBSET S
    OBVIOUS
  <2> HIDE DEF T, over
  <2> QED BY <1>1, <2>1, FS_Subset, FS_CardinalityType
<1>3. \A c \in SUBSET T : Cardinality(over(c)) <= k * Cardinality(c)
  <2> DEFINE B == {c \in SUBSET T : ~(Cardinality(over(c)) <= k * Cardinality(c))}
  <2> SUFFICES ASSUME B # {} PROVE FALSE
    OBVIOUS
  <2>1. PICK c \in B : \A t \in c : c \ {t} \notin B
    <3>1. B \subseteq SUBSET T
      OBVIOUS
    <3> HIDE DEF B, T
    <3> QED BY <1>1, <3>1, SmallestException
  <2>2. c # {}
    <3>1. over({}) = {}
      OBVIOUS
    <3>2. Cardinality(over({})) = 0 /\ Cardinality({}) = 0
      BY <3>1, FS_EmptySet
    <3>3. Cardinality(over({})) <= k * Cardinality({})
      BY <3>2
    <3> HIDE DEF over
    <3> QED BY <2>1, <3>3, Zenon
  <2>3. PICK t \in c : TRUE
    BY <2>2
  <2>4. c \in SUBSET T /\ t \in T /\ c \ {t} \in SUBSET T
    BY <2>1, <2>3
  <2>5. PICK s \in S : f[s] = t
    BY <2>4
  <2> DEFINE F == {r \in S : f[r] = t}
  <2>6. over(c) = over(c \ {t}) \cup F
    BY <2>3
  <2>7. IsFiniteSet(F) /\ Cardinality(F) <= k /\ Cardinality(F) \in Nat
    BY <2>5, FS_Subset, FS_CardinalityType
  <2>8. Cardinality(over(c \ {t})) <= k * Cardinality(c \ {t})
    BY <2>1, <2>3, <2>4
  <2>9. Cardinality(c \ {t}) = Cardinality(c) - 1 /\ Cardinality(c) \in Nat
    BY <1>2, <2>3, <2>4, FS_RemoveElement
  <2> DEFINE d == c \ {t}
  <2>10. IsFiniteSet(over(d)) /\ Cardinality(over(d)) \in Nat
    BY <1>2, <2>4
  <2> HIDE DEF F, over, d, T
  <2>11. Cardinality(over(c)) <= Cardinality(over(d)) + Cardinality(F)
    <3>1. IsFiniteSet(over(d) \cap F)
      BY <2>7, FS_Subset
    <3>2. Cardinality(over(d) \cap F) \in Nat
      BY <3>1, FS_CardinalityType
    <3>3. over(c) = over(d) \cup F
      BY <2>6 DEF d
    <3>4. Cardinality(over(d) \cup F)
            = Cardinality(over(d)) + Cardinality(F) - Cardinality(over(d) \cap F)
      BY <2>7, <2>10, FS_Union
    <3> QED BY <2>7, <2>10, <3>2, <3>3, <3>4
  <2>12. Cardinality(over(d)) <= k * (Cardinality(c) - 1)
    BY <2>8, <2>9 DEF d
  <2>13. k * (Cardinality(c) - 1) = k * Cardinality(c) - k /\ k * Cardinality(c) \in Int
    BY <2>9
  <2>14. Cardinality(over(c)) \in Nat
    BY <1>2, <2>4
  <2>15. Cardinality(over(c)) <= k * Cardinality(c)
    BY <2>7, <2>10, <2>11, <2>12, <2>13, <2>14
  <2> QED BY <2>1, <2>15
<1>4. over(T) = S
  OBVIOUS
<1> HIDE DEF T, over
<1>5. Cardinality(S) <= k * Cardinality(T)
  BY <1>3, <1>4
<1> QED BY <1>1, <1>5 DEF T

(* Of the particles of one cell, the last has them all counted with it.    *)
LEMMA LastCountsAll ==
    ASSUME NEW p, Vector(p), DOMAIN p \subseteq Nat, NEW i \in DOMAIN p
    PROVE  \E m \in DOMAIN p :
              CountUpTo(p, m) = Cardinality({j \in DOMAIN p : CellOf(p[j]) = CellOf(p[i])})
<1> DEFINE D == DOMAIN p
           E == {j \in D : CellOf(p[j]) = CellOf(p[i])}
           up(m) == {j \in D : j <= m /\ CellOf(p[j]) = CellOf(p[m])}
           C == {CountUpTo(p, m) : m \in E}
<1>1. IsFiniteSet(D) /\ IsFiniteSet(E) /\ i \in E /\ E \subseteq D
  BY FS_Subset DEF Vector
<1>2. ASSUME NEW m \in E
      PROVE  /\ up(m) \subseteq E /\ m \in up(m) /\ IsFiniteSet(up(m))
             /\ CountUpTo(p, m) = Cardinality(up(m)) /\ CountUpTo(p, m) \in Nat
             /\ CountUpTo(p, m) <= Cardinality(E)
  <2>1. up(m) \subseteq E /\ m \in up(m)
    OBVIOUS
  <2>2. CountUpTo(p, m) = Cardinality(up(m))
    BY DEF CountUpTo
  <2> HIDE DEF up, E
  <2> QED BY <1>1, <2>1, <2>2, FS_Subset, FS_CardinalityType
<1>3. PICK m \in E : \A j \in E : CountUpTo(p, j) <= CountUpTo(p, m)
  <2>1. C \in SUBSET Nat /\ C # {} /\ \A c \in C : c <= Cardinality(E)
    BY <1>1, <1>2
  <2>2. Cardinality(E) \in Nat
    BY <1>1, FS_CardinalityType
  <2>3. Max(C) \in C /\ \A c \in C : c <= Max(C)
    <3> HIDE DEF C
    <3> QED BY <2>1, <2>2, MaxIsGreatest
  <2> QED BY <2>3
<1>4. up(m) = E
  <2> SUFFICES ASSUME NEW j \in E, j \notin up(m) PROVE FALSE
    BY <1>2
  <2>1. j > m /\ up(m) \cup {j} \subseteq up(j)
    OBVIOUS
  <2> HIDE DEF up, E
  <2>2. Cardinality(up(m) \cup {j}) = Cardinality(up(m)) + 1
    BY <1>2, FS_AddElement
  <2>3. Cardinality(up(m) \cup {j}) <= Cardinality(up(j))
    BY <1>2, <2>1, FS_Subset
  <2> QED BY <1>2, <1>3, <2>2, <2>3
<1> QED BY <1>2, <1>3, <1>4

(* What the comment at setEstimateLargestCluster() keeps of its promises:   *)
(* where modes are apart, the cluster is one of them, no smaller than what  *)
(* any cell holds, and no mode is larger by more than the cells it is in.   *)
THEOREM ClusterOfModes ==
    ASSUME NEW p, Vector(p), DOMAIN p \subseteq Nat PROVE OneMode(p)
<1> DEFINE D == DOMAIN p
           x(i) == p[i].x
           peak == InPeak(p)
           n == Cardinality(peak)
           X == [i \in peak |-> p[i].x]
           cx == SumFunctionOnSet(X, peak)
           R == MergeRadius
<1> SUFFICES ASSUME \A i, j \in D : Near(p, i, j) \/ Far(p, i, j)
             PROVE  LET ps == LargestClusterParticles(p) IN
                    /\ \A i \in ps : ps = {j \in D : Near(p, i, j)}
                    /\ \A m \in D : CountUpTo(p, m) <= Cardinality(ps)
                    /\ \A i \in D : Cardinality(ModeOf(p, i))
                          <= Cardinality(ps) * Cardinality(CellsOf(p, ModeOf(p, i)))
  BY Zenon DEF OneMode, ModeOf
<1>1. /\ peak # {} /\ peak \subseteq D /\ IsFiniteSet(D) /\ IsFiniteSet(peak)
      /\ \A m \in D : CountUpTo(p, m) <= n
      /\ n \in Nat \ {0}
  <2>1. peak # {} /\ peak \subseteq D /\ \A m \in D : CountUpTo(p, m) <= n
    BY PeakIsDensest
  <2>2. IsFiniteSet(D) /\ IsFiniteSet(peak)
    BY <2>1, FS_Subset DEF Vector
  <2> QED BY <2>1, <2>2, FS_CardinalityType, FS_EmptySet
<1>2. \A i \in D : x(i) \in Int
  BY DEF Vector
<1>3. R \in Nat /\ Res \in Nat \ {0} /\ Res <= 2 * R
  BY ClusterAssumption, RadiusAssumption
<1>4. ASSUME NEW i \in D, NEW j \in D
      PROVE  /\ Near(p, i, j) <=> (2 * (x(i) - x(j)) <= R /\ 2 * (x(j) - x(i)) <= R)
             /\ Near(p, i, j) \/ x(i) - x(j) > 2 * R \/ x(j) - x(i) > 2 * R
  BY <1>2, <1>3 DEF Near, Far, Abs
<1>5. Gathered(p) = {i \in D : n * x(i) - cx <= n * R /\ cx - n * x(i) <= n * R}
  <2>1. SumOver(peak, LAMBDA i : p[i].x) = cx
    BY Zenon DEF SumOver
  <2>2. Gathered(p) = {i \in D : Abs(n * x(i) - cx) <= n * R}
    <3> DEFINE c == SumOver(peak, LAMBDA i : p[i].x)
    <3>1. Gathered(p) = {i \in D : Abs(n * x(i) - c) <= n * R}
      BY Zenon DEF Gathered
    <3>2. c = cx
      BY <2>1
    <3> HIDE DEF c, cx
    <3> QED BY <3>1, <3>2
  <2>3. cx \in Int
    <3>1. \A i \in peak : X[i] \in Int
      BY <1>1, <1>2
    <3> HIDE DEF X
    <3> QED BY <1>1, <3>1, SumType
  <2>4. \A i \in D : n * x(i) - cx \in Int /\ n * R \in Int
    <3> HIDE DEF cx, n
    <3> QED BY <1>1, <1>2, <1>3, <2>3
  <2>5. \A i \in D : Abs(n * x(i) - cx) <= n * R <=>
                      n * x(i) - cx <= n * R /\ cx - n * x(i) <= n * R
    <3> SUFFICES ASSUME NEW i \in D
                 PROVE  Abs(n * x(i) - cx) <= n * R <=>
                          n * x(i) - cx <= n * R /\ cx - n * x(i) <= n * R
      OBVIOUS
    <3> DEFINE a == n * x(i)
               b == n * R
    <3>1. a \in Int /\ b \in Int
      BY <1>1, <1>2, <1>3
    <3> HIDE DEF a, b, cx
    <3>2. Abs(a - cx) <= b <=> a - cx <= b /\ cx - a <= b
      BY <2>3, <3>1 DEF Abs
    <3> QED BY <3>2 DEF a, b
  <2> HIDE DEF cx, n
  <2> QED BY <2>2, <2>5
(* The peak is within one mode,                                            *)
<1>6. ASSUME NEW i \in peak, NEW j \in peak PROVE Near(p, i, j)
  <2>1. i \in D /\ j \in D /\ CellOf(p[i]) = CellOf(p[j])
    BY <1>1 DEF InPeak
  <2>2. x(i) - x(j) < Res /\ x(j) - x(i) < Res
    BY <1>2, <2>1, CellIsNarrow
  <2> QED BY <1>2, <1>3, <1>4, <2>1, <2>2
(* so its centroid is close to all of it,                                  *)
<1>7. ASSUME NEW j \in peak
      PROVE  n * (2 * x(j) - R) <= 2 * cx /\ 2 * cx <= n * (2 * x(j) + R)
  <2>1. j \in D /\ x(j) \in Int /\ R \in Int
    BY <1>1, <1>2, <1>3
  <2>2. ASSUME NEW i \in peak
        PROVE  X[i] \in Int /\ 2 * x(j) - R <= 2 * X[i] /\ 2 * X[i] <= 2 * x(j) + R
    <3>1. i \in D /\ Near(p, i, j) /\ X[i] = x(i)
      BY <1>1, <1>6
    <3> HIDE DEF X
    <3> QED BY <1>2, <1>3, <1>4, <2>1, <3>1
  <2> HIDE DEF X, x
  <2> QED BY <1>1, <2>1, <2>2, AverageIsNear
<1>8. cx \in Int
  <2>1. \A i \in peak : X[i] \in Int
    BY <1>1, <1>2
  <2> HIDE DEF X
  <2> QED BY <1>1, <2>1, SumType
(* and what is gathered around it is the mode of any of them.              *)
<1>9. ASSUME NEW j \in peak PROVE Gathered(p) = {i \in D : Near(p, i, j)}
  <2> HIDE DEF cx, n
  <2>1. j \in D /\ x(j) \in Int
    BY <1>1, <1>2
  <2>2. ASSUME NEW i \in D
        PROVE  n * x(i) - cx <= n * R /\ cx - n * x(i) <= n * R <=> Near(p, i, j)
    <3> DEFINE a == n * x(i)
               b == n * x(j)
               r == n * R
    <3>1. a \in Int /\ b \in Int /\ r \in Nat /\ cx \in Int /\ x(i) \in Int
      BY <1>1, <1>2, <1>3, <1>8, <2>1
    <3>2. 2 * b - r <= 2 * cx /\ 2 * cx <= 2 * b + r
      <4>1. n * (2 * x(j) - R) = 2 * b - r /\ n * (2 * x(j) + R) = 2 * b + r
        BY <1>1, <1>3, <2>1
      <4> HIDE DEF a, b, r
      <4> QED BY <1>7, <3>1, <4>1
    <3>3. ASSUME Near(p, i, j) PROVE a - cx <= r /\ cx - a <= r
      <4> DEFINE d == x(i) - x(j)
      <4>1. d \in Int /\ 2 * d <= R /\ -(2 * d) <= R
        BY <1>2, <1>3, <1>4, <2>1, <3>3
      <4>2. n * d = a - b
        BY <1>1, <2>1, <3>1
      <4>3. 2 * (n * d) <= r /\ -(2 * (n * d)) <= r
        <5> HIDE DEF d
        <5>1. n * (R - 2 * d) >= 0 /\ n * (R + 2 * d) >= 0
          BY <1>1, <1>3, <4>1
        <5>2. n * (R - 2 * d) = r - 2 * (n * d) /\ n * (R + 2 * d) = r + 2 * (n * d)
          BY <1>1, <1>3, <4>1
        <5>3. n * d \in Int
          BY <1>1, <4>1
        <5> QED BY <3>1, <5>1, <5>2, <5>3
      <4> HIDE DEF a, b, r
      <4> QED BY <3>1, <3>2, <4>2, <4>3
    <3>4. ASSUME a - cx <= r, cx - a <= r PROVE Near(p, i, j)
      <4>1. 2 * (a - b) <= 3 * r /\ 2 * (b - a) <= 3 * r
        <5> HIDE DEF a, b, r
        <5> QED BY <3>1, <3>2, <3>4
      <4> DEFINE d == x(i) - x(j)
      <4>2. a - b = n * d /\ b - a = n * (-d) /\ d \in Int
        BY <1>1, <2>1, <3>1
      <4>3. d <= 2 * R /\ -d <= 2 * R
        <5> HIDE DEF d
        <5>1. 2 * (n * d) <= 3 * (n * R) /\ 2 * (n * (-d)) <= 3 * (n * R)
          BY <4>1, <4>2
        <5>2. n * (2 * d - 3 * R) = 2 * (n * d) - 3 * (n * R)
              /\ n * (2 * (-d) - 3 * R) = 2 * (n * (-d)) - 3 * (n * R)
          BY <1>1, <1>3, <4>2
        <5>3. n * d \in Int /\ n * (-d) \in Int /\ n * R \in Int
          BY <1>1, <1>3, <4>2
        <5>4. n * (2 * d - 3 * R) <= 0 /\ n * (2 * (-d) - 3 * R) <= 0
          BY <5>1, <5>2, <5>3
        <5> DEFINE e == 2 * d - 3 * R
                   f == 2 * (-d) - 3 * R
        <5>5. e \in Int /\ f \in Int
          BY <1>3, <4>2
        <5>6. e <= 0 /\ f <= 0
          <6> HIDE DEF e, f
          <6>1. n * e <= 0 /\ n * f <= 0
            BY <5>4 DEF e, f
          <6> QED BY <1>1, <5>5, <6>1
        <5> QED BY <1>3, <4>2, <5>6
      <4>4. x(i) - x(j) <= 2 * R /\ x(j) - x(i) <= 2 * R
        BY <2>1, <3>1, <4>3
      <4> QED BY <1>3, <1>4, <2>1, <3>1, <4>4
    <3> QED BY <3>3, <3>4
  <2> HIDE DEF x
  <2> QED BY <1>5, <2>2
<1>10. peak \subseteq Gathered(p) /\ Gathered(p) \subseteq D
  BY <1>1, <1>6, <1>9
<1>11. LargestClusterParticles(p) = Gathered(p)
  BY <1>1, <1>10 DEF LargestClusterParticles
<1>12. ASSUME NEW i \in Gathered(p) PROVE Gathered(p) = {k \in D : Near(p, i, k)}
  <2>1. PICK j \in peak : TRUE
    BY <1>1
  <2>2. i \in D /\ j \in D /\ Near(p, i, j)
    BY <1>1, <1>9, <1>10
  <2>3. ASSUME NEW k \in D PROVE Near(p, k, j) <=> Near(p, i, k)
    BY <1>2, <1>3, <1>4, <2>2
  <2> QED BY <1>9, <2>3
<1>13. ASSUME NEW m \in D PROVE CountUpTo(p, m) <= Cardinality(Gathered(p))
  <2>1. IsFiniteSet(Gathered(p))
    BY <1>1, <1>10, FS_Subset
  <2>2. n <= Cardinality(Gathered(p)) /\ Cardinality(Gathered(p)) \in Nat
    BY <1>10, <2>1, FS_Subset, FS_CardinalityType
  <2>3. CountUpTo(p, m) <= n /\ CountUpTo(p, m) \in Nat
    BY <1>1, FS_Subset, FS_CardinalityType DEF CountUpTo
  <2> QED BY <1>1, <2>2, <2>3
(* A mode is what its cells hold of it, none more than the cluster.        *)
<1>14. ASSUME NEW i \in D
       PROVE  Cardinality(ModeOf(p, i))
                <= Cardinality(Gathered(p)) * Cardinality(CellsOf(p, ModeOf(p, i)))
  <2> DEFINE S == ModeOf(p, i)
             f == [j \in S |-> CellOf(p[j])]
             k == Cardinality(Gathered(p))
  <2>1. S \subseteq D /\ IsFiniteSet(S)
    BY <1>1, FS_Subset DEF ModeOf
  <2>2. k \in Nat
    BY <1>1, <1>10, FS_Subset, FS_CardinalityType
  <2>3. ASSUME NEW s \in S
        PROVE  Cardinality({r \in S : f[r] = f[s]}) <= k
    <3> DEFINE E == {j \in D : CellOf(p[j]) = CellOf(p[s])}
               F == {r \in S : f[r] = f[s]}
    <3>1. s \in D /\ IsFiniteSet(E)
      BY <1>1, <2>1, FS_Subset
    <3>2. F \subseteq E
      BY <2>1
    <3>3. Cardinality(F) <= Cardinality(E) /\ Cardinality(F) \in Nat
          /\ Cardinality(E) \in Nat
      BY <3>1, <3>2, FS_Subset, FS_CardinalityType
    <3>4. Cardinality(E) <= k
      BY <1>13, <3>1, LastCountsAll
    <3> HIDE DEF E, F, k
    <3>5. Cardinality(F) <= k
      BY <2>2, <3>3, <3>4
    <3> QED BY <3>5 DEF F
  <2>4. {f[s] : s \in S} = CellsOf(p, S)
    BY DEF CellsOf
  <2> HIDE DEF S, f, k
  <2>5. Cardinality(S) <= k * Cardinality({f[s] : s \in S})
    BY <2>1, <2>2, <2>3, Pigeonholes
  <2>6. Cardinality(S) <= k * Cardinality(CellsOf(p, S))
    BY <2>4, <2>5
  <2> QED BY <2>6 DEF S, k
<1> QED BY <1>11, <1>12, <1>13, <1>14
=================================================================================
