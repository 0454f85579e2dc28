----------------------------- MODULE ParticleProofs -----------------------------
(***************************************************************************)
(* Proofs about one particle judged by one scan, for every map, pose, scan *)
(* and parameter: the likelihood field that the constructor leaves, the    *)
(* beams that penetrate it, the conflict that wallConflict() finds in      *)
(* them, and what sensorReset() does then (src/src/Particle.cpp,           *)
(* src/src/LikelihoodFieldMap.cpp).                                        *)
(*                                                                         *)
(* The inductive invariant is Typed, whose part FieldInv says of every     *)
(* round of the constructor what the property says of the last one; the    *)
(* walk needs WalkInv besides.                                             *)
(***************************************************************************)
EXTENDS Particle, OperatorLemmas, SequenceTheorems

(* The grid and the weights of LikelihoodFieldMap, as functions of the     *)
(* map: King counts the steps of a king between two cells, Reach is        *)
(* cell_num, Weight is weights[i], and UpTo the cells the constructor has  *)
(* gone over after n rounds.                                               *)
Longer(a, b) == IF a < b THEN b ELSE a
X(m, k) == k % m.width
Y(m, k) == k \div m.width
King(m, k, l) == Longer(Distance(X(m, k), X(m, l)), Distance(Y(m, k), Y(m, l)))
Reach(m) == Longer(1, (m.range + Resolution - 1) \div Resolution)
Weight(m, i) == (255 * (Reach(m) - i)) \div Reach(m)
UpTo(m, n) == {k \in DOMAIN m.data : X(m, k) * m.height + Y(m, k) < n}
Walls(m, n) == {k \in UpTo(m, n) : Occupied(m.data[k])}

(* The least reach is one cell.                                            *)
LEMMA MaxOfTwo == \A a, b \in Nat : Max({a, b}) = Longer(a, b)
<1> SUFFICES ASSUME NEW a \in Nat, NEW b \in Nat PROVE Max({a, b}) = Longer(a, b)
  OBVIOUS
<1>1. {a, b} \in SUBSET Nat /\ {a, b} # {} /\ \A x \in {a, b} : x <= Longer(a, b)
  BY DEF Longer
<1>2. Longer(a, b) \in Nat
  BY DEF Longer
<1>3. Max({a, b}) \in {a, b} /\ \A y \in {a, b} : y <= Max({a, b})
  BY <1>1, <1>2, MaxIsGreatest
<1> DEFINE z == Max({a, b})
<1>4. z \in {a, b} /\ a <= z /\ b <= z
  BY <1>3
<1> HIDE DEF z
<1>5. z = Longer(a, b)
  BY <1>4 DEF Longer
<1> QED BY <1>5 DEF z

(* The sizes of a map.                                                     *)
LEMMA MapFacts ==
    ASSUME NEW m \in Maps
    PROVE  /\ m.width \in Nat \ {0} /\ m.height \in Nat \ {0} /\ m.range \in Nat
           /\ m.width * m.height \in Nat
           /\ DOMAIN m.data = 0 .. m.width * m.height - 1
           /\ \A k \in DOMAIN m.data : m.data[k] \in -1 .. 100
<1> DEFINE w == m.width
           h == m.height
           d == m.data
<1>1. w \in Nat \ {0} /\ h \in Nat \ {0} /\ m.range \in Nat
      /\ d \in [0 .. w * h - 1 -> -1 .. 100]
  BY MapsAssumption
<1> HIDE DEF w, h, d
<1>2. w * h \in Nat
  BY <1>1
<1>3. DOMAIN d = 0 .. w * h - 1 /\ \A k \in DOMAIN d : d[k] \in -1 .. 100
  BY <1>1
<1> QED BY <1>1, <1>2, <1>3 DEF w, h, d

(* The operators of the model are those of the map that is loaded.         *)
LEMMA FieldOf ==
    ASSUME map \in Maps
    PROVE  /\ Cells = DOMAIN map.data
           /\ \A k : CellX(k) = X(map, k) /\ CellY(k) = Y(map, k)
           /\ CellNum = Reach(map)
           /\ \A i : WeightAt(i) = Weight(map, i)
           /\ GoneOver = UpTo(map, visited)
<1>1. CellNum = Reach(map)
  <2> DEFINE e == (map.range + Resolution - 1) \div Resolution
  <2>1. e \in Nat
    <3>1. map.range \in Nat /\ Resolution \in Nat \ {0}
      BY MapFacts, ResolutionAssumption
    <3>2. map.range + Resolution - 1 \in Nat
      BY <3>1
    <3> QED BY <3>1, <3>2
  <2> HIDE DEF e
  <2>2. Max({1, e}) = Longer(1, e)
    BY <2>1, MaxOfTwo
  <2> QED BY <2>2 DEF e, CellNum, Reach
<1>2. \A i : WeightAt(i) = Weight(map, i)
  BY <1>1, Zenon DEF WeightAt, Weight
<1> QED BY <1>1, <1>2 DEF Cells, CellX, CellY, X, Y, GoneOver, UpTo

(* A cell is its column and its row, and no two cells share both.          *)
LEMMA GridOf ==
    ASSUME NEW m \in Maps
    PROVE  /\ \A k \in DOMAIN m.data :
                /\ X(m, k) \in 0 .. m.width - 1 /\ Y(m, k) \in 0 .. m.height - 1
                /\ k \in Nat /\ k = X(m, k) + Y(m, k) * m.width
           /\ \A x \in 0 .. m.width - 1, y \in 0 .. m.height - 1 :
                /\ x + y * m.width \in DOMAIN m.data
                /\ X(m, x + y * m.width) = x /\ Y(m, x + y * m.width) = y
<1> DEFINE w == m.width
           h == m.height
<1>1. w \in Nat \ {0} /\ h \in Nat \ {0} /\ w * h \in Nat /\ DOMAIN m.data = 0 .. w * h - 1
  BY MapFacts
<1> HIDE DEF w, h
<1>2. ASSUME NEW k \in DOMAIN m.data
      PROVE  /\ X(m, k) \in 0 .. w - 1 /\ Y(m, k) \in 0 .. h - 1
             /\ k \in Nat /\ k = X(m, k) + Y(m, k) * w
  <2> DEFINE r == k % w
             q == k \div w
  <2>1. k \in Nat /\ k < w * h
    BY <1>1
  <2>2. r \in 0 .. w - 1 /\ q \in Nat /\ k = r + q * w
    <3>1. r \in 0 .. w - 1 /\ q \in Nat /\ k = q * w + r
      BY <1>1, <2>1, DivisionOfNat
    <3> HIDE DEF r, q
    <3> QED BY <1>1, <3>1
  <2>3. X(m, k) = r /\ Y(m, k) = q
    BY DEF X, Y, w
  <2> HIDE DEF r, q
  <2>4. q < h
    <3> SUFFICES ASSUME h <= q PROVE FALSE
      BY <1>1, <2>2
    <3>1. h * w <= q * w
      BY <1>1, <2>2, TimesIsMonotone
    <3> QED BY <1>1, <2>1, <2>2, <3>1
  <2> QED BY <1>1, <2>1, <2>2, <2>3, <2>4
<1>3. ASSUME NEW x \in 0 .. w - 1, NEW y \in 0 .. h - 1
      PROVE  /\ x + y * w \in DOMAIN m.data
             /\ X(m, x + y * w) = x /\ Y(m, x + y * w) = y
  <2>1. x \in Nat /\ y \in Nat /\ x < w /\ y <= h - 1 /\ w \in Nat /\ h - 1 \in Nat
    BY <1>1
  <2>2. y * w <= (h - 1) * w
    BY <2>1, TimesIsMonotone
  <2>3. x + y * w \in 0 .. w * h - 1
    BY <1>1, <2>1, <2>2
  <2>4. (y * w + x) % w = x /\ (y * w + x) \div w = y
    BY <1>1, <2>1, DivisionIsUnique
  <2>5. y * w + x = x + y * w
    BY <2>1
  <2> QED BY <1>1, <2>3, <2>4, <2>5 DEF X, Y, w
<1> QED BY <1>2, <1>3 DEF w, h

(* King is a distance between cells, and a cell is nowhere but at itself.  *)
LEMMA KingOf ==
    ASSUME NEW m \in Maps, NEW k \in DOMAIN m.data, NEW l \in DOMAIN m.data
    PROVE  /\ King(m, k, l) \in Nat
           /\ King(m, k, l) = 0 <=> k = l
           /\ \A n \in Nat : King(m, k, l) <= n <=>
                 /\ Distance(X(m, k), X(m, l)) <= n
                 /\ Distance(Y(m, k), Y(m, l)) <= n
<1>1. /\ X(m, k) \in Nat /\ X(m, l) \in Nat /\ Y(m, k) \in Nat /\ Y(m, l) \in Nat
      /\ k = X(m, k) + Y(m, k) * m.width /\ l = X(m, l) + Y(m, l) * m.width
  BY GridOf
<1>2. King(m, k, l) = 0 <=> X(m, k) = X(m, l) /\ Y(m, k) = Y(m, l)
  BY <1>1 DEF King, Longer, Distance
<1>3. King(m, k, l) = 0 <=> k = l
  BY <1>1, <1>2, Zenon
<1> QED BY <1>1, <1>3 DEF King, Longer, Distance

(* King is the distance that the property measures.                        *)
LEMMA KingIsKingSteps ==
    ASSUME map \in Maps, NEW k \in Cells, NEW l \in Cells
    PROVE  KingSteps(k, l) = King(map, k, l)
<1> DEFINE a == Distance(X(map, k), X(map, l))
           b == Distance(Y(map, k), Y(map, l))
<1>1. Cells = DOMAIN map.data
  BY FieldOf
<1>2. a \in Nat /\ b \in Nat
  BY <1>1, GridOf DEF Distance
<1>3. KingSteps(k, l) = Max({a, b})
  <2>1. CellX(k) = X(map, k) /\ CellX(l) = X(map, l)
        /\ CellY(k) = Y(map, k) /\ CellY(l) = Y(map, l)
    BY DEF CellX, CellY, X, Y
  <2> QED BY <2>1, Zenon DEF KingSteps
<1> HIDE DEF a, b
<1>4. Max({a, b}) = Longer(a, b)
  BY <1>2, MaxOfTwo
<1> QED BY <1>3, <1>4 DEF King, a, b

(* The weights fall from 255 on the wall, and nowhere else, to 0 at the    *)
(* reach; if the reach fits a byte, not before it.                         *)
LEMMA WeightsFall ==
    ASSUME NEW m \in Maps
    PROVE  /\ Reach(m) \in Nat \ {0}
           /\ \A i \in 0 .. Reach(m) : Weight(m, i) \in 0 .. 255
           /\ \A i, j \in 0 .. Reach(m) : i <= j => Weight(m, j) <= Weight(m, i)
           /\ Weight(m, 0) = 255 /\ Weight(m, Reach(m)) = 0
           /\ \A i \in 1 .. Reach(m) : Weight(m, i) < 255
           /\ Reach(m) <= 255 => \A i \in 0 .. Reach(m) - 1 : Weight(m, i) > 0
<1> DEFINE c == Reach(m)
           e == (m.range + Resolution - 1) \div Resolution
<1>1. c \in Nat \ {0}
  <2>1. m.range \in Nat /\ Resolution \in Nat \ {0}
    BY MapFacts, ResolutionAssumption
  <2>2. m.range + Resolution - 1 \in Nat
    BY <2>1
  <2>3. e \in Nat
    BY <2>1, <2>2
  <2>4. c = Longer(1, e)
    BY DEF Reach
  <2> HIDE DEF e, c
  <2> QED BY <2>3, <2>4 DEF Longer
<1>2. \A i : Weight(m, i) = (255 * (c - i)) \div c
  BY DEF Weight
<1> HIDE DEF c
<1> DEFINE q(i) == (255 * (c - i)) \div c
<1>3. \A i \in 0 .. c :
        /\ q(i) \in Nat /\ q(i) * c <= 255 * (c - i) /\ 255 * (c - i) < (q(i) + 1) * c
  <2> TAKE i \in 0 .. c
  <2> DEFINE z == 255 * (c - i)
             p == z \div c
             r == z % c
  <2>1. z \in Nat
    BY <1>1
  <2>2. p \in Nat /\ r \in 0 .. c - 1 /\ z = p * c + r
    BY <1>1, <2>1
  <2> HIDE DEF z, p, r
  <2>3. p \in Nat /\ p * c <= z /\ z < (p + 1) * c
    BY <1>1, <2>1, <2>2
  <2> QED BY <2>3 DEF z, p
<1> HIDE DEF q
<1>4. \A i \in 0 .. c, a \in Nat : a * c <= 255 * (c - i) => a <= q(i)
  <2> TAKE i \in 0 .. c, a \in Nat
  <2> HAVE a * c <= 255 * (c - i)
  <2>1. q(i) \in Nat /\ 255 * (c - i) < (q(i) + 1) * c
    BY <1>3
  <2> SUFFICES ASSUME q(i) + 1 <= a PROVE FALSE
    BY <2>1
  <2>2. (q(i) + 1) * c <= a * c
    BY <1>1, <2>1, TimesIsMonotone
  <2>3. (q(i) + 1) * c \in Int /\ a * c \in Int /\ 255 * (c - i) \in Int
    BY <1>1, <2>1
  <2> QED BY <2>1, <2>2, <2>3
<1>5. \A i \in 0 .. c, a \in Nat : 255 * (c - i) <= a * c => q(i) <= a
  <2> TAKE i \in 0 .. c, a \in Nat
  <2> HAVE 255 * (c - i) <= a * c
  <2>1. q(i) \in Nat /\ q(i) * c <= 255 * (c - i)
    BY <1>3
  <2>2. q(i) * c <= a * c
    <3>1. q(i) * c \in Int /\ a * c \in Int /\ 255 * (c - i) \in Int
      BY <1>1, <2>1
    <3> QED BY <2>1, <3>1
  <2> QED BY <1>1, <2>1, <2>2, TimesCancels
<1>6. \A i \in 0 .. c : q(i) \in 0 .. 255
  <2> TAKE i \in 0 .. c
  <2>1. 255 * (c - i) <= 255 * c
    BY <1>1
  <2> QED BY <1>3, <1>5, <2>1
<1>7. \A i, j \in 0 .. c : i <= j => q(j) <= q(i)
  <2> TAKE i, j \in 0 .. c
  <2> HAVE i <= j
  <2>1. q(j) \in Nat /\ q(j) * c <= 255 * (c - j)
    BY <1>3
  <2>2. q(j) * c <= 255 * (c - i)
    <3>1. q(j) * c \in Int
      BY <1>1, <2>1
    <3> QED BY <1>1, <2>1, <3>1
  <2> QED BY <1>4, <2>1, <2>2
<1>8. q(0) = 255
  <2>1. 0 \in 0 .. c /\ 255 * c <= 255 * (c - 0)
    BY <1>1
  <2>2. 255 <= q(0)
    BY <1>4, <2>1
  <2> QED BY <1>6, <2>1, <2>2
<1>9. q(c) = 0
  <2>1. c \in 0 .. c /\ 255 * (c - c) <= 0 * c
    BY <1>1
  <2>2. q(c) <= 0
    BY <1>5, <2>1
  <2> QED BY <1>3, <2>1, <2>2
<1>10. \A i \in 1 .. c : q(i) < 255
  <2> TAKE i \in 1 .. c
  <2>1. i \in 0 .. c
    BY <1>1
  <2>2. q(i) \in Nat /\ q(i) * c <= 255 * (c - i) /\ q(i) <= 255
    BY <1>3, <1>6, <2>1
  <2> SUFFICES ASSUME q(i) = 255 PROVE FALSE
    BY <2>2
  <2>3. 255 * c <= 255 * (c - i)
    BY <2>2
  <2> QED BY <1>1, <2>3
<1>11. ASSUME c <= 255, NEW i \in 0 .. c - 1 PROVE q(i) > 0
  <2>1. i \in 0 .. c /\ 1 * c <= 255 * (c - i)
    BY <1>1, <1>11
  <2>2. 1 <= q(i)
    BY <1>4, <2>1
  <2> QED BY <1>3, <2>1, <2>2
<1>12. \A i : Weight(m, i) = q(i)
  BY <1>2 DEF q
<1> QED BY <1>1, <1>6, <1>7, <1>8, <1>9, <1>10, <1>11, <1>12 DEF c

-----------------------------------------------------------------------------
(* v is the weight of the distance from k to the nearest of the walls S.   *)
Nearest(m, k, v, S) ==
    /\ v \in 0 .. 255
    /\ \A l \in S : King(m, k, l) <= Reach(m) => Weight(m, King(m, k, l)) <= v
    /\ v # 0 => \E l \in S : King(m, k, l) <= Reach(m) /\ v = Weight(m, King(m, k, l))

(* Only one value is.                                                      *)
LEMMA NearestIsOne ==
    ASSUME NEW m \in Maps, NEW k \in DOMAIN m.data, NEW S \in SUBSET DOMAIN m.data,
           NEW u, NEW v, Nearest(m, k, u, S), Nearest(m, k, v, S)
    PROVE  u = v
<1>1. ASSUME NEW a, NEW b, Nearest(m, k, a, S), Nearest(m, k, b, S) PROVE a <= b
  <2>1. a \in 0 .. 255 /\ b \in 0 .. 255
    BY <1>1 DEF Nearest
  <2>2. CASE a = 0
    BY <2>1, <2>2
  <2>3. CASE a # 0
    <3>1. PICK l \in S : King(m, k, l) <= Reach(m) /\ a = Weight(m, King(m, k, l))
      BY <1>1, <2>3 DEF Nearest
    <3> QED BY <1>1, <3>1 DEF Nearest
  <2> QED BY <2>2, <2>3
<1>2. u \in 0 .. 255 /\ v \in 0 .. 255
  BY DEF Nearest
<1> QED BY <1>1, <1>2

(* The value that the property asks for is that one.                       *)
LEMMA NearestWallIsNearest ==
    ASSUME map \in Maps, NEW k \in Cells
    PROVE  Nearest(map, k, NearestWall(k), Walls(map, visited))
<1> DEFINE S == Walls(map, visited)
           steps == {KingSteps(k, l) : l \in {w \in GoneOver : Occupied(map.data[w])}}
<1>1. S = {w \in GoneOver : Occupied(map.data[w])} /\ S \subseteq Cells
      /\ Cells = DOMAIN map.data
  BY FieldOf DEF Walls, UpTo
<1>2. \A l \in S : KingSteps(k, l) = King(map, k, l) /\ King(map, k, l) \in Nat
  BY <1>1, KingIsKingSteps, KingOf
<1>3. steps = {King(map, k, l) : l \in S}
  BY <1>1, <1>2
<1>4. NearestWall(k) = IF steps = {} \/ Min(steps) > Reach(map) THEN 0
                       ELSE Weight(map, Min(steps))
  BY FieldOf, Zenon DEF NearestWall
<1>5. steps \in SUBSET Nat
  BY <1>2, <1>3
<1>6. Reach(map) \in Nat \ {0}
      /\ (\A i \in 0 .. Reach(map) : Weight(map, i) \in 0 .. 255)
      /\ (\A i, j \in 0 .. Reach(map) : i <= j => Weight(map, j) <= Weight(map, i))
  BY WeightsFall
<1> HIDE DEF S, steps
<1>7. CASE steps = {}
  <2>1. S = {}
    BY <1>3, <1>7
  <2> QED BY <1>4, <1>7, <2>1 DEF Nearest, S
<1>8. CASE steps # {}
  <2> DEFINE z == Min(steps)
  <2>1. z \in steps /\ \A y \in steps : z <= y
    BY <1>5, <1>8, MinIsLeast
  <2>2. z \in Nat /\ \A l \in S : z <= King(map, k, l)
    BY <1>3, <1>5, <2>1
  <2>3. PICK near \in S : z = King(map, k, near)
    BY <1>3, <2>1
  <2>4. NearestWall(k) = IF z > Reach(map) THEN 0 ELSE Weight(map, z)
    BY <1>4, <1>8
  <2> HIDE DEF z
  <2>5. CASE z > Reach(map)
    <3>1. \A l \in S : ~(King(map, k, l) <= Reach(map))
      BY <1>2, <1>6, <2>2, <2>5
    <3> QED BY <2>4, <2>5, <3>1 DEF Nearest, S
  <2>6. CASE ~(z > Reach(map))
    <3>1. z \in 0 .. Reach(map)
      BY <1>6, <2>2, <2>6
    <3>2. \A l \in S : King(map, k, l) <= Reach(map) =>
             Weight(map, King(map, k, l)) <= Weight(map, z)
      <4> TAKE l \in S
      <4> HAVE King(map, k, l) <= Reach(map)
      <4>1. King(map, k, l) \in 0 .. Reach(map)
        BY <1>2, <1>6
      <4> QED BY <1>6, <2>2, <3>1, <4>1
    <3>3. Weight(map, z) \in 0 .. 255 /\ King(map, k, near) <= Reach(map)
      BY <1>6, <2>3, <3>1
    <3> QED BY <2>3, <2>4, <2>6, <3>2, <3>3 DEF Nearest, S
  <2> QED BY <2>5, <2>6
<1> QED BY <1>7, <1>8

(* What setLikelihood(x, y) does to the cell k.                            *)
LEMMA SetLikelihoodOf ==
    ASSUME map \in Maps, likelihoods \in [DOMAIN map.data -> 0 .. 255],
           NEW c \in DOMAIN map.data, NEW k \in DOMAIN map.data
    PROVE  SetLikelihood(X(map, c), Y(map, c))[k]
             = IF King(map, k, c) <= Reach(map)
               THEN Longer(likelihoods[k], Weight(map, King(map, k, c)))
               ELSE likelihoods[k]
<1> DEFINE x == X(map, c)
           y == Y(map, c)
           w == map.width
           h == map.height
           n == Reach(map)
           a == X(map, k) - x
           b == Y(map, k) - y
           T == {p \in Touched(x, y) : Flat(x + p[1], y + p[2]) = k}
           val(o) == Smaller(WeightAt(Distance(o[1], 0)), WeightAt(Distance(o[2], 0)))
           V == {val(o) : o \in T}
           d == King(map, k, c)
<1>1. SetLikelihood(x, y)[k] = Max({likelihoods[k]} \cup V)
  <2>1. k \in Cells
    BY FieldOf
  <2> QED BY <2>1, Zenon DEF SetLikelihood
<1>2. /\ x \in 0 .. w - 1 /\ y \in 0 .. h - 1
      /\ X(map, k) \in 0 .. w - 1 /\ Y(map, k) \in 0 .. h - 1
      /\ k = X(map, k) + Y(map, k) * w /\ w \in Nat /\ h \in Nat
  BY GridOf, MapFacts
<1>3. n \in Nat \ {0} /\ CellNum = n
  BY FieldOf, WeightsFall
<1>4. \A o : o \in Touched(x, y) <=>
        /\ o \in (-n .. n) \X (-n .. n)
        /\ 0 <= x + o[1] /\ x + o[1] < w /\ 0 <= y + o[2] /\ y + o[2] < h
  BY <1>3 DEF Touched, Square
<1>5. \A o \in T : o = <<a, b>>
  <2> TAKE o \in T
  <2>1. o \in Touched(x, y) /\ Flat(x + o[1], y + o[2]) = k
    OBVIOUS
  <2>2. o = <<o[1], o[2]>> /\ o[1] \in Int /\ o[2] \in Int
        /\ x + o[1] \in 0 .. w - 1 /\ y + o[2] \in 0 .. h - 1
    BY <1>2, <1>3, <1>4, <2>1
  <2>3. k = (x + o[1]) + (y + o[2]) * w
    BY <2>1 DEF Flat
  <2>4. X(map, k) = x + o[1] /\ Y(map, k) = y + o[2]
    <3> DEFINE e == x + o[1]
               f == y + o[2]
    <3>1. e \in 0 .. w - 1 /\ f \in 0 .. h - 1 /\ k = e + f * w
      BY <2>2, <2>3
    <3> HIDE DEF e, f
    <3>2. X(map, e + f * w) = e /\ Y(map, e + f * w) = f
      BY <3>1, GridOf
    <3>3. X(map, k) = e /\ Y(map, k) = f
      BY <3>1, <3>2
    <3> QED BY <3>3 DEF e, f
  <2>5. o[1] = a /\ o[2] = b
    <3> HIDE DEF T
    <3> QED BY <1>2, <2>2, <2>4
  <2> QED BY <2>2, <2>5
<1>6. d \in Nat /\ (d <= n <=> a \in -n .. n /\ b \in -n .. n)
  <2>1. d \in Nat
    BY KingOf
  <2>2. d <= n <=> Distance(X(map, k), x) <= n /\ Distance(Y(map, k), y) <= n
    BY <1>3, KingOf
  <2> QED BY <1>2, <1>3, <2>1, <2>2 DEF Distance
<1>7. <<a, b>> \in T <=> d <= n
  <2>1. <<a, b>> \in Touched(x, y) <=> a \in -n .. n /\ b \in -n .. n
    BY <1>2, <1>3, <1>4
  <2>2. Flat(x + a, y + b) = k
    <3>1. x + a = X(map, k) /\ y + b = Y(map, k)
      BY <1>2
    <3> QED BY <1>2, <3>1 DEF Flat
  <2> QED BY <1>6, <2>1, <2>2
<1>8. ASSUME d <= n PROVE val(<<a, b>>) = Weight(map, d)
  <2> DEFINE e == Distance(a, 0)
             f == Distance(b, 0)
  <2>1. e \in Nat /\ f \in Nat /\ d = Longer(e, f)
    BY <1>2 DEF Distance, King
  <2>2. e \in 0 .. n /\ f \in 0 .. n
    BY <1>3, <1>8, <2>1 DEF Longer
  <2>3. val(<<a, b>>) = Smaller(Weight(map, e), Weight(map, f))
    BY FieldOf
  <2> HIDE DEF e, f, d, val, n
  <2>4. /\ e <= f => Weight(map, f) <= Weight(map, e)
        /\ f <= e => Weight(map, e) <= Weight(map, f)
        /\ Weight(map, e) \in 0 .. 255 /\ Weight(map, f) \in 0 .. 255
    BY <2>2, WeightsFall DEF n
  <2> DEFINE u == Weight(map, e)
             v == Weight(map, f)
  <2>5. /\ u \in 0 .. 255 /\ v \in 0 .. 255
        /\ e <= f => v <= u
        /\ f <= e => u <= v
    BY <2>4
  <2>6. d = e => Weight(map, d) = u
    OBVIOUS
  <2>7. d = f => Weight(map, d) = v
    OBVIOUS
  <2>8. val(<<a, b>>) = Smaller(u, v)
    BY <2>3
  <2> HIDE DEF u, v
  <2>9. Smaller(u, v) = IF e <= f THEN v ELSE u
    BY <2>1, <2>5 DEF Smaller
  <2> QED BY <2>1, <2>6, <2>7, <2>8, <2>9 DEF Longer
<1>9. likelihoods[k] \in Nat /\ \A i \in 0 .. n : Weight(map, i) \in Nat
  BY WeightsFall
<1> HIDE DEF d, n, T, a, b, val
<1>10. CASE d <= n
  <2>1. T = {<<a, b>>}
    BY <1>5, <1>7, <1>10
  <2>2. V = {Weight(map, d)}
    BY <1>8, <1>10, <2>1
  <2>3. {likelihoods[k]} \cup V = {likelihoods[k], Weight(map, d)} /\ Weight(map, d) \in Nat
    BY <1>3, <1>6, <1>9, <1>10, <2>2
  <2> HIDE DEF V
  <2>4. Max({likelihoods[k]} \cup V) = Longer(likelihoods[k], Weight(map, d))
    BY <1>9, <2>3, MaxOfTwo
  <2> QED BY <1>1, <1>10, <2>4 DEF d, n
<1>11. CASE ~(d <= n)
  <2>1. T = {}
    BY <1>5, <1>7, <1>11
  <2>2. {likelihoods[k]} \cup V = {likelihoods[k], likelihoods[k]}
    BY <2>1
  <2> HIDE DEF V
  <2>3. Max({likelihoods[k]} \cup V) = Longer(likelihoods[k], likelihoods[k])
    BY <1>9, <2>2, MaxOfTwo
  <2> QED BY <1>1, <1>11, <2>3 DEF d, n, Longer
<1> QED BY <1>10, <1>11

-----------------------------------------------------------------------------
(* The field while it is built: after every round it is right for the      *)
(* walls that the loops have come to, and free_cells_ lists the free cells *)
(* they have come to.                                                      *)
Listed(m, n) == {<<X(m, k), Y(m, k)>> : k \in {l \in UpTo(m, n) : Free(m.data[l])}}

FieldInv ==
    /\ map \in Maps
    /\ visited \in 0 .. map.width * map.height
    /\ likelihoods \in [DOMAIN map.data -> 0 .. 255]
    /\ \A k \in DOMAIN map.data : Nearest(map, k, likelihoods[k], Walls(map, visited))
    /\ free_cells = Listed(map, visited)

(* It is so before the first round.                                        *)
LEMMA FieldInvInit == FieldInit => FieldInv
<1> SUFFICES ASSUME FieldInit PROVE FieldInv
  OBVIOUS
<1>1. map \in Maps /\ visited = 0 /\ likelihoods = [k \in DOMAIN map.data |-> 0]
      /\ free_cells = {}
  BY DEF FieldInit, Cells
<1>2. map.height \in Nat /\ map.width * map.height \in Nat
      /\ \A k \in DOMAIN map.data : X(map, k) \in Nat /\ Y(map, k) \in Nat
  BY <1>1, MapFacts, GridOf
<1>3. UpTo(map, 0) = {}
  <2> SUFFICES ASSUME NEW k \in DOMAIN map.data, X(map, k) * map.height + Y(map, k) < 0
               PROVE  FALSE
    BY DEF UpTo
  <2> DEFINE x == X(map, k)
             y == Y(map, k)
             h == map.height
  <2>1. x \in Nat /\ y \in Nat /\ h \in Nat /\ x * h + y < 0
    BY <1>2
  <2> HIDE DEF x, y, h
  <2>2. x * h \in Nat
    BY <2>1
  <2> QED BY <2>1, <2>2
<1>4. Walls(map, visited) = {} /\ Listed(map, visited) = {}
  BY <1>1, <1>3 DEF Walls, Listed
<1>5. \A k \in DOMAIN map.data : Nearest(map, k, likelihoods[k], Walls(map, visited))
  BY <1>1, <1>4 DEF Nearest
<1> QED BY <1>1, <1>2, <1>4, <1>5 DEF FieldInv

(* One round goes over one more cell.                                      *)
LEMMA OneMoreCell ==
    ASSUME NEW m \in Maps, NEW n \in Nat, n < m.width * m.height
    PROVE  /\ n \div m.height \in 0 .. m.width - 1 /\ n % m.height \in 0 .. m.height - 1
           /\ (n \div m.height) + (n % m.height) * m.width \in DOMAIN m.data
           /\ X(m, (n \div m.height) + (n % m.height) * m.width) = n \div m.height
           /\ Y(m, (n \div m.height) + (n % m.height) * m.width) = n % m.height
           /\ UpTo(m, n + 1)
                = UpTo(m, n) \cup {(n \div m.height) + (n % m.height) * m.width}
<1> DEFINE w == m.width
           h == m.height
           x == n \div h
           y == n % h
           c == x + y * w
<1>1. w \in Nat \ {0} /\ h \in Nat \ {0} /\ n < w * h
  BY MapFacts
<1>2. y \in 0 .. h - 1 /\ x \in Nat /\ n = x * h + y
  <2> HIDE DEF w, h
  <2> QED BY <1>1, DivisionOfNat
<1>3. x \in 0 .. w - 1
  <2> HIDE DEF w, h, x, y
  <2> SUFFICES ASSUME w <= x PROVE FALSE
    BY <1>1, <1>2
  <2>1. w * h <= x * h
    BY <1>1, <1>2, TimesIsMonotone
  <2>2. w * h \in Nat /\ x * h \in Nat
    BY <1>1, <1>2
  <2> QED BY <1>1, <1>2, <2>1, <2>2
<1>4. c \in DOMAIN m.data /\ X(m, c) = x /\ Y(m, c) = y
  <2> HIDE DEF x, y
  <2> QED BY <1>2, <1>3, GridOf
<1>5. \A k \in DOMAIN m.data : X(m, k) * h + Y(m, k) = n => k = c
  <2> TAKE k \in DOMAIN m.data
  <2> HAVE X(m, k) * h + Y(m, k) = n
  <2> DEFINE a == X(m, k)
             b == Y(m, k)
  <2>1. a \in Nat /\ b \in Nat /\ b < h /\ k = a + b * w
    BY <1>1, GridOf
  <2>2. a * h + b = n
    OBVIOUS
  <2> HIDE DEF a, b, h
  <2>3. (a * h + b) % h = b /\ (a * h + b) \div h = a
    BY <1>1, <2>1, DivisionIsUnique
  <2>4. b = y /\ a = x
    BY <2>2, <2>3
  <2> QED BY <2>1, <2>4
<1>6. \A k \in DOMAIN m.data : k \in UpTo(m, n + 1) <=> k \in UpTo(m, n) \/ k = c
  <2> TAKE k \in DOMAIN m.data
  <2> DEFINE z == X(m, k) * h + Y(m, k)
  <2>1. z \in Int
    <3> DEFINE a == X(m, k)
               b == Y(m, k)
    <3>1. a \in Nat /\ b \in Nat
      BY GridOf
    <3> HIDE DEF a, b, h
    <3>2. a * h + b \in Int
      BY <1>1, <3>1
    <3> QED BY <3>2 DEF a, b
  <2>2. z = n => k = c
    BY <1>5
  <2>3. k = c => z = n
    BY <1>2, <1>4
  <2>4. (k \in UpTo(m, n) <=> z < n) /\ (k \in UpTo(m, n + 1) <=> z < n + 1)
    BY DEF UpTo
  <2> HIDE DEF z, c
  <2> QED BY <2>1, <2>2, <2>3, <2>4
<1>7. UpTo(m, n + 1) = UpTo(m, n) \cup {c}
  <2>1. UpTo(m, n + 1) \subseteq DOMAIN m.data /\ UpTo(m, n) \subseteq DOMAIN m.data
    BY DEF UpTo
  <2> HIDE DEF c
  <2> QED BY <1>4, <1>6, <2>1
<1> QED BY <1>2, <1>3, <1>4, <1>7

(* A new wall leaves the greater of the two weights.                       *)
LEMMA NearestOfMore ==
    ASSUME NEW m \in Maps, NEW k \in DOMAIN m.data, NEW S \in SUBSET DOMAIN m.data,
           NEW c \in DOMAIN m.data, NEW v, Nearest(m, k, v, S)
    PROVE  Nearest(m, k, IF King(m, k, c) <= Reach(m)
                         THEN Longer(v, Weight(m, King(m, k, c))) ELSE v, S \cup {c})
<1> DEFINE d == King(m, k, c)
           u == Weight(m, d)
           r == Reach(m)
<1>1. v \in 0 .. 255
  BY DEF Nearest
<1>2. CASE ~(d <= r)
  BY <1>2 DEF Nearest
<1>3. CASE d <= r
  <2>1. d \in 0 .. r
    BY <1>3, KingOf, WeightsFall
  <2>2. u \in 0 .. 255 /\ \A i \in 0 .. r : Weight(m, i) \in 0 .. 255
    BY <2>1, WeightsFall
  <2> DEFINE z == Longer(v, u)
  <2>3. z \in 0 .. 255 /\ v <= z /\ u <= z /\ (z = v \/ z = u)
    <3> HIDE DEF u
    <3> QED BY <1>1, <2>2 DEF Longer
  <2>4. \A l \in S \cup {c} : King(m, k, l) <= r => Weight(m, King(m, k, l)) <= z
    <3> TAKE l \in S \cup {c}
    <3> HAVE King(m, k, l) <= r
    <3>1. CASE l = c
      BY <2>3, <3>1
    <3>2. CASE l \in S
      <4>1. Weight(m, King(m, k, l)) <= v
        BY <3>2 DEF Nearest
      <4>2. King(m, k, l) \in 0 .. r
        BY <3>2, KingOf, WeightsFall
      <4>3. Weight(m, King(m, k, l)) \in 0 .. 255
        BY <2>2, <4>2
      <4> HIDE DEF z
      <4> QED BY <1>1, <2>3, <4>1, <4>3
    <3> QED BY <3>1, <3>2
  <2>5. z # 0 => \E l \in S \cup {c} : King(m, k, l) <= r /\ z = Weight(m, King(m, k, l))
    <3>1. CASE z = u
      BY <1>3, <3>1
    <3>2. CASE z = v
      BY <3>2 DEF Nearest
    <3> QED BY <2>3, <3>1, <3>2
  <2> HIDE DEF z
  <2>6. Nearest(m, k, z, S \cup {c})
    BY <2>3, <2>4, <2>5 DEF Nearest
  <2> QED BY <1>3, <2>6 DEF z
<1> QED BY <1>2, <1>3

(* Every round keeps it so.                                                *)
LEMMA FieldInvVisit == FieldInv /\ Visit => FieldInv'
<1> SUFFICES ASSUME FieldInv, Visit PROVE FieldInv'
  OBVIOUS
<1> DEFINE w == map.width
           h == map.height
           n == visited
           x == n \div h
           y == n % h
           c == x + y * w
           L == likelihoods
           S == Walls(map, n)
<1>1. map \in Maps /\ map' = map /\ n \in 0 .. w * h /\ n < w * h /\ visited' = n + 1
      /\ likelihoods \in [DOMAIN map.data -> 0 .. 255] /\ w * h \in Nat /\ n \in Nat
  BY MapFacts DEF FieldInv, Visit
<1>2. /\ x \in 0 .. w - 1 /\ y \in 0 .. h - 1 /\ c \in DOMAIN map.data
      /\ X(map, c) = x /\ Y(map, c) = y
      /\ UpTo(map, n + 1) = UpTo(map, n) \cup {c}
  BY <1>1, OneMoreCell
<1>3. Flat(x, y) = c
  BY DEF Flat
<1>4. likelihoods' = IF Occupied(map.data[c]) THEN SetLikelihood(x, y) ELSE likelihoods
  BY <1>3 DEF Visit
<1>5. free_cells' = IF Free(map.data[c]) THEN free_cells \cup {<<x, y>>} ELSE free_cells
  BY <1>3 DEF Visit
<1> HIDE DEF w, h, x, y, c
<1>6. visited' \in 0 .. map'.width * map'.height
  BY <1>1 DEF w, h
<1>7. Walls(map, n + 1) = IF Occupied(map.data[c]) THEN S \cup {c} ELSE S
  BY <1>2 DEF Walls
<1>8. Listed(map, n + 1) = IF Free(map.data[c]) THEN Listed(map, n) \cup {<<x, y>>}
                           ELSE Listed(map, n)
  <2>1. CASE Free(map.data[c])
    <3>1. {l \in UpTo(map, n + 1) : Free(map.data[l])}
            = {l \in UpTo(map, n) : Free(map.data[l])} \cup {c}
      BY <1>2, <2>1
    <3> QED BY <1>2, <2>1, <3>1 DEF Listed
  <2>2. CASE ~Free(map.data[c])
    <3>1. {l \in UpTo(map, n + 1) : Free(map.data[l])}
            = {l \in UpTo(map, n) : Free(map.data[l])}
      BY <1>2, <2>2
    <3> QED BY <2>2, <3>1 DEF Listed
  <2> QED BY <2>1, <2>2
<1>9. S \in SUBSET DOMAIN map.data
      /\ \A k \in DOMAIN map.data : Nearest(map, k, likelihoods[k], S)
  BY DEF FieldInv, Walls, UpTo
<1> HIDE DEF S
<1>10. \A k \in DOMAIN map.data : Nearest(map, k, likelihoods'[k], Walls(map, n + 1))
  <2> TAKE k \in DOMAIN map.data
  <2>1. CASE Occupied(map.data[c])
    <3>1. likelihoods'[k] = IF King(map, k, c) <= Reach(map)
               THEN Longer(likelihoods[k], Weight(map, King(map, k, c)))
               ELSE likelihoods[k]
      BY <1>1, <1>2, <1>4, <2>1, SetLikelihoodOf
    <3>2. Nearest(map, k, likelihoods'[k], S \cup {c})
      <4> DEFINE v == likelihoods[k]
                 u == likelihoods'[k]
                 z == IF King(map, k, c) <= Reach(map)
                      THEN Longer(v, Weight(map, King(map, k, c))) ELSE v
      <4>1. Nearest(map, k, v, S) /\ u = z
        BY <1>9, <3>1
      <4> HIDE DEF u, v
      <4>2. Nearest(map, k, z, S \cup {c})
        BY <1>1, <1>2, <1>9, <4>1, NearestOfMore
      <4> HIDE DEF z
      <4>3. Nearest(map, k, u, S \cup {c})
        BY <4>1, <4>2
      <4> QED BY <4>3 DEF u
    <3> QED BY <1>7, <2>1, <3>2
  <2>2. CASE ~Occupied(map.data[c])
    BY <1>4, <1>7, <1>9, <2>2
  <2> QED BY <2>1, <2>2
<1>11. likelihoods' \in [DOMAIN map.data -> 0 .. 255]
  <2>1. likelihoods' = [k \in DOMAIN map.data |-> likelihoods'[k]]
    BY <1>1, <1>4, Zenon DEF SetLikelihood, Cells
  <2>2. \A k \in DOMAIN map.data : likelihoods'[k] \in 0 .. 255
    BY <1>10 DEF Nearest
  <2> QED BY <2>1, <2>2
<1>12. free_cells' = Listed(map, n + 1)
  BY <1>5, <1>8 DEF FieldInv
<1> QED BY <1>1, <1>6, <1>10, <1>11, <1>12 DEF FieldInv

-----------------------------------------------------------------------------
(* The bounds test of likelihood() is that the cell of the point is on the *)
(* map.                                                                    *)
LEMMA CellRange ==
    \A a \in Int, w \in Nat, r \in Nat \ {0} :
        /\ a \div r \in Int
        /\ (a < 0 \/ a >= w * r) <=> a \div r \notin 0 .. w - 1
<1> SUFFICES ASSUME NEW a \in Int, NEW w \in Nat, NEW r \in Nat \ {0}
             PROVE  /\ a \div r \in Int
                    /\ (a < 0 \/ a >= w * r) <=> a \div r \notin 0 .. w - 1
  OBVIOUS
<1> DEFINE q == a \div r
           b == a % r
<1>1. b \in 0 .. r - 1 /\ q \in Int /\ a = r * q + b
  BY Division
<1> HIDE DEF q, b
<1>2. CASE q < 0
  <2>1. (q + 1) * r <= 0 * r
    BY <1>1, <1>2, TimesIsMonotone
  <2>2. (q + 1) * r = r * q + r /\ r * q \in Int
    BY <1>1
  <2>3. a < 0
    BY <1>1, <2>1, <2>2
  <2> QED BY <1>1, <1>2, <2>3 DEF q
<1>3. CASE q >= w
  <2>1. w * r <= q * r
    BY <1>1, <1>3, TimesIsMonotone
  <2>2. q * r = r * q /\ r * q \in Int /\ w * r \in Int
    BY <1>1
  <2>3. a >= w * r
    BY <1>1, <2>1, <2>2
  <2> QED BY <1>1, <1>3, <2>3 DEF q
<1>4. CASE 0 <= q /\ q <= w - 1
  <2>1. 0 * r <= q * r /\ (q + 1) * r <= w * r
    BY <1>1, <1>4, TimesIsMonotone
  <2>2. (q + 1) * r = r * q + r /\ q * r = r * q /\ r * q \in Int /\ w * r \in Int
    BY <1>1
  <2>3. 0 <= a /\ a < w * r
    BY <1>1, <2>1, <2>2
  <2>4. q \in 0 .. w - 1
    BY <1>1, <1>4
  <2>5. w * r \in Int
    BY <2>2
  <2>6. ~(a < 0 \/ a >= w * r)
    BY <2>3, <2>5
  <2> QED BY <1>1, <2>4, <2>6 DEF q
<1> QED BY <1>1, <1>2, <1>3, <1>4

(* The column or the row of a coordinate, and the points on the map.       *)
Col(a) == a \div Resolution
Inside(a, b) == Col(a) \in 0 .. map.width - 1 /\ Col(b) \in 0 .. map.height - 1

(* likelihood(x, y) reads the cell that the point is in.                   *)
LEMMA LikelihoodOfPoint ==
    ASSUME FieldInv, NEW a \in Int, NEW b \in Int
    PROVE  LikelihoodAt(a, b) = IF Inside(a, b)
                                THEN likelihoods[Col(a) + Col(b) * map.width] ELSE 0
<1>1. map.width \in Nat /\ map.height \in Nat /\ Resolution \in Nat \ {0}
  BY MapFacts, ResolutionAssumption DEF FieldInv
<1>2. (a < 0 \/ a >= map.width * Resolution) <=> Col(a) \notin 0 .. map.width - 1
  BY <1>1, CellRange DEF Col
<1>3. (b < 0 \/ b >= map.height * Resolution) <=> Col(b) \notin 0 .. map.height - 1
  BY <1>1, CellRange DEF Col
<1>4. LikelihoodAt(a, b) = IF \/ a < 0 \/ a >= map.width * Resolution
                              \/ b < 0 \/ b >= map.height * Resolution
                           THEN 0 ELSE likelihoods[Col(a) + Col(b) * map.width]
  BY Zenon DEF LikelihoodAt, Flat, Col
<1> QED BY <1>2, <1>3, <1>4, Zenon DEF Inside

(* A point less than a cell beyond the corner of a cell is in the cell.    *)
LEMMA PointInCell ==
    ASSUME NEW c \in Int \X Int, NEW o \in (0 .. Resolution - 1) \X (0 .. Resolution - 1)
    PROVE  /\ PoseIn(c, o)[1] \in Int /\ PoseIn(c, o)[2] \in Int
           /\ Col(PoseIn(c, o)[1]) = c[1] /\ Col(PoseIn(c, o)[2]) = c[2]
<1>1. ASSUME NEW p \in Int, NEW q \in 0 .. Resolution - 1
      PROVE  p * Resolution + q \in Int /\ (p * Resolution + q) \div Resolution = p
  <2> DEFINE r == Resolution
  <2>1. q \in Nat /\ q < r /\ r \in Nat \ {0}
    BY ResolutionAssumption
  <2> SUFFICES p * r + q \in Int /\ (p * r + q) \div r = p
    OBVIOUS
  <2> HIDE DEF r
  <2>2. p * r + q \in Int
    BY <2>1
  <2> QED BY <2>1, <2>2, DivisionIsUnique
<1> QED BY <1>1 DEF PoseIn, Col

(* drawFreePoses() goes less than a cell beyond the corner.                *)
LEMMA CornersAreInCell == Corners \subseteq (0 .. Resolution - 1) \X (0 .. Resolution - 1)
BY ResolutionAssumption DEF Corners

(* The finished field is right for all the walls of the map.               *)
LEMMA FieldIsNearest ==
    ASSUME FieldInv, NEW k \in DOMAIN map.data PROVE NearestWall(k) = likelihoods[k]
<1>1. map \in Maps /\ k \in Cells /\ Walls(map, visited) \in SUBSET DOMAIN map.data
  BY FieldOf DEF FieldInv, Walls, UpTo
<1>2. Nearest(map, k, NearestWall(k), Walls(map, visited))
  BY <1>1, NearestWallIsNearest
<1>3. Nearest(map, k, likelihoods[k], Walls(map, visited))
  BY DEF FieldInv
<1> QED BY <1>1, <1>2, <1>3, NearestIsOne

(* So the constructor leaves what the property asks for,                   *)
LEMMA FieldIsRight == FieldInv => LikelihoodIsOfNearestWall
<1> DEFINE near == [k \in Cells |-> NearestWall(k)]
<1> SUFFICES ASSUME FieldInv,
                    NEW cell \in (-1 .. map.width) \X (-1 .. map.height),
                    NEW offset \in Corners
             PROVE  LikelihoodAt(PoseIn(cell, offset)[1], PoseIn(cell, offset)[2]) =
                      IF cell \in (0 .. map.width - 1) \X (0 .. map.height - 1)
                      THEN near[Flat(cell[1], cell[2])] ELSE 0
  BY Zenon DEF LikelihoodIsOfNearestWall
<1> DEFINE a == PoseIn(cell, offset)[1]
           b == PoseIn(cell, offset)[2]
<1>1. map.width \in Nat /\ map.height \in Nat /\ map \in Maps
  BY MapFacts DEF FieldInv
<1>2. cell \in Int \X Int /\ offset \in (0 .. Resolution - 1) \X (0 .. Resolution - 1)
  BY <1>1, CornersAreInCell
<1>3. a \in Int /\ b \in Int /\ Col(a) = cell[1] /\ Col(b) = cell[2]
  BY <1>2, PointInCell
<1>4. LikelihoodAt(a, b) = IF Inside(a, b)
                           THEN likelihoods[Col(a) + Col(b) * map.width] ELSE 0
  <2> HIDE DEF a, b
  <2> QED BY <1>3, LikelihoodOfPoint
<1>5. Inside(a, b) <=> cell \in (0 .. map.width - 1) \X (0 .. map.height - 1)
  <2>1. cell = <<cell[1], cell[2]>>
    BY <1>2
  <2> QED BY <1>3, <2>1 DEF Inside
<1>6. ASSUME Inside(a, b)
      PROVE  near[Flat(cell[1], cell[2])] = likelihoods[Col(a) + Col(b) * map.width]
  <2> DEFINE k == cell[1] + cell[2] * map.width
  <2>1. k \in DOMAIN map.data
    BY <1>1, <1>3, <1>6, GridOf DEF Inside
  <2>2. Flat(cell[1], cell[2]) = k /\ Col(a) + Col(b) * map.width = k
    BY <1>3 DEF Flat
  <2>3. NearestWall(k) = likelihoods[k]
    <3> HIDE DEF k
    <3> QED BY <2>1, FieldIsNearest
  <2>4. k \in Cells
    BY <1>1, <2>1, FieldOf
  <2> HIDE DEF k
  <2>5. near[k] = NearestWall(k)
    BY <2>4
  <2> HIDE DEF near
  <2> QED BY <2>2, <2>3, <2>5
<1> HIDE DEF near
<1> QED BY <1>4, <1>5, <1>6

(* and free poses are drawn in free cells.                                 *)
LEMMA DrawnIsRight == FieldInv => DrawnAreFree
<1> SUFFICES ASSUME FieldInv, NEW drawn \in ChosenCells(2),
                    NEW i \in DOMAIN drawn, NEW j \in DOMAIN drawn, NEW offset \in Corners
             PROVE  LET cell(n) == Flat(PoseIn(drawn[n], offset)[1] \div Resolution,
                                        PoseIn(drawn[n], offset)[2] \div Resolution)
                    IN  /\ map.data[cell(i)] \in 0 .. 50
                        /\ LikelihoodAt(PoseIn(drawn[i], offset)[1],
                                        PoseIn(drawn[i], offset)[2]) < 255
                        /\ cell(i) = cell(j) => i = j
  BY Zenon DEF DrawnAreFree
<1> DEFINE cell(n) == Flat(PoseIn(drawn[n], offset)[1] \div Resolution,
                           PoseIn(drawn[n], offset)[2] \div Resolution)
<1>1. map \in Maps /\ map.width \in Nat
  BY MapFacts DEF FieldInv
<1>2. IsInjective(drawn) /\ \A n \in DOMAIN drawn : drawn[n] \in free_cells
  BY DEF ChosenCells
<1>3. offset \in (0 .. Resolution - 1) \X (0 .. Resolution - 1)
  BY CornersAreInCell
<1>4. ASSUME NEW n \in DOMAIN drawn
      PROVE  \E k \in DOMAIN map.data :
                /\ cell(n) = k /\ drawn[n] = <<X(map, k), Y(map, k)>>
                /\ map.data[k] \in 0 .. 50
                /\ LikelihoodAt(PoseIn(drawn[n], offset)[1], PoseIn(drawn[n], offset)[2]) < 255
  <2> DEFINE c == drawn[n]
             a == PoseIn(c, offset)[1]
             b == PoseIn(c, offset)[2]
  <2>1. PICK k \in UpTo(map, visited) : Free(map.data[k]) /\ c = <<X(map, k), Y(map, k)>>
    BY <1>2, <1>4 DEF FieldInv, Listed
  <2>2. k \in DOMAIN map.data
    BY DEF UpTo
  <2>3. /\ X(map, k) \in 0 .. map.width - 1 /\ Y(map, k) \in 0 .. map.height - 1
        /\ k = X(map, k) + Y(map, k) * map.width
    BY <1>1, <2>2, GridOf
  <2>4. c \in Int \X Int /\ c[1] = X(map, k) /\ c[2] = Y(map, k)
    BY <1>1, <2>1, <2>3, MapFacts
  <2>5. a \in Int /\ b \in Int /\ Col(a) = X(map, k) /\ Col(b) = Y(map, k)
    <3> HIDE DEF c
    <3> QED BY <1>3, <2>4, PointInCell
  <2>6. cell(n) = k
    <3>1. cell(n) = Col(a) + Col(b) * map.width
      BY DEF Flat, Col
    <3> QED BY <2>3, <2>5, <3>1
  <2>7. LikelihoodAt(a, b) = likelihoods[k]
    <3>1. Inside(a, b)
      BY <2>3, <2>5 DEF Inside
    <3>2. LikelihoodAt(a, b) = IF Inside(a, b)
                               THEN likelihoods[Col(a) + Col(b) * map.width] ELSE 0
      <4> HIDE DEF a, b
      <4> QED BY <2>5, LikelihoodOfPoint
    <3> QED BY <2>3, <2>5, <3>1, <3>2
  <2>8. map.data[k] \in 0 .. 50
    <3>1. map.data[k] \in -1 .. 100
      BY <1>1, <2>2, MapFacts
    <3> QED BY <2>1, <3>1 DEF Free
  <2>9. likelihoods[k] < 255
    <3> DEFINE v == likelihoods[k]
    <3>1. Nearest(map, k, v, Walls(map, visited))
      BY <2>2 DEF FieldInv
    <3> SUFFICES ASSUME v # 0 PROVE v < 255
      OBVIOUS
    <3>2. PICK l \in Walls(map, visited) :
            King(map, k, l) <= Reach(map) /\ v = Weight(map, King(map, k, l))
      BY <3>1 DEF Nearest
    <3>3. l \in DOMAIN map.data /\ Occupied(map.data[l])
      BY DEF Walls, UpTo
    <3>4. l # k
      BY <2>8, <3>3 DEF Occupied
    <3>5. King(map, k, l) \in Nat /\ King(map, k, l) # 0
      BY <1>1, <2>2, <3>3, <3>4, KingOf
    <3>6. King(map, k, l) \in 1 .. Reach(map)
      BY <1>1, <3>2, <3>5, WeightsFall
    <3>7. Weight(map, King(map, k, l)) < 255
      BY <1>1, <3>6, WeightsFall
    <3> HIDE DEF v
    <3> QED BY <3>2, <3>7
  <2> QED BY <2>1, <2>2, <2>6, <2>7, <2>8, <2>9
<1>5. ASSUME cell(i) = cell(j) PROVE i = j
  <2>1. drawn[i] = drawn[j]
    <3> HIDE DEF cell
    <3> QED BY <1>4, <1>5
  <2> QED BY <1>2, <2>1 DEF IsInjective
<1>6. map.data[cell(i)] \in 0 .. 50
      /\ LikelihoodAt(PoseIn(drawn[i], offset)[1], PoseIn(drawn[i], offset)[2]) < 255
  <2> HIDE DEF cell
  <2> QED BY <1>4
<1> HIDE DEF cell
<1>7. /\ map.data[cell(i)] \in 0 .. 50
      /\ LikelihoodAt(PoseIn(drawn[i], offset)[1], PoseIn(drawn[i], offset)[2]) < 255
      /\ cell(i) = cell(j) => i = j
  BY <1>5, <1>6
<1> QED BY <1>7, Zenon DEF cell

-----------------------------------------------------------------------------
(* The types of what the walk reads, and the invariant of the types.  In   *)
(* the state before the walk no beam has been read.                        *)
PoseType == [x : Int, y : Int, t : Turn]
Point == Int \X Int
BeamType == [range : Nat, dir : Turn, hit : Point]
Steady == pose \in PoseType /\ first \in BeamType /\ last \in BeamType

Typed ==
    /\ FieldInv
    /\ Steady
    /\ ranges \in [Beam -> Ranges \cup {Unread}]
    /\ walk.order \in Seq(Beam) /\ walk.threshold \in Nat
    /\ at \in 0 .. Len(walk.order)
    /\ hit_counter \in 0 .. at
    /\ verdict \in {"none", "walking", "conflict", "clear"}
    /\ verdict # "none" => Built
    /\ verdict = "none" => at = 0 /\ hit_counter = 0 /\ \A i \in Beam : ranges[i] = Unread

(* Points and directions stay what they are.                               *)
LEMMA PointType ==
    /\ \A a \in Turn : Cos(a) \in Int /\ Sin(a) \in Int
    /\ \A o \in Point, d \in Int, a \in Turn : PointAt(o, d, a) \in Point
    /\ \A p \in PoseType : LidarAt(p) \in Point
    /\ \A p \in PoseType, i \in Int : BeamDirection(p, i) \in Turn
<1>1. \A a \in Turn : Cos(a) \in Int /\ Sin(a) \in Int
  BY DEF Turn, Cos, Sin
<1>2. \A o \in Point, d \in Int, a \in Turn : PointAt(o, d, a) \in Point
  <2> TAKE o \in Point, d \in Int, a \in Turn
  <2> DEFINE c == Cos(a)
             s == Sin(a)
  <2>1. c \in Int /\ s \in Int
    BY <1>1
  <2> HIDE DEF c, s
  <2>2. o[1] + d * c \in Int /\ o[2] + d * s \in Int
    BY <2>1 DEF Point
  <2> QED BY <2>2 DEF PointAt, Point, c, s
<1>3. \A p \in PoseType : LidarAt(p) \in Point
  <2> TAKE p \in PoseType
  <2> DEFINE c == Cos(p.t)
             s == Sin(p.t)
             l == LidarX
  <2>1. c \in Int /\ s \in Int /\ l \in Int /\ p.x \in Int /\ p.y \in Int
    BY <1>1, PosesAssumption DEF PoseType
  <2> HIDE DEF c, s, l
  <2>2. p.x + l * c \in Int /\ p.y + l * s \in Int
    BY <2>1
  <2> QED BY <2>2 DEF LidarAt, Point, c, s, l
<1>4. \A p \in PoseType, i \in Int : BeamDirection(p, i) \in Turn
  <2> TAKE p \in PoseType, i \in Int
  <2> DEFINE z == DirectionOf(i) + p.t + LidarYaw
  <2>1. z \in Int
    BY PosesAssumption DEF PoseType, DirectionOf, Turn
  <2> HIDE DEF z
  <2>2. z % 4 \in 0 .. 3
    BY <2>1
  <2> QED BY <2>2 DEF BeamDirection, Turn, z
<1> QED BY <1>1, <1>2, <1>3, <1>4

(* So does the wall point that a beam remembers.                           *)
LEMMA HitType ==
    \A o \in Point, r \in Nat, a \in Turn :
        (IF Hits(o, r, a) = {} THEN <<0, 0>> ELSE FirstHit(o, r, a)) \in Point
<1> SUFFICES ASSUME NEW o \in Point, NEW r \in Nat, NEW a \in Turn, Hits(o, r, a) # {}
             PROVE  FirstHit(o, r, a) \in Point
  BY DEF Point
<1>1. Hits(o, r, a) \in SUBSET Nat
  BY DEF Hits, Steps
<1>2. Min(Hits(o, r, a)) \in Int
  BY <1>1, MinIsLeast
<1> QED BY <1>2, PointType DEF FirstHit

(* A pose put elsewhere.                                                   *)
Put(p, a, b, t) == [[p EXCEPT !.x = a, !.y = b] EXCEPT !.t = t]

(* It is a pose.                                                           *)
LEMMA PutType ==
    \A p \in PoseType, a, b \in Int, t \in Turn :
        Put(p, a, b, t) \in PoseType /\ Put(p, a, b, t).x = a /\ Put(p, a, b, t).y = b
<1> TAKE p \in PoseType, a, b \in Int, t \in Turn
<1> DEFINE p1 == [p EXCEPT !.x = a]
           p2 == [p1 EXCEPT !.y = b]
           p3 == [p2 EXCEPT !.t = t]
<1>1. p1 \in PoseType /\ p1.x = a
  BY DEF PoseType
<1>2. p2 \in PoseType /\ p2.x = a /\ p2.y = b
  <2> HIDE DEF p1
  <2> QED BY <1>1 DEF PoseType
<1>3. p3 \in PoseType /\ p3.x = a /\ p3.y = b
  <2> HIDE DEF p2
  <2> QED BY <1>2 DEF PoseType
<1>4. Put(p, a, b, t) = p3
  BY DEF Put
<1> QED BY <1>3, <1>4

(* So is the pose that sensorReset() leaves.                               *)
LEMMA DraggedType ==
    \A p \in PoseType, b1, b2 \in BeamType :
        /\ Beyond(LidarAt(p), b1, b2)[1] \in Int /\ Beyond(LidarAt(p), b1, b2)[2] \in Int
        /\ \A t \in Turn : [DraggedBack(p, b1, b2) EXCEPT !.t = t] \in PoseType
<1> TAKE p \in PoseType, b1, b2 \in BeamType
<1> DEFINE o == LidarAt(p)
           e1 == End(o, b1)
           e2 == End(o, b2)
<1>1. e1 \in Point /\ e2 \in Point /\ b1.hit \in Point /\ b2.hit \in Point
  BY PointType DEF BeamType, End
<1> HIDE DEF e1, e2
<1>2. Beyond(o, b1, b2) = [c \in {1, 2} |-> (e1[c] + e2[c]) \div 2
                                           - (b1.hit[c] + b2.hit[c]) \div 2]
  BY DEF Beyond, e1, e2
<1>3. \A c \in {1, 2} : e1[c] \in Int /\ e2[c] \in Int /\ b1.hit[c] \in Int /\ b2.hit[c] \in Int
  BY <1>1 DEF Point
<1>4. \A a, b \in Int : a \div 2 - b \div 2 \in Int
  OBVIOUS
<1>5. \A c \in {1, 2} : Beyond(o, b1, b2)[c] \in Int
  <2> TAKE c \in {1, 2}
  <2>1. e1[c] + e2[c] \in Int /\ b1.hit[c] + b2.hit[c] \in Int
    BY <1>3
  <2>2. (e1[c] + e2[c]) \div 2 - (b1.hit[c] + b2.hit[c]) \div 2 \in Int
    BY <1>4, <2>1
  <2> QED BY <1>2, <2>2
<1> HIDE DEF o
<1>6. \A t \in Turn : [DraggedBack(p, b1, b2) EXCEPT !.t = t] \in PoseType
  <2> TAKE t \in Turn
  <2> DEFINE u == Beyond(o, b1, b2)[1]
             v == Beyond(o, b1, b2)[2]
  <2>1. u \in Int /\ v \in Int
    BY <1>5
  <2>2. DraggedBack(p, b1, b2) = [p EXCEPT !.x = @ - u, !.y = @ - v]
    BY DEF DraggedBack, o
  <2> HIDE DEF u, v
  <2>3. [[p EXCEPT !.x = @ - u, !.y = @ - v] EXCEPT !.t = t] \in PoseType
    <3>1. p.x - u \in Int /\ p.y - v \in Int
      BY <2>1 DEF PoseType
    <3> QED BY <3>1, PutType DEF Put
  <2> QED BY <2>2, <2>3
<1> QED BY <1>5, <1>6 DEF o

(* The beams walked over exist, and the walk goes one way.                 *)
LEMMA OrderOf ==
    ASSUME NEW coin \in BOOLEAN, NEW inc \in Increments
    PROVE  /\ Order(coin, inc) \in Seq(Beam)
           /\ \A k, l \in 1 .. Len(Order(coin, inc)) : k < l =>
                IF coin THEN Order(coin, inc)[k] < Order(coin, inc)[l]
                ELSE Order(coin, inc)[l] < Order(coin, inc)[k]
<1> DEFINE n == (NumBeams + inc - 1) \div inc
           s == Order(coin, inc)
<1>1. NumBeams \in Nat /\ inc \in Nat \ {0}
  BY BeamsAssumption
<1>2. n \in Nat /\ n * inc <= NumBeams + inc - 1
  <2> DEFINE z == NumBeams + inc - 1
             r == z % inc
  <2>1. z \in Nat
    BY <1>1
  <2>2. n \in Nat /\ r \in 0 .. inc - 1 /\ z = n * inc + r
    <3>1. n = z \div inc
      OBVIOUS
    <3> HIDE DEF n, z
    <3> QED BY <1>1, <2>1, <3>1, DivisionOfNat
  <2> HIDE DEF n, r
  <2>3. n * inc \in Int
    BY <1>1, <2>2
  <2> QED BY <1>1, <2>2, <2>3
<1>3. s = [k \in 1 .. n |-> IF coin THEN (k - 1) * inc ELSE NumBeams - 1 - (k - 1) * inc]
  BY DEF Order
<1> HIDE DEF n, s
<1>4. \A k \in 1 .. n : (k - 1) * inc \in Nat /\ (k - 1) * inc <= NumBeams - 1
  <2> TAKE k \in 1 .. n
  <2>1. k - 1 \in Nat /\ n - 1 \in Int /\ k - 1 <= n - 1
    BY <1>2
  <2>2. (k - 1) * inc <= (n - 1) * inc
    BY <1>1, <2>1, TimesIsMonotone
  <2>3. (n - 1) * inc = n * inc - inc /\ n * inc \in Int /\ (k - 1) * inc \in Nat
    BY <1>1, <1>2, <2>1
  <2> QED BY <1>1, <1>2, <2>2, <2>3
<1>5. \A k \in 1 .. n : s[k] \in Beam
  <2> TAKE k \in 1 .. n
  <2> DEFINE z == (k - 1) * inc
  <2>1. z \in Nat /\ z <= NumBeams - 1 /\ s[k] = IF coin THEN z ELSE NumBeams - 1 - z
    BY <1>3, <1>4
  <2> HIDE DEF z
  <2> QED BY <1>1, <2>1 DEF Beam
<1>6. s \in Seq(Beam) /\ Len(s) = n
  <2>1. s \in [1 .. n -> Beam]
    BY <1>3, <1>5
  <2> QED BY <1>2, <2>1
<1>7. \A k, l \in 1 .. n : k < l => IF coin THEN s[k] < s[l] ELSE s[l] < s[k]
  <2> TAKE k, l \in 1 .. n
  <2> HAVE k < l
  <2> DEFINE y == (k - 1) * inc
             z == (l - 1) * inc
  <2>1. y + inc <= z
    <3>1. k - 1 \in Int /\ l - 1 \in Int /\ k \in Int /\ k <= l - 1
      BY <1>2
    <3>2. k * inc <= (l - 1) * inc
      BY <1>1, <3>1, TimesIsMonotone
    <3>3. k * inc = (k - 1) * inc + inc
      BY <1>1, <3>1
    <3> QED BY <3>2, <3>3
  <2>2. y \in Nat /\ z \in Nat
    BY <1>4
  <2>3. /\ s[k] = IF coin THEN y ELSE NumBeams - 1 - y
        /\ s[l] = IF coin THEN z ELSE NumBeams - 1 - z
    BY <1>3
  <2> HIDE DEF y, z
  <2> QED BY <1>1, <2>1, <2>2, <2>3
<1> QED BY <1>6, <1>7 DEF s

-----------------------------------------------------------------------------
(* What a beam reports.                                                    *)
LEMMA BeamFacts ==
    /\ \A i \in Beam : i \in Nat
    /\ \A r \in Ranges : Valid(r) => r \in Nat
    /\ \A r \in Ranges : r # Unread
BY BeamsAssumption DEF Beam, Valid

(* A beam that has been judged.                                            *)
LEMMA JudgeFacts ==
    ASSUME Typed, NEW i \in Beam, NEW r \in Ranges, Valid(r), Judge(i, r)
    PROVE  /\ last' \in BeamType /\ first' \in BeamType
           /\ End(LidarAt(pose), last') = EndPoint(pose, i, r)
           /\ hit_counter' = Counted(Through(i, r))
           /\ hit_counter' = 1 => first' = last'
           /\ hit_counter' >= walk.threshold =>
                /\ verdict' = "conflict"
                /\ SensorReset => \E t \in Turn :
                     pose' = [DraggedBack(pose, first', last') EXCEPT !.t = t]
                /\ ~SensorReset => pose' = pose
           /\ ~(hit_counter' >= walk.threshold) => verdict' = verdict /\ pose' = pose
<1> DEFINE o == LidarAt(pose)
           a == BeamDirection(pose, i)
           through == IsPenetrating(o, r, a, walk.endpoint_check)
           hit == IF Hits(o, r, a) = {} THEN <<0, 0>> ELSE FirstHit(o, r, a)
<1>1. r \in Nat /\ i \in Int /\ pose \in PoseType
  BY BeamFacts DEF Typed, Steady
<1>2. o \in Point /\ a \in Turn
  BY <1>1, PointType
<1>3. hit \in Point
  BY <1>1, <1>2, HitType
<1>4. last' = [range |-> r, dir |-> a, hit |-> hit] /\ hit_counter' = Counted(through)
      /\ first' = IF through /\ hit_counter = 0 THEN last' ELSE first
  BY DEF Judge
<1>5. through = Through(i, r)
  BY DEF Through
<1>6. last' \in BeamType /\ last'.range = r /\ last'.dir = a
  <2> HIDE DEF hit, a, o
  <2> QED BY <1>1, <1>2, <1>3, <1>4 DEF BeamType
<1>7. first' \in BeamType
  BY <1>4, <1>6 DEF Typed, Steady
<1>8. End(o, last') = EndPoint(pose, i, r)
  BY <1>6 DEF End, EndPoint
<1>9. hit_counter' = 1 => first' = last'
  <2> HIDE DEF through
  <2>1. hit_counter \in Nat
    BY DEF Typed
  <2>2. hit_counter' = IF through THEN hit_counter + 1 ELSE 0
    BY <1>4 DEF Counted
  <2> QED BY <1>4, <2>1, <2>2
<1>10. hit_counter' >= walk.threshold =>
                /\ verdict' = "conflict"
                /\ SensorReset => \E t \in Turn :
                     pose' = [DraggedBack(pose, first', last') EXCEPT !.t = t]
                /\ ~SensorReset => pose' = pose
  BY DEF Judge
<1>11. ~(hit_counter' >= walk.threshold) => verdict' = verdict /\ pose' = pose
  BY DEF Judge
<1> QED BY <1>4, <1>5, <1>6, <1>7, <1>8, <1>9, <1>10, <1>11

(* What judging a beam leaves is of its type.                              *)
LEMMA JudgeType ==
    ASSUME Typed, NEW i \in Beam, NEW r \in Ranges, Valid(r), Judge(i, r)
    PROVE  /\ Steady' /\ hit_counter' \in 0 .. hit_counter + 1
           /\ verdict' \in {verdict, "conflict"}
<1>1. last' \in BeamType /\ first' \in BeamType /\ pose \in PoseType
  BY JudgeFacts DEF Typed, Steady
<1>2. pose' \in PoseType
  <2>1. CASE hit_counter' >= walk.threshold /\ SensorReset
    <3>1. PICK t \in Turn : pose' = [DraggedBack(pose, first', last') EXCEPT !.t = t]
      BY <2>1, JudgeFacts
    <3> QED BY <1>1, <3>1, DraggedType
  <2>2. CASE ~(hit_counter' >= walk.threshold /\ SensorReset)
    <3>1. pose' = pose
      BY <2>2, JudgeFacts
    <3> QED BY <1>1, <3>1
  <2> QED BY <2>1, <2>2
<1>3. hit_counter' \in 0 .. hit_counter + 1
  <2>1. hit_counter \in Nat
    BY DEF Typed
  <2>2. hit_counter' = IF Through(i, r) THEN hit_counter + 1 ELSE 0
    BY JudgeFacts DEF Counted
  <2> QED BY <2>1, <2>2
<1>4. verdict' \in {verdict, "conflict"}
  BY JudgeFacts
<1> QED BY <1>1, <1>2, <1>3, <1>4 DEF Steady

(* The types hold at the start,                                            *)
LEMMA TypedInit == Init => Typed
<1> SUFFICES ASSUME Init PROVE Typed
  OBVIOUS
<1>1. FieldInv
  BY FieldInvInit DEF Init
<1>2. NoBeam \in BeamType
  BY DEF NoBeam, BeamType, Point, Turn
<1>3. pose \in PoseType
  BY PosesAssumption DEF Init, PoseType, Turn
<1>4. ranges \in [Beam -> Ranges \cup {Unread}]
  BY DEF Init
<1>5. walk.order = <<>> /\ walk.threshold = 0
  BY DEF Init
<1>6. <<>> \in Seq(Beam) /\ Len(<<>>) = 0
  OBVIOUS
<1> QED BY <1>1, <1>2, <1>3, <1>4, <1>5, <1>6 DEF Init, Typed, Steady

(* the walk leaves the field alone,                                        *)
LEMMA FieldKept == FieldInv /\ UNCHANGED field => FieldInv'
BY DEF field, FieldInv

(* and every step keeps the types.                                         *)
LEMMA TypedStep == Typed /\ [Next]_vars => Typed'
<1> SUFFICES ASSUME Typed, [Next]_vars PROVE Typed'
  OBVIOUS
<1>1. CASE Visit /\ UNCHANGED walkVars
  <2>1. FieldInv'
    BY <1>1, FieldInvVisit DEF Typed
  <2>2. verdict = "none"
    <3>1. map.width * map.height \in Nat
      BY MapFacts DEF Typed, FieldInv
    <3>2. ~Built
      BY <1>1, <3>1 DEF Built, Visit
    <3> QED BY <3>2 DEF Typed
  <2> QED BY <1>1, <2>1, <2>2 DEF walkVars, Typed, Steady
<1>2. CASE WallConflict
  <2>1. PICK coin \in BOOLEAN, endpoint_check \in BOOLEAN, inc \in Increments,
             threshold \in Thresholds :
          walk' = [order |-> Order(coin, inc), endpoint_check |-> endpoint_check,
                   threshold |-> threshold]
    BY <1>2 DEF WallConflict
  <2>2. walk'.order \in Seq(Beam) /\ walk'.threshold \in Nat
    BY <2>1, OrderOf, BeamsAssumption
  <2>3. FieldInv' /\ Built'
    BY <1>2, FieldKept DEF WallConflict, Typed, field, Built
  <2>4. at' = 0 /\ hit_counter' = 0
    BY <1>2 DEF WallConflict, Typed
  <2>5. Len(walk'.order) \in Nat
    BY <2>2, LenProperties
  <2> QED BY <1>2, <2>2, <2>3, <2>4, <2>5 DEF WallConflict, Typed, Steady
<1>3. CASE NextBeam
  <2> DEFINE i == walk.order[at + 1]
  <2>1. at + 1 \in 1 .. Len(walk.order) /\ at' = at + 1 /\ at \in Nat /\ verdict = "walking"
    <3>1. Len(walk.order) \in Nat
      BY LenProperties DEF Typed
    <3> QED BY <1>3, <3>1 DEF NextBeam, Typed
  <2>2. i \in Beam
    BY <2>1, ElementOfSeq DEF Typed
  <2>3. PICK r \in Ranges :
          /\ ranges' = [ranges EXCEPT ![i] = r]
          /\ IF Valid(r) THEN Judge(i, r)
             ELSE UNCHANGED <<pose, hit_counter, first, last, verdict>>
    BY <1>3 DEF NextBeam
  <2>4. FieldInv' /\ (Built => Built') /\ walk' = walk
    BY <1>3, FieldKept DEF NextBeam, Typed, field, Built
  <2>5. ranges' \in [Beam -> Ranges \cup {Unread}]
    <3> HIDE DEF i
    <3> QED BY <2>2, <2>3 DEF Typed
  <2>6. Steady' /\ hit_counter' \in 0 .. hit_counter + 1 /\ verdict' \in {verdict, "conflict"}
    <3>1. CASE Valid(r)
      <4> HIDE DEF i
      <4> QED BY <2>2, <2>3, <3>1, JudgeType
    <3>2. CASE ~Valid(r)
      <4>1. hit_counter' = hit_counter /\ verdict' = verdict /\ pose' = pose
            /\ first' = first /\ last' = last
        BY <2>3, <3>2
      <4> QED BY <4>1 DEF Typed, Steady
    <3> QED BY <3>1, <3>2
  <2>7. hit_counter' \in 0 .. at' /\ at' \in 0 .. Len(walk'.order)
    <3>1. hit_counter \in 0 .. at
      BY DEF Typed
    <3> QED BY <2>1, <2>4, <2>6, <3>1
  <2> QED BY <2>1, <2>4, <2>5, <2>6, <2>7 DEF Typed
<1>4. CASE NoConflict
  <2>1. FieldInv' /\ (Built => Built')
    BY <1>4, FieldKept DEF NoConflict, Typed, field, Built
  <2> QED BY <1>4, <2>1 DEF NoConflict, Typed, Steady
<1>5. CASE UNCHANGED vars
  <2>1. FieldInv' /\ (Built => Built')
    BY <1>5, FieldKept DEF vars, Typed, field, Built
  <2> QED BY <1>5, <2>1 DEF vars, walkVars, Typed, Steady
<1> QED BY <1>1, <1>2, <1>3, <1>4, <1>5 DEF Next

(* So they hold always.                                                    *)
LEMMA ParticleInvariant == Spec => []Typed
BY TypedInit, TypedStep, PTL DEF Spec

(* For every map, pose, scan and scan_increment: the likelihoods fit a     *)
(* byte, free_cells_ are cells of the map, the beams of the walk exist,    *)
(* and the counter of wallConflict() is never more than the beams walked   *)
(* over.                                                                   *)
THEOREM ParticleTypeOK == Spec => []TypeOK
<1>1. Typed => TypeOK
  <2> SUFFICES ASSUME Typed PROVE TypeOK
    OBVIOUS
  <2>1. map \in Maps /\ Cells = DOMAIN map.data
    BY FieldOf DEF Typed, FieldInv
  <2>2. free_cells \subseteq (0 .. map.width - 1) \X (0 .. map.height - 1)
    <3>1. \A k \in DOMAIN map.data :
            X(map, k) \in 0 .. map.width - 1 /\ Y(map, k) \in 0 .. map.height - 1
      BY <2>1, GridOf
    <3> QED BY <3>1 DEF Typed, FieldInv, Listed, UpTo
  <2>3. FieldTypeOK
    BY <2>1, <2>2 DEF Typed, FieldInv, FieldTypeOK
  <2>4. \A k \in DOMAIN walk.order : walk.order[k] \in Beam
    BY DEF Typed
  <2> QED BY <2>3, <2>4 DEF Typed, Steady, TypeOK, PoseType
<1> QED BY <1>1, ParticleInvariant, PTL

(* For every map and range, unknown cells included: when                   *)
(* LikelihoodFieldMap's constructor returns, every cell holds the weight   *)
(* of its distance to the nearest wall, however many setLikelihood() calls *)
(* have written it, and likelihood() of a point is that of its cell, or 0  *)
(* off the map.                                                            *)
THEOREM ParticleFieldIsOfNearestWall == Spec => []FieldIsOfNearestWall
<1>1. Typed => FieldIsOfNearestWall
  BY FieldIsRight DEF Typed, FieldIsOfNearestWall
<1> QED BY <1>1, ParticleInvariant, PTL

(* The poses that drawFreePoses() returns, for the expansion and global    *)
(* resets, are in free cells, never in a wall or in an unknown one, and no *)
(* two of them in one cell.                                                *)
THEOREM ParticleScatterIsFree == Spec => []ScatterIsFree
<1>1. Typed => ScatterIsFree
  BY DrawnIsRight DEF Typed, ScatterIsFree
<1> QED BY <1>1, ParticleInvariant, PTL

-----------------------------------------------------------------------------
(* The walk finds a conflict in the step of a valid beam that makes the    *)
(* counter reach the threshold.                                            *)
LEMMA FinishingStep ==
    ASSUME Typed, Next, Finishing
    PROVE  \E i \in Beam, r \in Ranges :
             /\ Valid(r) /\ Judge(i, r) /\ ranges' = [ranges EXCEPT ![i] = r]
             /\ hit_counter' >= walk.threshold
<1>1. NextBeam
  <2>1. ~(WallConflict \/ NoConflict)
    BY DEF Finishing, WallConflict, NoConflict
  <2>2. ~ UNCHANGED walkVars
    BY DEF Finishing, walkVars
  <2> QED BY <2>1, <2>2 DEF Next
<1> DEFINE i == walk.order[at + 1]
<1>2. at + 1 \in 1 .. Len(walk.order)
  <2>1. Len(walk.order) \in Nat
    BY LenProperties DEF Typed
  <2> QED BY <1>1, <2>1 DEF NextBeam, Typed
<1>3. i \in Beam
  BY <1>2, ElementOfSeq DEF Typed
<1>4. PICK r \in Ranges :
          /\ ranges' = [ranges EXCEPT ![i] = r]
          /\ IF Valid(r) THEN Judge(i, r)
             ELSE UNCHANGED <<pose, hit_counter, first, last, verdict>>
  BY <1>1 DEF NextBeam
<1>5. Valid(r) /\ Judge(i, r)
  BY <1>4 DEF Finishing
<1> HIDE DEF i
<1>6. hit_counter' >= walk.threshold
  BY <1>3, <1>5, JudgeFacts DEF Finishing
<1> QED BY <1>3, <1>4, <1>5, <1>6

(* A likelihood fits a byte, off the map too.                              *)
LEMMA FieldType ==
    ASSUME FieldInv, NEW q \in Point PROVE FieldAt(q) \in 0 .. 255
<1> DEFINE a == q[1]
           b == q[2]
           k == Col(a) + Col(b) * map.width
<1>1. a \in Int /\ b \in Int /\ FieldAt(q) = LikelihoodAt(a, b)
  BY DEF Point, FieldAt
<1>2. LikelihoodAt(a, b) = IF Inside(a, b) THEN likelihoods[k] ELSE 0
  <2> HIDE DEF a, b
  <2> QED BY <1>1, LikelihoodOfPoint
<1>3. CASE Inside(a, b)
  <2>1. k \in DOMAIN map.data
    BY <1>3, GridOf DEF Inside, FieldInv
  <2> HIDE DEF k
  <2>2. likelihoods[k] \in 0 .. 255
    BY <2>1 DEF FieldInv
  <2> QED BY <1>1, <1>2, <1>3, <2>2
<1>4. CASE ~Inside(a, b)
  BY <1>1, <1>2, <1>4
<1> QED BY <1>3, <1>4

(* The beam that makes the counter reach the threshold penetrates, so that *)
(* with the endpoint check it ends on no wall; its term of the sum is less *)
(* than 255 and no term is more.                                           *)
LEMMA FinishingIsNoFit ==
    ASSUME Typed, Next, Finishing, walk.endpoint_check, walk.threshold > 0
    PROVE  Likelihood(pose, ranges', ReadBeams(ranges')) < 255 * Cardinality(ReadBeams(ranges'))
<1>1. PICK i \in Beam, r \in Ranges :
             /\ Valid(r) /\ Judge(i, r) /\ ranges' = [ranges EXCEPT ![i] = r]
             /\ hit_counter' >= walk.threshold
  BY FinishingStep
<1> DEFINE S == ReadBeams(ranges')
           rs == ranges'
           f == [j \in S |-> FieldAt(EndPoint(pose, j, rs[j]))]
           g == [j \in S |-> 255]
<1>2. rs \in [Beam -> Ranges \cup {Unread}] /\ rs[i] = r
  BY <1>1 DEF Typed
<1>3. S \subseteq Beam /\ i \in S /\ \A j \in S : rs[j] \in Nat
  <2>1. \A j \in S : j \in Beam /\ rs[j] \in Ranges /\ Valid(rs[j])
    BY <1>2 DEF ReadBeams
  <2>2. i \in S
    BY <1>1, <1>2, BeamFacts DEF ReadBeams
  <2> HIDE DEF S, rs
  <2> QED BY <2>1, <2>2, BeamFacts
<1>4. IsFiniteSet(S)
  <2>1. IsFiniteSet(Beam)
    BY BeamsAssumption, FS_Interval DEF Beam
  <2> HIDE DEF S
  <2> QED BY <1>3, <2>1, FS_Subset
<1>5. \A j \in S : FieldAt(EndPoint(pose, j, rs[j])) \in 0 .. 255
  <2> HIDE DEF S, rs
  <2> TAKE j \in S
  <2>1. j \in Int /\ rs[j] \in Int /\ pose \in PoseType
    BY <1>3, BeamFacts DEF Typed, Steady
  <2>2. EndPoint(pose, j, rs[j]) \in Point
    BY <2>1, PointType DEF EndPoint
  <2> QED BY <2>2, FieldType DEF Typed
<1>6. FieldAt(EndPoint(pose, i, r)) # 255
  <2>1. hit_counter' = Counted(Through(i, r)) /\ hit_counter' > 0
    <3>1. hit_counter' \in Nat /\ walk.threshold \in Nat
      BY <1>1, JudgeType DEF Typed
    <3> QED BY <1>1, <3>1, JudgeFacts
  <2>2. Through(i, r)
    BY <2>1 DEF Counted
  <2> QED BY <2>2 DEF Through, IsPenetrating, EndPoint
<1>7. Likelihood(pose, rs, S) = SumFunctionOnSet(f, S)
  BY Zenon DEF Likelihood
<1>8. SumFunctionOnSet(g, S) = Cardinality(S) * 255
  <2>1. 255 \in Int
    OBVIOUS
  <2> HIDE DEF S
  <2> QED BY <1>4, <2>1, SumConstant, Zenon
<1>9. \A j \in S : f[j] \in Int /\ g[j] \in Int /\ f[j] <= g[j]
  <2> HIDE DEF S, rs
  <2> QED BY <1>5
<1>10. f[i] < g[i]
  <2>1. f[i] = FieldAt(EndPoint(pose, i, r)) /\ g[i] = 255 /\ f[i] \in 0 .. 255
    <3> HIDE DEF S, rs
    <3> QED BY <1>2, <1>3, <1>5
  <2> QED BY <1>6, <2>1
<1>11. SumFunctionOnSet(f, S) < SumFunctionOnSet(g, S)
  <2> HIDE DEF f, g, S
  <2> QED BY <1>3, <1>4, <1>9, <1>10, SumIsMonotone
<1>12. Cardinality(S) \in Nat
  <2> HIDE DEF S
  <2> QED BY <1>4, FS_CardinalityType
<1> HIDE DEF f, g, S, rs
<1>13. Likelihood(pose, rs, S) < 255 * Cardinality(S)
  BY <1>7, <1>8, <1>11, <1>12
<1> QED BY <1>13 DEF S, rs

(* With the robustness to phantom obstacles on and a threshold above zero, *)
(* wallConflict() never judges a pose wrong that puts every valid beam     *)
(* read on a mapped wall, and so has the highest likelihood there is: for  *)
(* every map, pose and scan.                                               *)
THEOREM ParticlePerfectFitIsKept == Spec => PerfectFitIsKept
<1> DEFINE A == Finishing /\ walk.endpoint_check /\ walk.threshold > 0 =>
        Likelihood(pose, ranges', ReadBeams(ranges')) < 255 * Cardinality(ReadBeams(ranges'))
<1>1. Typed /\ [Next]_vars => [A]_vars
  BY FinishingIsNoFit
<1> QED BY <1>1, ParticleInvariant, PTL DEF Spec, PerfectFitIsKept

(* Moving two points by half the sum of what they miss, cut off to an      *)
(* integer, never takes them further from where they should be, taken      *)
(* together: with g the sum and b the move, 2b is within one of g, so that *)
(* b * b <= b * g.                                                         *)
LEMMA HalfwayIsNearer ==
    ASSUME NEW e1 \in Int, NEW e2 \in Int, NEW h1 \in Int, NEW h2 \in Int, NEW b \in Int,
           b = (e1 + e2) \div 2 - (h1 + h2) \div 2
    PROVE  (e1 + (-b) - h1) * (e1 + (-b) - h1) + (e2 + (-b) - h2) * (e2 + (-b) - h2)
             <= (e1 + 0 - h1) * (e1 + 0 - h1) + (e2 + 0 - h2) * (e2 + 0 - h2)
<1> DEFINE x == e1 - h1
           y == e2 - h2
           g == x + y
<1>1. x \in Int /\ y \in Int /\ g \in Int
  OBVIOUS
<1>2. 2 * b - g <= 1 /\ g - 2 * b <= 1
  <2> DEFINE s == e1 + e2
             t == h1 + h2
             p == s \div 2
             q == t \div 2
  <2>1. s \in Int /\ t \in Int /\ g = s - t /\ b = p - q
    OBVIOUS
  <2> HIDE DEF s, t, g
  <2>2. p \in Int /\ q \in Int /\ s - 2 * p \in {0, 1} /\ t - 2 * q \in {0, 1}
    <3>1. s % 2 \in 0 .. 1 /\ p \in Int /\ s = 2 * p + (s % 2)
      BY <2>1, Division
    <3>2. t % 2 \in 0 .. 1 /\ q \in Int /\ t = 2 * q + (t % 2)
      BY <2>1, Division
    <3> QED BY <2>1, <3>1, <3>2
  <2> HIDE DEF p, q
  <2> QED BY <2>1, <2>2
<1> HIDE DEF g
<1>3. b * b <= b * g
  <2>1. CASE b = 0
    BY <1>1, <2>1
  <2>2. CASE b > 0
    <3>1. b <= g /\ b \in Nat
      BY <1>1, <1>2, <2>2
    <3>2. b * b <= g * b
      BY <1>1, <3>1, TimesIsMonotone
    <3> QED BY <1>1, <3>2
  <2>3. CASE b < 0
    <3> DEFINE c == -b
               z == -g
    <3>1. c <= z /\ c \in Nat /\ z \in Int
      BY <1>1, <1>2, <2>3
    <3>2. c * c <= z * c
      <4> HIDE DEF c, z
      <4> QED BY <3>1, TimesIsMonotone
    <3>3. c * c = b * b /\ z * c = b * g
      BY <1>1
    <3> QED BY <3>2, <3>3
  <2> QED BY <2>1, <2>2, <2>3
<1>4. e1 + (-b) - h1 = x - b /\ e2 + (-b) - h2 = y - b /\ e1 + 0 - h1 = x /\ e2 + 0 - h2 = y
  OBVIOUS
<1> SUFFICES (x - b) * (x - b) + (y - b) * (y - b) <= x * x + y * y
  BY <1>4
<1>5. g = x + y
  BY DEF g
<1> HIDE DEF x, y
<1>6. (x - b) * (x - b) + (y - b) * (y - b) = x * x + y * y + 2 * (b * b - b * g)
  BY <1>1, <1>5
<1>7. b * b \in Int /\ b * g \in Int /\ x * x + y * y \in Int
  BY <1>1
<1> QED BY <1>3, <1>6, <1>7

-----------------------------------------------------------------------------
(* The squares that the property sums, coordinate by coordinate.           *)
LEMMA MismatchOf ==
    ASSUME Typed, NEW i \in Beam, NEW r \in Ranges, Valid(r), Judge(i, r),
           NEW u \in Int, NEW v \in Int
    PROVE  LET f == End(LidarAt(pose), first')
               l == End(LidarAt(pose), last')
               g == first'.hit
               h == last'.hit
           IN  /\ f[1] \in Int /\ f[2] \in Int /\ l[1] \in Int /\ l[2] \in Int
               /\ g[1] \in Int /\ g[2] \in Int /\ h[1] \in Int /\ h[2] \in Int
               /\ Mismatch(<<u, v>>) =
                    ((f[1] + u - g[1]) * (f[1] + u - g[1])
                     + (f[2] + v - g[2]) * (f[2] + v - g[2]))
                    + ((l[1] + u - h[1]) * (l[1] + u - h[1])
                       + (l[2] + v - h[2]) * (l[2] + v - h[2]))
<1>1. first' \in BeamType /\ last' \in BeamType /\ pose \in PoseType
  BY JudgeFacts DEF Typed, Steady
<1>2. LidarAt(pose) \in Point
  BY <1>1, PointType
<1>3. End(LidarAt(pose), first') \in Point /\ End(LidarAt(pose), last') \in Point
      /\ first'.hit \in Point /\ last'.hit \in Point
  BY <1>1, <1>2, PointType DEF End, BeamType
<1> DEFINE f == End(LidarAt(pose), first')
           l == End(LidarAt(pose), last')
           g == first'.hit
           h == last'.hit
<1>4. Mismatch(<<u, v>>) =
                    ((f[1] + u - g[1]) * (f[1] + u - g[1])
                     + (f[2] + v - g[2]) * (f[2] + v - g[2]))
                    + ((l[1] + u - h[1]) * (l[1] + u - h[1])
                       + (l[2] + v - h[2]) * (l[2] + v - h[2]))
  BY DEF Mismatch, Gap
<1>5. /\ f[1] \in Int /\ f[2] \in Int /\ l[1] \in Int /\ l[2] \in Int
      /\ g[1] \in Int /\ g[2] \in Int /\ h[1] \in Int /\ h[2] \in Int
  BY <1>3 DEF Point
<1> QED BY <1>4, <1>5

(* sensorReset() moves by what Beyond says, which is half the sum of the   *)
(* misses of the two beams; it is all of it if the two are one.            *)
LEMMA FinishingDrags ==
    ASSUME Typed, Next, Finishing, SensorReset
    PROVE  LET move == <<pose'.x - pose.x, pose'.y - pose.y>>
           IN  /\ Mismatch(move) <= Mismatch(<<0, 0>>)
               /\ hit_counter' = 1 => Mismatch(move) = 0
<1>1. PICK i \in Beam, r \in Ranges :
             /\ Valid(r) /\ Judge(i, r) /\ ranges' = [ranges EXCEPT ![i] = r]
             /\ hit_counter' >= walk.threshold
  BY FinishingStep
<1> DEFINE o == LidarAt(pose)
           b1 == first'
           b2 == last'
           u == Beyond(o, b1, b2)[1]
           v == Beyond(o, b1, b2)[2]
           f1 == End(o, b1)[1]
           f2 == End(o, b1)[2]
           l1 == End(o, b2)[1]
           l2 == End(o, b2)[2]
           g1 == b1.hit[1]
           g2 == b1.hit[2]
           h1 == b2.hit[1]
           h2 == b2.hit[2]
<1>2. b1 \in BeamType /\ b2 \in BeamType /\ pose \in PoseType
  BY <1>1, JudgeFacts DEF Typed, Steady
<1>3. PICK t \in Turn : pose' = [DraggedBack(pose, b1, b2) EXCEPT !.t = t]
  BY <1>1, JudgeFacts
<1>4. u \in Int /\ v \in Int
  BY <1>2, DraggedType
<1>5. pose'.x - pose.x = -u /\ pose'.y - pose.y = -v
  <2> DEFINE x == pose.x - u
             y == pose.y - v
  <2>1. pose' = Put(pose, x, y, t)
    BY <1>3 DEF DraggedBack, Put
  <2>2. pose.x \in Int /\ pose.y \in Int
    BY <1>2 DEF PoseType
  <2> HIDE DEF u, v
  <2>3. x \in Int /\ y \in Int
    BY <1>4, <2>2
  <2>4. pose'.x = x /\ pose'.y = y
    <3> HIDE DEF x, y
    <3> QED BY <1>2, <2>1, <2>3, PutType
  <2> QED BY <1>4, <2>2, <2>4
<1>6. u = (f1 + l1) \div 2 - (g1 + h1) \div 2 /\ v = (f2 + l2) \div 2 - (g2 + h2) \div 2
  BY DEF Beyond
<1> DEFINE sq(z) == z * z
           mis(a, b) == (sq(f1 + a - g1) + sq(f2 + b - g2))
                        + (sq(l1 + a - h1) + sq(l2 + b - h2))
<1>7. /\ f1 \in Int /\ f2 \in Int /\ l1 \in Int /\ l2 \in Int
      /\ g1 \in Int /\ g2 \in Int /\ h1 \in Int /\ h2 \in Int
  BY <1>1, <1>4, MismatchOf
<1>8. Mismatch(<<-u, -v>>) = mis(-u, -v) /\ Mismatch(<<0, 0>>) = mis(0, 0)
  <2>1. -u \in Int /\ -v \in Int /\ 0 \in Int
    BY <1>4
  <2> HIDE DEF u, v
  <2> QED BY <1>1, <2>1, MismatchOf
<1>9. hit_counter' = 1 => f1 = l1 /\ f2 = l2 /\ g1 = h1 /\ g2 = h2
  <2>1. hit_counter' = 1 => b1 = b2
    BY <1>1, JudgeFacts
  <2> QED BY <2>1, Zenon
<1> HIDE DEF o, b1, b2, u, v, f1, f2, l1, l2, g1, g2, h1, h2
<1>10. mis(-u, -v) <= mis(0, 0)
  <2>1. sq(f1 + (-u) - g1) + sq(l1 + (-u) - h1) <= sq(f1 + 0 - g1) + sq(l1 + 0 - h1)
    BY <1>4, <1>6, <1>7, HalfwayIsNearer
  <2>2. sq(f2 + (-v) - g2) + sq(l2 + (-v) - h2) <= sq(f2 + 0 - g2) + sq(l2 + 0 - h2)
    BY <1>4, <1>6, <1>7, HalfwayIsNearer
  <2>3. \A z \in Int : sq(z) \in Int
    OBVIOUS
  <2>4. /\ sq(f1 + (-u) - g1) \in Int /\ sq(l1 + (-u) - h1) \in Int
        /\ sq(f2 + (-v) - g2) \in Int /\ sq(l2 + (-v) - h2) \in Int
        /\ sq(f1 + 0 - g1) \in Int /\ sq(l1 + 0 - h1) \in Int
        /\ sq(f2 + 0 - g2) \in Int /\ sq(l2 + 0 - h2) \in Int
    BY <1>4, <1>7, <2>3
  <2> HIDE DEF sq
  <2> QED BY <2>1, <2>2, <2>4
<1>11. ASSUME hit_counter' = 1 PROVE mis(-u, -v) = 0
  <2>1. \A e, h \in Int : (e + e) \div 2 - (h + h) \div 2 = e - h
    OBVIOUS
  <2>2. u = f1 - g1 /\ v = f2 - g2
    BY <1>6, <1>7, <1>9, <1>11, <2>1
  <2>3. f1 + (-u) - g1 = 0 /\ f2 + (-v) - g2 = 0 /\ l1 + (-u) - h1 = 0 /\ l2 + (-v) - h2 = 0
    BY <1>7, <1>9, <1>11, <2>2
  <2> QED BY <2>3
<1>12. Mismatch(<<-u, -v>>) <= Mismatch(<<0, 0>>)
       /\ (hit_counter' = 1 => Mismatch(<<-u, -v>>) = 0)
  <2> HIDE DEF mis
  <2> QED BY <1>8, <1>10, <1>11
<1> QED BY <1>5, <1>12, Zenon

(* For every map, pose, scan and threshold: sensorReset() never takes the  *)
(* ends of the first and the last beam of the run further from the walls   *)
(* they crossed, taken together, and puts the end of a single beam on its  *)
(* wall.                                                                   *)
THEOREM ParticleDragImproves == Spec => DragImproves
<1> DEFINE A == Finishing /\ SensorReset /\ hit_counter' > 0 =>
        LET move == <<pose'.x - pose.x, pose'.y - pose.y>> IN
        /\ Mismatch(move) <= Mismatch(<<0, 0>>)
        /\ hit_counter' = 1 => Mismatch(move) = 0
<1>1. Typed /\ [Next]_vars => [A]_vars
  <2> SUFFICES ASSUME Typed, Next PROVE A
    OBVIOUS
  <2> QED BY FinishingDrags, Zenon
<1> QED BY <1>1, ParticleInvariant, PTL DEF Spec, DragImproves

-----------------------------------------------------------------------------
(* A likelihood_range of no more cells than a byte has values.  With a     *)
(* longer one the weight 255 * (cell_num - i) / cell_num, cut off to a     *)
(* byte, is 0 before the reach, and isPenetrating() takes cells for open   *)
(* that are within it.                                                     *)
ByteRange == \A m \in Maps : m.range <= 255 * Resolution

(* Then so is the reach.                                                   *)
LEMMA ReachInByte == ByteRange => \A m \in Maps : Reach(m) <= 255
<1> SUFFICES ASSUME ByteRange, NEW m \in Maps PROVE Reach(m) <= 255
  OBVIOUS
<1> DEFINE r == Resolution
           z == m.range + r - 1
           q == z \div r
<1>1. r \in Nat \ {0} /\ m.range \in Nat /\ m.range <= 255 * r
  BY MapFacts, ResolutionAssumption DEF ByteRange
<1>2. Reach(m) = Longer(1, q)
  BY DEF Reach
<1> HIDE DEF r
<1>3. z \in Nat /\ z < 256 * r
  BY <1>1
<1> HIDE DEF z
<1>4. q \in Nat /\ z % r \in 0 .. r - 1 /\ z = q * r + (z % r)
  BY <1>1, <1>3, DivisionOfNat
<1> HIDE DEF q
<1>5. q <= 255
  <2> SUFFICES ASSUME 256 <= q PROVE FALSE
    BY <1>4
  <2>1. 256 * r <= q * r
    BY <1>1, <1>4, TimesIsMonotone
  <2>2. q * r \in Int
    BY <1>1, <1>4
  <2> QED BY <1>1, <1>3, <1>4, <2>1, <2>2
<1> QED BY <1>2, <1>4, <1>5 DEF Longer

(* The last round has gone over every cell.                                *)
LEMMA AllGoneOver == \A m \in Maps : UpTo(m, m.width * m.height) = DOMAIN m.data
<1> SUFFICES ASSUME NEW m \in Maps, NEW k \in DOMAIN m.data
             PROVE  X(m, k) * m.height + Y(m, k) < m.width * m.height
  BY DEF UpTo
<1> DEFINE x == X(m, k)
           y == Y(m, k)
           w == m.width
           h == m.height
<1>1. x \in 0 .. w - 1 /\ y \in 0 .. h - 1 /\ w \in Nat \ {0} /\ h \in Nat \ {0}
  BY GridOf, MapFacts
<1> HIDE DEF x, y, w, h
<1>2. (x + 1) * h <= w * h
  BY <1>1, TimesIsMonotone
<1>3. (x + 1) * h = x * h + h /\ x * h \in Int /\ w * h \in Int
  BY <1>1
<1>4. x * h + y < w * h
  BY <1>1, <1>2, <1>3
<1> QED BY <1>4 DEF x, y, w, h

(* The finished field tells walls and open cells: 255 is on a wall and     *)
(* nowhere else, 0 out of reach of all of them and nowhere else.           *)
LEMMA FieldTells ==
    ASSUME FieldInv, Built, ByteRange, NEW q \in Point
    PROVE  (FieldAt(q) = 255 <=> WallAt(q)) /\ (FieldAt(q) = 0 <=> OpenAt(q))
<1> DEFINE a == q[1]
           b == q[2]
           k == Col(a) + Col(b) * map.width
           v == likelihoods[k]
           S == Walls(map, visited)
<1>1. a \in Int /\ b \in Int /\ FieldAt(q) = IF Inside(a, b) THEN v ELSE 0
  <2>1. a \in Int /\ b \in Int /\ FieldAt(q) = LikelihoodAt(a, b)
    BY DEF Point, FieldAt
  <2>2. LikelihoodAt(a, b) = IF Inside(a, b) THEN v ELSE 0
    <3> HIDE DEF a, b
    <3> QED BY <2>1, LikelihoodOfPoint
  <2> QED BY <2>1, <2>2
<1>2. /\ map \in Maps /\ Cells = DOMAIN map.data /\ CellNum = Reach(map)
      /\ \A l : CellX(l) = X(map, l) /\ CellY(l) = Y(map, l)
  BY FieldOf DEF FieldInv
<1>3. CellsAt(q) = {l \in DOMAIN map.data : X(map, l) = Col(a) /\ Y(map, l) = Col(b)}
  BY <1>2 DEF CellsAt, Col
<1>4. CASE ~Inside(a, b)
  <2>1. CellsAt(q) = {}
    <3> HIDE DEF a, b
    <3> QED BY <1>2, <1>3, <1>4, GridOf DEF Inside
  <2>2. ~WallAt(q) /\ OpenAt(q)
    BY <2>1 DEF WallAt, OpenAt
  <2>3. FieldAt(q) = 0
    BY <1>1, <1>4
  <2> QED BY <2>2, <2>3
<1>5. CASE Inside(a, b)
  <2>1. k \in DOMAIN map.data /\ X(map, k) = Col(a) /\ Y(map, k) = Col(b)
    <3> HIDE DEF a, b
    <3> QED BY <1>2, <1>5, GridOf DEF Inside
  <2>2. CellsAt(q) = {k}
    <3> HIDE DEF a, b
    <3>1. \A l \in DOMAIN map.data : X(map, l) = Col(a) /\ Y(map, l) = Col(b) => l = k
      BY <1>2, GridOf
    <3> HIDE DEF k
    <3> QED BY <1>3, <2>1, <3>1
  <2> HIDE DEF a, b, k
  <2>3. S = {l \in DOMAIN map.data : Occupied(map.data[l])}
    BY <1>2, AllGoneOver DEF Built, Walls
  <2>4. Nearest(map, k, v, S)
    BY <2>1 DEF FieldInv
  <2>5. FieldAt(q) = v
    BY <1>1, <1>5
  <2>6. v \in 0 .. 255
    BY <2>4 DEF Nearest
  <2>7. WallAt(q) <=> k \in S
    BY <2>1, <2>2, <2>3 DEF WallAt
  <2>8. OpenAt(q) <=> \A l \in S : King(map, k, l) >= Reach(map)
    <3>1. \A l \in DOMAIN map.data : KingSteps(k, l) = King(map, k, l)
      BY <1>2, <2>1, KingIsKingSteps
    <3> QED BY <1>2, <2>2, <2>3, <3>1 DEF OpenAt
  <2> HIDE DEF S, v
  <2>9. \A l \in S : l \in DOMAIN map.data /\ King(map, k, l) \in Nat
                     /\ (King(map, k, l) = 0 <=> k = l)
    BY <1>2, <2>1, <2>3, KingOf
  <2>10. Reach(map) \in Nat \ {0}
    BY <1>2, WeightsFall
  <2>11. ASSUME k \in S PROVE v = 255
    <3>1. King(map, k, k) = 0
      BY <2>9, <2>11
    <3>2. Weight(map, 0) <= v /\ Weight(map, 0) = 255
      <4>1. King(map, k, k) <= Reach(map)
        BY <2>10, <3>1
      <4>2. Weight(map, King(map, k, k)) <= v
        BY <2>4, <2>11, <4>1 DEF Nearest
      <4> QED BY <1>2, <3>1, <4>2, WeightsFall
    <3> QED BY <2>6, <3>2
  <2>12. ASSUME v # 0
         PROVE  \E l \in S : /\ King(map, k, l) \in 0 .. Reach(map)
                             /\ v = Weight(map, King(map, k, l))
    BY <2>4, <2>9, <2>10, <2>12 DEF Nearest
  <2>13. ASSUME v = 255 PROVE k \in S
    <3>1. PICK l \in S : King(map, k, l) \in 0 .. Reach(map) /\ v = Weight(map, King(map, k, l))
      BY <2>12, <2>13
    <3>2. King(map, k, l) = 0
      <4> DEFINE d == King(map, k, l)
      <4> SUFFICES ASSUME d # 0 PROVE FALSE
        OBVIOUS
      <4>1. d \in 1 .. Reach(map)
        BY <2>10, <3>1
      <4>2. v = Weight(map, d)
        BY <3>1
      <4> HIDE DEF d
      <4>3. Weight(map, d) < 255
        BY <1>2, <4>1, WeightsFall
      <4> QED BY <2>13, <4>2, <4>3
    <3> QED BY <2>9, <3>2
  <2>14. ASSUME v = 0, NEW l \in S PROVE King(map, k, l) >= Reach(map)
    <3> DEFINE d == King(map, k, l)
    <3> SUFFICES ASSUME ~(d >= Reach(map)) PROVE FALSE
      OBVIOUS
    <3>1. d \in 0 .. Reach(map) - 1 /\ d <= Reach(map)
      BY <2>9, <2>10
    <3>2. Weight(map, d) <= v
      BY <2>4, <3>1 DEF Nearest
    <3>3. Weight(map, d) > 0 /\ Weight(map, d) \in 0 .. 255
      <4> HIDE DEF d
      <4>1. d \in 0 .. Reach(map)
        BY <2>10, <3>1
      <4> QED BY <1>2, <3>1, <4>1, WeightsFall, ReachInByte
    <3> HIDE DEF d
    <3> QED BY <2>14, <3>2, <3>3
  <2>15. ASSUME v # 0, \A l \in S : King(map, k, l) >= Reach(map) PROVE FALSE
    <3>1. PICK l \in S : King(map, k, l) \in 0 .. Reach(map) /\ v = Weight(map, King(map, k, l))
      BY <2>12, <2>15
    <3>2. King(map, k, l) = Reach(map)
      BY <2>10, <2>15, <3>1
    <3>3. v = 0
      BY <1>2, <3>1, <3>2, WeightsFall
    <3> QED BY <2>15, <3>3
  <2> QED BY <2>5, <2>7, <2>8, <2>11, <2>13, <2>14, <2>15
<1> QED BY <1>4, <1>5

(* The points isPenetrating() looks at are multiples of the resolution.    *)
LEMMA StepsAre ==
    ASSUME NEW r \in Nat, NEW d
    PROVE  d \in Steps(r) <=> \E n \in 1 .. r : d = n * Resolution /\ n * Resolution < r
<1>1. Resolution \in Nat \ {0}
  BY ResolutionAssumption
<1>2. ASSUME d \in Steps(r)
      PROVE  \E n \in 1 .. r : d = n * Resolution /\ n * Resolution < r
  <2>1. d \in Nat /\ d < r /\ d # 0 /\ d % Resolution = 0
    BY <1>2 DEF Steps
  <2> DEFINE c == Resolution
             n == d \div c
  <2>2. n \in Nat /\ d = n * c
    <3> HIDE DEF c
    <3>1. n \in Nat /\ d = n * c + (d % c) /\ d % c \in 0 .. c - 1
      BY <1>1, <2>1, DivisionOfNat DEF c
    <3>2. n * c \in Int /\ d % c = 0
      BY <1>1, <2>1, <3>1 DEF c
    <3> HIDE DEF n
    <3> QED BY <3>1, <3>2
  <2> HIDE DEF n
  <2>3. n >= 1
    <3>1. n # 0
      BY <1>1, <2>1, <2>2
    <3> QED BY <2>2, <3>1
  <2>4. n * 1 <= n * c
    BY <1>1, <2>2
  <2>5. n <= r
    BY <1>1, <2>1, <2>2, <2>4
  <2> QED BY <2>1, <2>2, <2>3, <2>5
<1>3. ASSUME NEW n \in 1 .. r, d = n * Resolution, n * Resolution < r
      PROVE  d \in Steps(r)
  <2> DEFINE c == Resolution
  <2>1. c \in Nat \ {0} /\ n \in Nat \ {0} /\ d = n * c /\ n * c < r
    BY <1>1, <1>3
  <2> HIDE DEF c
  <2>2. n * c + 0 = n * c /\ n * c \in Nat /\ n * c >= 1
    BY <2>1
  <2>3. (n * c + 0) % c = 0
    BY <2>1, DivisionIsUnique
  <2>4. d % c = 0
    BY <2>1, <2>2, <2>3
  <2> QED BY <2>1, <2>2, <2>4 DEF Steps, c
<1> QED BY <1>2, <1>3

(* A wall point and an open one after it are a wall and a way out.         *)
LEMMA OpenAfterHitIsCrossing ==
    ASSUME FieldInv, Built, ByteRange, NEW o \in Point, NEW r \in Nat, NEW a \in Turn
    PROVE  OpenAfterHit(o, r, a) <=> Crosses(o, r, a)
<1>1. \A d \in Int : PointAt(o, d, a) \in Point
  BY PointType
<1>2. \A d \in Int : /\ FieldAt(PointAt(o, d, a)) = 255 <=> WallAt(PointAt(o, d, a))
                     /\ FieldAt(PointAt(o, d, a)) = 0 <=> OpenAt(PointAt(o, d, a))
  BY <1>1, FieldTells
<1>3. Steps(r) \in SUBSET Nat /\ Hits(o, r, a) \in SUBSET Nat
  BY DEF Steps, Hits
<1>4. Resolution \in Nat \ {0}
  BY ResolutionAssumption
<1>5. ASSUME OpenAfterHit(o, r, a) PROVE Crosses(o, r, a)
  <2> DEFINE d == Min(Hits(o, r, a))
  <2>1. d \in Hits(o, r, a)
    BY <1>3, <1>5, MinIsLeast DEF OpenAfterHit
  <2>2. PICK e \in Steps(r) : e > d /\ FieldAt(PointAt(o, e, a)) = 0
    BY <1>5 DEF OpenAfterHit
  <2>3. d \in Steps(r) /\ FieldAt(PointAt(o, d, a)) = 255
    BY <2>1 DEF Hits
  <2> HIDE DEF d
  <2>4. PICK m \in 1 .. r : d = m * Resolution /\ m * Resolution < r
    BY <2>3, StepsAre
  <2>5. PICK n \in 1 .. r : e = n * Resolution /\ n * Resolution < r
    BY <2>2, StepsAre
  <2>6. m < n
    <3> SUFFICES ASSUME n <= m PROVE FALSE
      OBVIOUS
    <3>1. n * Resolution <= m * Resolution
      BY <1>4, TimesIsMonotone
    <3> QED BY <1>3, <2>2, <2>3, <2>4, <2>5, <3>1
  <2>7. WallAt(PointAt(o, m * Resolution, a)) /\ OpenAt(PointAt(o, n * Resolution, a))
    <3>1. d \in Int /\ e \in Int
      BY <1>3, <2>2, <2>3
    <3> QED BY <1>2, <2>2, <2>3, <2>4, <2>5, <3>1
  <2> QED BY <2>4, <2>5, <2>6, <2>7 DEF Crosses
<1>6. ASSUME Crosses(o, r, a) PROVE OpenAfterHit(o, r, a)
  <2>1. PICK m \in 1 .. r, n \in 1 .. r :
          /\ m < n /\ n * Resolution < r
          /\ WallAt(PointAt(o, m * Resolution, a)) /\ OpenAt(PointAt(o, n * Resolution, a))
    BY <1>6 DEF Crosses
  <2> DEFINE d == m * Resolution
             e == n * Resolution
  <2>2. d \in Int /\ e \in Int /\ d < e /\ e < r
    <3>1. (m + 1) * Resolution <= n * Resolution
      BY <1>4, <2>1, TimesIsMonotone
    <3>2. (m + 1) * Resolution = m * Resolution + Resolution
          /\ m * Resolution \in Int /\ n * Resolution \in Int
      BY <1>4
    <3> QED BY <1>4, <2>1, <3>1, <3>2
  <2>3. d \in Steps(r) /\ e \in Steps(r)
    <3>1. d < r
      BY <2>2
    <3> QED BY <2>1, <2>2, <3>1, StepsAre
  <2>4. FieldAt(PointAt(o, d, a)) = 255 /\ FieldAt(PointAt(o, e, a)) = 0
    BY <1>2, <2>1, <2>2
  <2> HIDE DEF d, e
  <2>5. d \in Hits(o, r, a)
    BY <2>3, <2>4 DEF Hits
  <2>6. Min(Hits(o, r, a)) \in Nat /\ Min(Hits(o, r, a)) <= d
    BY <1>3, <2>5, MinIsLeast
  <2>7. e > Min(Hits(o, r, a))
    BY <2>2, <2>6
  <2> QED BY <2>3, <2>4, <2>5, <2>7 DEF OpenAfterHit
<1> QED BY <1>5, <1>6

(* For every map, pose, range and direction: isPenetrating() says yes to   *)
(* the beams that cross a wall of the map and come out in the open before  *)
(* their measured range, and to no others; with the endpoint check, to     *)
(* those that do not end on a wall.                                        *)
THEOREM ParticlePenetrationIsCrossing ==
    ASSUME ByteRange PROVE Spec => []PenetrationIsCrossing
<1>1. Typed => PenetrationIsCrossing
  <2> SUFFICES ASSUME Typed, Built, NEW r \in 1 .. RangeMax, NEW a \in Turn,
                      NEW endpoint_check \in BOOLEAN
               PROVE  LET o == LidarAt(pose) IN
                      IsPenetrating(o, r, a, endpoint_check) =
                        (Crosses(o, r, a)
                         /\ (endpoint_check => ~WallAt(PointAt(o, r, a))))
    BY Zenon DEF PenetrationIsCrossing
  <2> DEFINE o == LidarAt(pose)
  <2>1. o \in Point /\ r \in Nat /\ FieldInv
    BY PointType DEF Typed, Steady
  <2> HIDE DEF o
  <2>2. OpenAfterHit(o, r, a) <=> Crosses(o, r, a)
    BY <2>1, OpenAfterHitIsCrossing
  <2>3. PointAt(o, r, a) \in Point
    BY <2>1, PointType
  <2>4. FieldAt(PointAt(o, r, a)) = 255 <=> WallAt(PointAt(o, r, a))
    BY <2>1, <2>3, FieldTells
  <2>5. IsPenetrating(o, r, a, endpoint_check) <=>
          (Crosses(o, r, a) /\ (endpoint_check => ~WallAt(PointAt(o, r, a))))
    BY <2>2, <2>4 DEF IsPenetrating
  <2>6. IsPenetrating(o, r, a, endpoint_check) \in BOOLEAN
    BY DEF IsPenetrating
  <2>7. IsPenetrating(o, r, a, endpoint_check) =
          (Crosses(o, r, a) /\ (endpoint_check => ~WallAt(PointAt(o, r, a))))
    BY <2>5, <2>6
  <2> QED BY <2>7 DEF o
<1> QED BY <1>1, ParticleInvariant, PTL

-----------------------------------------------------------------------------
(* The walk comes to i before k, going up or down the beams.               *)
Earlier(up, i, k) == IF up THEN i < k ELSE k < i

(* A run among the beams of R, of which those of T penetrate.              *)
RunOf(R, T, threshold) ==
    \E beams \in SUBSET T :
        /\ \A i, k \in beams, j \in R : i < j /\ j < k => j \in beams
        /\ Cardinality(beams) >= threshold

(* C is the last beams of R: all of them, or all after one that does not   *)
(* penetrate.                                                              *)
Trailing(up, R, T, C) ==
    /\ \A c \in C, j \in R \ C : Earlier(up, j, c)
    /\ R \subseteq C \/ \E stop \in R \ T :
          \A j \in R \ C : j = stop \/ Earlier(up, j, stop)

(* If R holds no run yet, a beam that comes after all of it completes one  *)
(* exactly if it penetrates and makes C long enough: a run with the new    *)
(* beam reaches back no further than C, because between it and an earlier  *)
(* beam lies the one that stopped C.                                       *)
LEMMA RunGrows ==
    ASSUME NEW R, R \in SUBSET Nat, IsFiniteSet(R), NEW T \in SUBSET R, NEW C \in SUBSET T,
           NEW up \in BOOLEAN, Trailing(up, R, T, C),
           NEW i \in Nat, \A j \in R : Earlier(up, j, i),
           NEW threshold \in Nat, R # {} => ~RunOf(R, T, threshold)
    PROVE  /\ RunOf(R \cup {i}, T \cup {i}, threshold) <=> Cardinality(C) + 1 >= threshold
           /\ RunOf(R \cup {i}, T, threshold) <=> 0 >= threshold
           /\ Cardinality(C) \in Nat /\ Cardinality(C \cup {i}) = Cardinality(C) + 1
           /\ Trailing(up, R \cup {i}, T \cup {i}, C \cup {i})
           /\ Trailing(up, R \cup {i}, T, {})
<1>1. i \notin R /\ (\A j \in R : j \in Nat)
  BY DEF Earlier
<1>2. IsFiniteSet(C) /\ IsFiniteSet(C \cup {i}) /\ Cardinality(C) \in Nat
      /\ Cardinality(C \cup {i}) = Cardinality(C) + 1
  <2>1. C \subseteq R
    OBVIOUS
  <2>2. IsFiniteSet(C)
    BY <2>1, FS_Subset
  <2> QED BY <1>1, <2>1, <2>2, FS_AddElement, FS_CardinalityType
<1>3. Cardinality({}) = 0
  BY FS_EmptySet
<1>4. ASSUME NEW b \in SUBSET T, \A x, z \in b, j \in R \cup {i} : x < j /\ j < z => j \in b,
             Cardinality(b) >= threshold
      PROVE  0 >= threshold
  <2>1. \A x, z \in b, j \in R : x < j /\ j < z => j \in b
    BY <1>4
  <2>2. RunOf(R, T, threshold)
    BY <1>4, <2>1 DEF RunOf
  <2>3. R = {}
    BY <2>2
  <2>4. b = {}
    BY <2>3
  <2> QED BY <1>3, <1>4, <2>4
<1>5. ASSUME NEW b \in SUBSET (T \cup {i}), i \in b,
             \A x, z \in b, j \in R \cup {i} : x < j /\ j < z => j \in b
      PROVE  b \subseteq C \cup {i}
  <2> SUFFICES ASSUME NEW j \in b, j \notin C, j # i PROVE FALSE
    OBVIOUS
  <2>1. j \in T /\ j \in R \ C
    OBVIOUS
  <2>2. PICK stop \in R \ T : j = stop \/ Earlier(up, j, stop)
    BY <2>1 DEF Trailing
  <2>3. Earlier(up, j, stop) /\ Earlier(up, stop, i)
    BY <2>1, <2>2
  <2>4. stop \in b
    BY <1>5, <2>3 DEF Earlier
  <2> QED BY <1>1, <2>2, <2>4
<1>6. RunOf(R \cup {i}, T \cup {i}, threshold) <=> Cardinality(C) + 1 >= threshold
  <2>1. ASSUME Cardinality(C) + 1 >= threshold
        PROVE  RunOf(R \cup {i}, T \cup {i}, threshold)
    <3> DEFINE b == C \cup {i}
    <3>1. b \in SUBSET (T \cup {i}) /\ Cardinality(b) >= threshold
      BY <1>2, <2>1
    <3>2. ASSUME NEW x \in b, NEW z \in b, NEW j \in R \cup {i}, x < j, j < z PROVE j \in b
      <4> SUFFICES ASSUME j \in R \ C PROVE FALSE
        OBVIOUS
      <4>1. Earlier(up, j, x) /\ Earlier(up, j, z)
        BY DEF Trailing
      <4>2. x \in Nat /\ z \in Nat /\ j \in Nat
        BY <1>1
      <4> QED BY <3>2, <4>1, <4>2 DEF Earlier
    <3> HIDE DEF b
    <3> QED BY <3>1, <3>2 DEF RunOf
  <2>2. ASSUME RunOf(R \cup {i}, T \cup {i}, threshold)
        PROVE  Cardinality(C) + 1 >= threshold
    <3>1. PICK b \in SUBSET (T \cup {i}) :
            /\ \A x, z \in b, j \in R \cup {i} : x < j /\ j < z => j \in b
            /\ Cardinality(b) >= threshold
      BY <2>2 DEF RunOf
    <3>2. CASE i \in b
      <4>1. b \subseteq C \cup {i}
        BY <1>5, <3>1, <3>2
      <4>2. Cardinality(b) <= Cardinality(C \cup {i}) /\ Cardinality(b) \in Nat
        BY <1>2, <4>1, FS_Subset, FS_CardinalityType
      <4> QED BY <1>2, <3>1, <4>2
    <3>3. CASE i \notin b
      <4>1. b \in SUBSET T
        BY <3>3
      <4>2. 0 >= threshold
        BY <1>4, <3>1, <4>1
      <4> QED BY <1>2, <4>2
    <3> QED BY <3>2, <3>3
  <2> QED BY <2>1, <2>2
<1>7. RunOf(R \cup {i}, T, threshold) <=> 0 >= threshold
  <2>1. ASSUME 0 >= threshold PROVE RunOf(R \cup {i}, T, threshold)
    BY <1>3, <2>1, {} \in SUBSET T DEF RunOf
  <2>2. ASSUME RunOf(R \cup {i}, T, threshold) PROVE 0 >= threshold
    BY <1>4, <2>2 DEF RunOf
  <2> QED BY <2>1, <2>2
<1>8. Trailing(up, R \cup {i}, T \cup {i}, C \cup {i})
  <2>1. (R \cup {i}) \ (C \cup {i}) = R \ C /\ (R \cup {i}) \ (T \cup {i}) = R \ T
    BY <1>1
  <2> QED BY <2>1 DEF Trailing
<1>9. Trailing(up, R \cup {i}, T, {})
  <2>1. i \in (R \cup {i}) \ T
    BY <1>1
  <2> QED BY <2>1 DEF Trailing
<1> QED BY <1>2, <1>6, <1>7, <1>8, <1>9

-----------------------------------------------------------------------------
(* The invariant of the walk: what has been read is what has been walked   *)
(* over, hit_counter is the number of the last beams that penetrate one    *)
(* after the other, and there is no run yet.                               *)
Penetrating == {i \in ReadBeams(ranges) : Through(i, ranges[i])}

WalkOf(up, C) ==
    /\ \A k, l \in 1 .. Len(walk.order) : k < l => Earlier(up, walk.order[k], walk.order[l])
    /\ \A i \in Beam : ranges[i] # Unread => \E k \in 1 .. at : i = walk.order[k]
    /\ C \subseteq Penetrating
    /\ Trailing(up, ReadBeams(ranges), Penetrating, C)
    /\ hit_counter = Cardinality(C)
    /\ ReadBeams(ranges) # {} => ~RunOf(ReadBeams(ranges), Penetrating, walk.threshold)

WalkInv == verdict = "walking" => \E up \in BOOLEAN, C \in SUBSET Penetrating : WalkOf(up, C)

(* The run of the property.                                                *)
LEMMA RunIsRunOf ==
    \A rs : LET T == {i \in ReadBeams(rs) : Through(i, rs[i])}
            IN  Run(rs) <=> RunOf(ReadBeams(rs), T, walk.threshold)
<1> SUFFICES ASSUME NEW rs
             PROVE  Run(rs) <=> RunOf(ReadBeams(rs),
                                      {i \in ReadBeams(rs) : Through(i, rs[i])}, walk.threshold)
  OBVIOUS
<1> DEFINE R == ReadBeams(rs)
           T == {i \in R : Through(i, rs[i])}
<1>1. \A b : b \in SUBSET T <=> b \in SUBSET R /\ \A i \in b : Through(i, rs[i])
  OBVIOUS
<1> QED BY <1>1 DEF Run, RunOf

(* What one round of the loop does to the beams read: beam i, which        *)
(* reports r, comes after all of them.                                     *)
PenetratingNext == {j \in ReadBeams(ranges') : Through(j, ranges'[j])}

Round(i, r, up, C) ==
    /\ WalkOf(up, C)
    /\ \A j \in ReadBeams(ranges) : Earlier(up, j, i)
    /\ \A j \in Beam : ranges'[j] # Unread => \E k \in 1 .. at' : j = walk.order[k]
    /\ \/ /\ Valid(r) /\ Judge(i, r)
          /\ ReadBeams(ranges') = ReadBeams(ranges) \cup {i}
          /\ PenetratingNext = IF Through(i, r) THEN Penetrating \cup {i} ELSE Penetrating
       \/ /\ UNCHANGED <<pose, hit_counter, verdict>>
          /\ ReadBeams(ranges') = ReadBeams(ranges) /\ PenetratingNext = Penetrating

(* Every round is one of these.                                            *)
LEMMA RoundOfBeam ==
    ASSUME Typed, WalkInv, NextBeam
    PROVE  \E i \in Beam, r \in Ranges, up \in BOOLEAN, C \in SUBSET Penetrating :
              Round(i, r, up, C)
<1> DEFINE i == walk.order[at + 1]
           R == ReadBeams(ranges)
           T == PenetratingNext
<1>1. at + 1 \in 1 .. Len(walk.order) /\ at' = at + 1 /\ at \in Nat /\ verdict = "walking"
      /\ Len(walk.order) \in Nat
  <2>1. Len(walk.order) \in Nat
    BY LenProperties DEF Typed
  <2> QED BY <2>1 DEF NextBeam, Typed
<1>2. i \in Beam
  BY <1>1, ElementOfSeq DEF Typed
<1>3. PICK r \in Ranges :
        /\ ranges' = [ranges EXCEPT ![i] = r]
        /\ IF Valid(r) THEN Judge(i, r)
           ELSE UNCHANGED <<pose, hit_counter, first, last, verdict>>
  BY DEF NextBeam
<1>4. PICK up \in BOOLEAN, C \in SUBSET Penetrating : WalkOf(up, C)
  BY <1>1 DEF WalkInv
<1>5. \A j \in Beam : ranges[j] # Unread => Earlier(up, j, i)
  <2> SUFFICES ASSUME NEW j \in Beam, ranges[j] # Unread PROVE Earlier(up, j, i)
    OBVIOUS
  <2>1. PICK k \in 1 .. at : j = walk.order[k]
    BY <1>4 DEF WalkOf
  <2>2. k \in 1 .. Len(walk.order) /\ k < at + 1
    BY <1>1
  <2> QED BY <1>1, <1>4, <2>1, <2>2 DEF WalkOf
<1> HIDE DEF i
<1>6. ranges[i] = Unread
  <2>1. ~Earlier(up, i, i)
    BY <1>2, BeamFacts DEF Earlier
  <2> QED BY <1>2, <1>5, <2>1
<1>7. ranges'[i] = r /\ r # Unread /\ \A j \in Beam : j # i => ranges'[j] = ranges[j]
  BY <1>2, <1>3, BeamFacts DEF Typed
<1>8. \A j \in Beam : ranges'[j] # Unread => \E k \in 1 .. at' : j = walk.order[k]
  <2> SUFFICES ASSUME NEW j \in Beam, ranges'[j] # Unread
               PROVE  \E k \in 1 .. at' : j = walk.order[k]
    OBVIOUS
  <2>1. CASE j = i
    <3>1. at + 1 \in 1 .. at'
      BY <1>1
    <3> QED BY <2>1, <3>1 DEF i
  <2>2. CASE j # i
    <3>1. PICK k \in 1 .. at : j = walk.order[k]
      BY <1>4, <1>7, <2>2 DEF WalkOf
    <3>2. k \in 1 .. at'
      BY <1>1
    <3> QED BY <3>1, <3>2
  <2> QED BY <2>1, <2>2
<1>9. CASE Valid(r)
  <2>1. ReadBeams(ranges') = R \cup {i}
    BY <1>2, <1>7, <1>9 DEF ReadBeams
  <2>2. T = IF Through(i, r) THEN Penetrating \cup {i} ELSE Penetrating
    <3>1. \A j \in R : j # i /\ ranges'[j] = ranges[j]
      BY <1>6, <1>7 DEF ReadBeams
    <3>2. T = {j \in R : Through(j, ranges[j])} \cup {j \in {i} : Through(i, r)}
      <4> HIDE DEF R
      <4> QED BY <1>7, <2>1, <3>1 DEF PenetratingNext
    <3> QED BY <3>2 DEF Penetrating
  <2>3. Judge(i, r)
    BY <1>3, <1>9
  <2>4. \A j \in R : Earlier(up, j, i)
    BY <1>5 DEF ReadBeams
  <2> HIDE DEF R
  <2>5. Round(i, r, up, C)
    BY <1>4, <1>8, <1>9, <2>1, <2>2, <2>3, <2>4 DEF Round, R, T
  <2> QED BY <1>2, <2>5
<1>10. CASE ~Valid(r)
  <2>1. ReadBeams(ranges') = R
    BY <1>2, <1>6, <1>7, <1>10 DEF ReadBeams
  <2>2. \A j \in R : ranges'[j] = ranges[j]
    BY <1>6, <1>7 DEF ReadBeams
  <2>3. T = Penetrating
    BY <2>1, <2>2 DEF Penetrating, PenetratingNext
  <2>4. UNCHANGED <<pose, hit_counter, verdict>>
    BY <1>3, <1>10
  <2>5. \A j \in R : Earlier(up, j, i)
    BY <1>5 DEF ReadBeams
  <2> HIDE DEF R, T
  <2>6. Round(i, r, up, C)
    BY <1>4, <1>8, <2>1, <2>3, <2>4, <2>5 DEF Round, R, T
  <2> QED BY <1>2, <2>6
<1> QED BY <1>9, <1>10

-----------------------------------------------------------------------------
(* Nothing that a beam crosses changes while the field stands.             *)
LEMMA CrossedStays ==
    UNCHANGED field =>
        \A o, range, a, check :
            IsPenetrating(o, range, a, check)' = IsPenetrating(o, range, a, check)
<1> SUFFICES ASSUME UNCHANGED field, NEW o, NEW range, NEW a, NEW check
             PROVE  IsPenetrating(o, range, a, check)' = IsPenetrating(o, range, a, check)
  OBVIOUS
<1>1. \A q : FieldAt(q)' = FieldAt(q)
  BY Zenon DEF field, FieldAt, LikelihoodAt, Flat
<1>2. Hits(o, range, a)' = Hits(o, range, a)
  BY <1>1 DEF Hits, Steps
<1>3. OpenAfterHit(o, range, a)' = OpenAfterHit(o, range, a)
  BY <1>1, <1>2 DEF OpenAfterHit, Steps
<1> QED BY <1>1, <1>3 DEF IsPenetrating

(* The answer of a round, and the beams it leaves counted.                 *)
LEMMA RoundAnswers ==
    ASSUME Typed, verdict = "walking", NEW i \in Beam, NEW r \in Ranges, NEW up \in BOOLEAN,
           NEW C \in SUBSET Penetrating, Round(i, r, up, C)
    PROVE  /\ verdict' = "conflict" <=>
                ReadBeams(ranges') # {}
                /\ RunOf(ReadBeams(ranges'), PenetratingNext, walk.threshold)
           /\ verdict' = "walking" =>
                /\ pose' = pose
                /\ \E D \in SUBSET PenetratingNext :
                     /\ Trailing(up, ReadBeams(ranges'), PenetratingNext, D)
                     /\ hit_counter' = Cardinality(D)
<1> DEFINE R == ReadBeams(ranges)
           T == Penetrating
           t == walk.threshold
<1>1. /\ Trailing(up, R, T, C) /\ hit_counter = Cardinality(C)
      /\ R # {} => ~RunOf(R, T, t)
      /\ \A j \in R : Earlier(up, j, i)
  BY DEF Round, WalkOf
<1>2. R \in SUBSET Nat /\ IsFiniteSet(R) /\ T \in SUBSET R /\ i \in Nat /\ t \in Nat
  <2>1. IsFiniteSet(Beam) /\ Beam \subseteq Nat
    BY BeamFacts, FS_Interval, BeamsAssumption DEF Beam
  <2>2. R \subseteq Beam
    BY DEF ReadBeams
  <2> QED BY <2>1, <2>2, FS_Subset DEF Typed, Penetrating
<1> HIDE DEF R, T, t
<1>3. /\ RunOf(R \cup {i}, T \cup {i}, t) <=> Cardinality(C) + 1 >= t
      /\ RunOf(R \cup {i}, T, t) <=> 0 >= t
      /\ Cardinality(C) \in Nat /\ Cardinality(C \cup {i}) = Cardinality(C) + 1
      /\ Trailing(up, R \cup {i}, T \cup {i}, C \cup {i})
      /\ Trailing(up, R \cup {i}, T, {})
  BY <1>1, <1>2, RunGrows DEF T
<1>4. CASE /\ Valid(r) /\ Judge(i, r)
           /\ ReadBeams(ranges') = R \cup {i}
           /\ PenetratingNext = IF Through(i, r) THEN T \cup {i} ELSE T
  <2>1. /\ hit_counter' = Counted(Through(i, r))
        /\ hit_counter' >= t => verdict' = "conflict"
        /\ ~(hit_counter' >= t) => verdict' = "walking" /\ pose' = pose
    BY <1>4, JudgeFacts DEF t
  <2>2. CASE Through(i, r)
    <3>1. hit_counter' = Cardinality(C) + 1
      BY <1>1, <2>1, <2>2 DEF Counted
    <3>2. C \cup {i} \in SUBSET PenetratingNext
      BY <1>4, <2>2 DEF T
    <3> QED BY <1>3, <1>4, <2>1, <2>2, <3>1, <3>2 DEF t
  <2>3. CASE ~Through(i, r)
    <3>1. hit_counter' = 0 /\ Cardinality({}) = 0
      BY <2>1, <2>3, FS_EmptySet DEF Counted
    <3>2. {} \in SUBSET PenetratingNext
      OBVIOUS
    <3> QED BY <1>3, <1>4, <2>1, <2>3, <3>1, <3>2 DEF t
  <2> QED BY <2>2, <2>3
<1>5. CASE /\ UNCHANGED <<pose, hit_counter, verdict>>
           /\ ReadBeams(ranges') = R /\ PenetratingNext = T
  <2>1. C \in SUBSET PenetratingNext
    BY <1>5 DEF T
  <2> QED BY <1>1, <1>5, <2>1 DEF t
<1>6. \/ /\ Valid(r) /\ Judge(i, r)
         /\ ReadBeams(ranges') = R \cup {i}
         /\ PenetratingNext = IF Through(i, r) THEN T \cup {i} ELSE T
      \/ /\ UNCHANGED <<pose, hit_counter, verdict>>
         /\ ReadBeams(ranges') = R /\ PenetratingNext = T
  BY DEF Round, R, T
<1> QED BY <1>4, <1>5, <1>6

(* Every step keeps the invariant of the walk.                             *)
LEMMA WalkInvStep == Typed /\ WalkInv /\ [Next]_vars => WalkInv'
<1> SUFFICES ASSUME Typed, WalkInv, [Next]_vars, verdict' = "walking"
             PROVE  (\E up \in BOOLEAN, C \in SUBSET Penetrating : WalkOf(up, C))'
  BY DEF WalkInv
<1>1. CASE Visit /\ UNCHANGED walkVars
  <2>1. verdict = "none"
    <3>1. ~Built
      <4>1. map.width * map.height \in Nat
        BY MapFacts DEF Typed, FieldInv
      <4> QED BY <1>1, <4>1 DEF Built, Visit
    <3> QED BY <3>1 DEF Typed
  <2> QED BY <1>1, <2>1 DEF walkVars
<1>2. CASE WallConflict
  <2>1. PICK coin \in BOOLEAN, inc \in Increments : walk'.order = Order(coin, inc)
    BY <1>2 DEF WallConflict
  <2>2. \A k, l \in 1 .. Len(walk'.order) :
            k < l => Earlier(coin, walk'.order[k], walk'.order[l])
    BY <2>1, OrderOf DEF Earlier
  <2>3. hit_counter' = 0 /\ ranges' = ranges /\ \A i \in Beam : ranges[i] = Unread
    BY <1>2 DEF WallConflict, Typed
  <2>4. ReadBeams(ranges') = {}
    BY <2>3 DEF ReadBeams
  <2>5. Penetrating' = {}
    BY <2>4 DEF Penetrating
  <2>6. Cardinality({}) = 0
    BY FS_EmptySet
  <2>7. WalkOf(coin, {})'
    BY <2>2, <2>3, <2>4, <2>5, <2>6 DEF WalkOf, Trailing
  <2> QED BY <2>5, <2>7
<1>3. CASE NextBeam
  <2>1. PICK i \in Beam, r \in Ranges, up \in BOOLEAN, C \in SUBSET Penetrating :
          Round(i, r, up, C)
    BY <1>3, RoundOfBeam
  <2>2. verdict = "walking" /\ walk' = walk
    BY <1>3 DEF NextBeam
  <2>3. pose' = pose /\ ~(ReadBeams(ranges') # {}
                          /\ RunOf(ReadBeams(ranges'), PenetratingNext, walk.threshold))
    BY <2>1, <2>2, RoundAnswers
  <2>4. PICK D \in SUBSET PenetratingNext :
          Trailing(up, ReadBeams(ranges'), PenetratingNext, D) /\ hit_counter' = Cardinality(D)
    BY <2>1, <2>2, RoundAnswers
  <2>5. Penetrating' = PenetratingNext
    <3>1. UNCHANGED field
      BY <1>3 DEF NextBeam
    <3>2. \A j \in ReadBeams(ranges') :
            Through(j, ranges'[j]) <=> Through(j, ranges[j])'
      BY <2>2, <2>3, <3>1, CrossedStays DEF Through
    <3> QED BY <3>2 DEF Penetrating, PenetratingNext
  <2>6. \A k, l \in 1 .. Len(walk'.order) :
            k < l => Earlier(up, walk'.order[k], walk'.order[l])
    BY <2>1, <2>2 DEF Round, WalkOf
  <2>7. \A j \in Beam : ranges'[j] # Unread => \E k \in 1 .. at' : j = walk'.order[k]
    BY <2>1, <2>2 DEF Round
  <2>8. WalkOf(up, D)'
    BY <2>2, <2>3, <2>4, <2>5, <2>6, <2>7 DEF WalkOf
  <2> QED BY <2>4, <2>5, <2>8
<1>4. CASE NoConflict
  BY <1>4 DEF NoConflict
<1>5. CASE UNCHANGED vars
  <2>1. UNCHANGED walkVars /\ UNCHANGED field
    BY <1>5 DEF vars
  <2>2. verdict = "walking" /\ UNCHANGED <<walk, at, ranges, hit_counter, pose>>
    BY <2>1 DEF walkVars
  <2>3. \A j \in ReadBeams(ranges) : Through(j, ranges[j]) <=> Through(j, ranges[j])'
    BY <2>1, <2>2, CrossedStays DEF Through
  <2>4. Penetrating' = Penetrating
    BY <2>2, <2>3 DEF Penetrating
  <2>5. PICK up \in BOOLEAN, C \in SUBSET Penetrating : WalkOf(up, C)
    BY <2>2 DEF WalkInv
  <2>6. WalkOf(up, C)'
    BY <2>2, <2>4, <2>5 DEF WalkOf
  <2> QED BY <2>4, <2>6
<1> QED BY <1>1, <1>2, <1>3, <1>4, <1>5 DEF Next

(* So it holds always.                                                     *)
LEMMA WalkInvariant == Spec => [](Typed /\ WalkInv)
<1>1. Init => WalkInv
  BY DEF Init, WalkInv
<1> QED BY <1>1, WalkInvStep, ParticleInvariant, PTL DEF Spec

(* For every map, pose, scan, threshold and scan_increment, and from       *)
(* whichever end: wallConflict() answers yes in the very round in which    *)
(* the valid beams read first hold a run of penetrating ones of the length *)
(* of the threshold, with no other read between them, and no if all of     *)
(* them hold none.                                                         *)
THEOREM ParticleConflictIsARun == Spec => ConflictIsARun
<1>1. (Typed /\ WalkInv) /\ [Next]_vars =>
        [verdict = "walking" =>
            (verdict' = "conflict" <=> ReadBeams(ranges') # {} /\ Run(ranges'))]_vars
  <2> SUFFICES ASSUME Typed, WalkInv, Next, verdict = "walking"
               PROVE  verdict' = "conflict" <=> ReadBeams(ranges') # {} /\ Run(ranges')
    OBVIOUS
  <2>1. CASE Visit /\ UNCHANGED walkVars
    <3>1. ~Built
      <4>1. map.width * map.height \in Nat
        BY MapFacts DEF Typed, FieldInv
      <4> QED BY <2>1, <4>1 DEF Built, Visit
    <3> QED BY <3>1 DEF Typed
  <2>2. CASE WallConflict
    BY <2>2 DEF WallConflict
  <2>3. CASE NextBeam
    <3>1. PICK i \in Beam, r \in Ranges, up \in BOOLEAN, C \in SUBSET Penetrating :
            Round(i, r, up, C)
      BY <2>3, RoundOfBeam
    <3>2. verdict' = "conflict" <=>
            ReadBeams(ranges') # {}
            /\ RunOf(ReadBeams(ranges'), PenetratingNext, walk.threshold)
      BY <3>1, RoundAnswers
    <3>3. Run(ranges') <=> RunOf(ReadBeams(ranges'), PenetratingNext, walk.threshold)
      BY RunIsRunOf DEF PenetratingNext
    <3> QED BY <3>2, <3>3
  <2>4. CASE NoConflict
    <3>1. PICK up \in BOOLEAN, C \in SUBSET Penetrating : WalkOf(up, C)
      BY DEF WalkInv
    <3>2. Run(ranges) <=> RunOf(ReadBeams(ranges), Penetrating, walk.threshold)
      BY RunIsRunOf DEF Penetrating
    <3> QED BY <2>4, <3>1, <3>2 DEF NoConflict, WalkOf
  <2> QED BY <2>1, <2>2, <2>3, <2>4 DEF Next
<1> QED BY <1>1, WalkInvariant, PTL DEF Spec, ConflictIsARun
=================================================================================
