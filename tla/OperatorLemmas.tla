----------------------------- MODULE OperatorLemmas -----------------------------
(***************************************************************************)
(* Facts about the operators of the community modules that the models are  *)
(* built from: the least member of a set of naturals (Min), and the sum of *)
(* a function over a finite set (SumFunctionOnSet), which that module      *)
(* defines by recursion on the set; with the arithmetic that the provers   *)
(* need in small steps.                                                    *)
(***************************************************************************)
EXTENDS Integers, FiniteSets, FiniteSetsExt, Functions,
        FiniteSetTheorems, WellFoundedInduction, TLAPS

(* Every set of naturals has a least member.                               *)
LEMMA NatHasLeast == \A S \in SUBSET Nat : S # {} => \E x \in S : \A y \in S : x <= y
<1> SUFFICES ASSUME NEW S \in SUBSET Nat, S # {}
             PROVE  \E x \in S : \A y \in S : x <= y
  OBVIOUS
<1>1. \E x \in S : \A y \in S : ~(<<y, x>> \in OpToRel(<, Nat))
  BY NatLessThanWellFounded, WFMin, Zenon
<1>2. PICK x \in S : \A y \in S : ~(<<y, x>> \in OpToRel(<, Nat))
  BY <1>1
<1>3. ASSUME NEW y \in S PROVE x <= y
  <2>1. x \in Nat /\ y \in Nat
    OBVIOUS
  <2>2. ~(y < x)
    BY <1>2, <2>1 DEF OpToRel
  <2> QED BY <2>1, <2>2
<1> QED BY <1>3

(* Min() is that member.                                                   *)
LEMMA MinIsLeast ==
    \A S \in SUBSET Nat : S # {} => Min(S) \in S /\ \A y \in S : Min(S) <= y
BY NatHasLeast DEF Min

(* A bounded set of naturals has a greatest member, and Max() is that.     *)
LEMMA MaxIsGreatest ==
    \A S \in SUBSET Nat, b \in Nat :
        S # {} /\ (\A x \in S : x <= b) => Max(S) \in S /\ \A y \in S : y <= Max(S)
<1> SUFFICES ASSUME NEW S \in SUBSET Nat, NEW b \in Nat, S # {}, \A x \in S : x <= b
             PROVE  Max(S) \in S /\ \A y \in S : y <= Max(S)
  OBVIOUS
<1> DEFINE D == {b - x : x \in S}
<1>1. D \in SUBSET Nat /\ D # {}
  <2>1. \A x \in S : b - x \in Nat
    OBVIOUS
  <2> QED BY <2>1
<1>2. PICK d \in D : \A e \in D : d <= e
  <2> HIDE DEF D
  <2> QED BY <1>1, NatHasLeast, Zenon
<1>3. PICK m \in S : d = b - m
  OBVIOUS
<1>4. ASSUME NEW y \in S PROVE y <= m
  <2>1. d <= b - y
    BY <1>2
  <2>2. y \in Nat /\ m \in Nat
    OBVIOUS
  <2> QED BY <1>3, <2>1, <2>2
<1>5. \A y \in S : m >= y
  BY <1>4
<1> QED BY <1>5 DEF Max

-----------------------------------------------------------------------------
(* Products in order, and division.                                        *)
LEMMA TimesIsMonotone ==
    \A a, b \in Int, m \in Nat : a <= b => a * m <= b * m
<1> SUFFICES ASSUME NEW a \in Int, NEW b \in Int, NEW m \in Nat, a <= b
             PROVE  a * m <= b * m
  OBVIOUS
<1>1. (b - a) * m = b * m - a * m /\ a * m \in Int /\ b * m \in Int
  OBVIOUS
<1>2. \A d \in Nat : d * m >= 0
  OBVIOUS
<1>3. b - a \in Nat
  OBVIOUS
<1>4. (b - a) * m >= 0
  BY <1>2, <1>3
<1> QED BY <1>1, <1>4

LEMMA TimesCancels ==
    \A a, b \in Int, m \in Nat \ {0} : a * m <= b * m => a <= b
<1> SUFFICES ASSUME NEW a \in Int, NEW b \in Int, NEW m \in Nat \ {0}, b < a
             PROVE  b * m < a * m
  OBVIOUS
<1>1. b + 1 <= a /\ b + 1 \in Int /\ m \in Nat
  OBVIOUS
<1>2. (b + 1) * m <= a * m
  BY <1>1, TimesIsMonotone
<1>3. (b + 1) * m = b * m + m /\ a * m \in Int /\ b * m \in Int
  OBVIOUS
<1> QED BY <1>2, <1>3

(* Division with a remainder.                                              *)
LEMMA Division ==
    \A z \in Int, m \in Nat \ {0} :
        z % m \in 0 .. m - 1 /\ z \div m \in Int /\ z = m * (z \div m) + (z % m)
OBVIOUS

LEMMA DivisionOfNat ==
    \A k \in Nat, m \in Nat \ {0} :
        k % m \in 0 .. m - 1 /\ k \div m \in Nat /\ k = (k \div m) * m + (k % m)
OBVIOUS

LEMMA DivisionIsUnique ==
    \A m \in Nat \ {0}, q \in Int, b \in Nat :
        b < m => (q * m + b) % m = b /\ (q * m + b) \div m = q
<1> SUFFICES ASSUME NEW m \in Nat \ {0}, NEW q \in Int, NEW b \in Nat, b < m
             PROVE  (q * m + b) % m = b /\ (q * m + b) \div m = q
  OBVIOUS
<1> DEFINE x == q * m + b
           p == x \div m
           r == x % m
<1>1. x \in Int /\ p \in Int /\ r \in 0 .. m - 1 /\ q * m + b = p * m + r
  <2>1. x \in Int
    OBVIOUS
  <2>2. r \in 0 .. m - 1 /\ p \in Int /\ x = m * p + r
    <3> HIDE DEF x
    <3> QED BY <2>1, Division
  <2> HIDE DEF p, r
  <2> QED BY <2>1, <2>2
<1> HIDE DEF x, p, r
<1>2. CASE q < p
  <2>1. (q + 1) * m <= p * m
    BY <1>1, <1>2
  <2> QED BY <1>1, <2>1
<1>3. CASE p < q
  <2>1. (p + 1) * m <= q * m
    BY <1>1, <1>3
  <2> QED BY <1>1, <2>1
<1>4. CASE p = q
  BY <1>1, <1>4 DEF r, x
<1> QED BY <1>1, <1>2, <1>3, <1>4

-----------------------------------------------------------------------------
(* The recursion of SumFunctionOnSet(): a member is picked, its value added *)
(* to the sum over the rest.                                               *)
Pick(s) == CHOOSE x \in s : TRUE
Adds(fun, D, g) ==
    g = [s \in D |-> IF s = {} THEN 0 ELSE fun[Pick(s)] + g[s \ {Pick(s)}]]

(* The sum is one solution of the recursion, if there is one,              *)
LEMMA SumIsChosen ==
    ASSUME NEW fun, NEW S
    PROVE  SumFunctionOnSet(fun, S) = (CHOOSE g : Adds(fun, SUBSET S, g))[S]
BY DEF SumFunctionOnSet, FoldFunctionOnSet, MapThenFoldSet, Adds, Pick

(* The subsets with at most n members.                                     *)
Small(S, n) == {s \in SUBSET S : Cardinality(s) <= n}

(* and there is one for the sets up to any size, by the least size without. *)
LEMMA AddsExists ==
    ASSUME NEW fun, NEW S, IsFiniteSet(S)
    PROVE  \A n \in Nat : \E g : Adds(fun, Small(S, n), g)
<1> DEFINE Bad == {n \in Nat : ~ \E g : Adds(fun, Small(S, n), g)}
<1> SUFFICES ASSUME Bad # {} PROVE FALSE
  OBVIOUS
<1>1. PICK n \in Bad : \A m \in Bad : n <= m
  BY NatHasLeast, Zenon
<1>2. n \in Nat /\ ~ \E g : Adds(fun, Small(S, n), g)
  OBVIOUS
<1>3. \A s \in SUBSET S : IsFiniteSet(s) /\ Cardinality(s) \in Nat
  BY FS_Subset, FS_CardinalityType
<1>4. \A s \in SUBSET S : s # {} => Pick(s) \in s
  BY DEF Pick
<1>5. \A s \in SUBSET S : s # {} =>
        s \ {Pick(s)} \in SUBSET S /\ Cardinality(s \ {Pick(s)}) = Cardinality(s) - 1
  BY <1>3, <1>4, FS_RemoveElement
<1>6. \A s \in SUBSET S : Cardinality(s) = 0 <=> s = {}
  BY <1>3, FS_EmptySet
<1>7. CASE n = 0
  <2> DEFINE g == [s \in Small(S, n) |-> 0]
  <2>1. Adds(fun, Small(S, n), g)
    BY <1>3, <1>6, <1>7 DEF Adds, Small
  <2> QED BY <1>2, <2>1
<1>8. CASE n # 0
  <2>1. n - 1 \in Nat /\ n - 1 \notin Bad
    BY <1>1, <1>2, <1>8
  <2>2. PICK h : Adds(fun, Small(S, n - 1), h)
    BY <2>1
  <2> DEFINE g == [s \in Small(S, n) |->
                    IF s = {} THEN 0 ELSE fun[Pick(s)] + h[s \ {Pick(s)}]]
  <2>3. \A s \in Small(S, n - 1) : g[s] = h[s]
    <3>1. Small(S, n - 1) \subseteq Small(S, n)
      BY <1>2, <1>3 DEF Small
    <3> QED BY <2>2, <3>1 DEF Adds
  <2>4. \A s \in Small(S, n) : s # {} => s \ {Pick(s)} \in Small(S, n - 1)
    BY <1>2, <1>3, <1>5 DEF Small
  <2>5. \A s \in Small(S, n) : s # {} => g[s \ {Pick(s)}] = h[s \ {Pick(s)}]
    BY <2>3, <2>4
  <2>6. g = [s \in Small(S, n) |-> IF s = {} THEN 0 ELSE fun[Pick(s)] + g[s \ {Pick(s)}]]
    BY <2>5
  <2> QED BY <1>2, <2>6 DEF Adds
<1> QED BY <1>7, <1>8

(* So the sum obeys the recursion.                                         *)
LEMMA SumRecursion ==
    ASSUME NEW fun, NEW S, IsFiniteSet(S)
    PROVE  \E g : /\ Adds(fun, SUBSET S, g)
                  /\ SumFunctionOnSet(fun, S) = g[S]
<1>1. \A s \in SUBSET S : IsFiniteSet(s) /\ Cardinality(s) \in Nat
                          /\ Cardinality(s) <= Cardinality(S)
  BY FS_Subset, FS_CardinalityType
<1>2. Small(S, Cardinality(S)) = SUBSET S
  BY <1>1 DEF Small
<1>3. Cardinality(S) \in Nat
  BY FS_CardinalityType
<1>4. \E g : Adds(fun, SUBSET S, g)
  <2>1. \E g : Adds(fun, Small(S, Cardinality(S)), g)
    BY <1>3, AddsExists
  <2> QED BY <1>2, <2>1
<1> DEFINE g == CHOOSE g : Adds(fun, SUBSET S, g)
<1>5. Adds(fun, SUBSET S, g)
  BY <1>4, Zenon
<1> QED BY <1>5, SumIsChosen

(* Induction over the subsets of a finite set, by the smallest exception.  *)
LEMMA SmallestException ==
    ASSUME NEW S, IsFiniteSet(S), NEW B, B \subseteq SUBSET S, B # {}
    PROVE  \E s \in B : \A x \in s : s \ {x} \notin B
<1> DEFINE N == {Cardinality(s) : s \in B}
<1>1. \A s \in B : IsFiniteSet(s) /\ Cardinality(s) \in Nat
  BY FS_Subset, FS_CardinalityType
<1>2. PICK n \in N : \A m \in N : n <= m
  <2>1. N \in SUBSET Nat /\ N # {}
    BY <1>1
  <2> QED BY <2>1, NatHasLeast, Zenon
<1>3. PICK s \in B : n = Cardinality(s)
  OBVIOUS
<1>4. ASSUME NEW x \in s, s \ {x} \in B PROVE FALSE
  <2>1. Cardinality(s \ {x}) = Cardinality(s) - 1
    BY <1>1, FS_RemoveElement
  <2>2. n <= Cardinality(s \ {x})
    BY <1>2, <1>4
  <2> QED BY <1>1, <1>3, <2>1, <2>2
<1> QED BY <1>4

(* The sum over a set is that of the member picked and of the rest.        *)
LEMMA SumOfPick ==
    ASSUME NEW fun, NEW S, IsFiniteSet(S), S # {}
    PROVE  /\ Pick(S) \in S
           /\ SumFunctionOnSet(fun, S)
                = fun[Pick(S)] + SumFunctionOnSet(fun, S \ {Pick(S)})
<1> DEFINE p == Pick(S)
           T == S \ {p}
<1>1. p \in S
  BY DEF Pick
<1>2. IsFiniteSet(T)
  BY FS_Subset
<1>3. PICK g : Adds(fun, SUBSET S, g) /\ SumFunctionOnSet(fun, S) = g[S]
  BY SumRecursion
<1>4. PICK h : Adds(fun, SUBSET T, h) /\ SumFunctionOnSet(fun, T) = h[T]
  BY <1>2, SumRecursion
<1>5. g[T] = h[T]
  <2> DEFINE B == {s \in SUBSET T : g[s] # h[s]}
  <2> SUFFICES ASSUME B # {} PROVE FALSE
    OBVIOUS
  <2>1. PICK s \in B : \A x \in s : s \ {x} \notin B
    <3>1. B \subseteq SUBSET T
      OBVIOUS
    <3> HIDE DEF B, T
    <3> QED BY <1>2, <3>1, SmallestException, Zenon
  <2>2. s \in SUBSET T /\ s \in SUBSET S /\ g[s] # h[s]
    OBVIOUS
  <2>3. s # {}
    BY <1>3, <1>4, <2>2 DEF Adds
  <2>4. Pick(s) \in s
    BY <2>3 DEF Pick
  <2>5. g[s \ {Pick(s)}] = h[s \ {Pick(s)}]
    BY <2>1, <2>2, <2>4
  <2>6. g[s] = fun[Pick(s)] + g[s \ {Pick(s)}] /\ h[s] = fun[Pick(s)] + h[s \ {Pick(s)}]
    BY <1>3, <1>4, <2>2, <2>3 DEF Adds
  <2> QED BY <2>2, <2>5, <2>6
<1>6. g[S] = fun[p] + g[T]
  BY <1>3 DEF Adds
<1> QED BY <1>1, <1>3, <1>4, <1>5, <1>6

(* The sum of nothing is 0.                                                *)
LEMMA SumOfNone == \A fun : SumFunctionOnSet(fun, {}) = 0
<1> SUFFICES ASSUME NEW fun PROVE SumFunctionOnSet(fun, {}) = 0
  OBVIOUS
<1>1. PICK g : Adds(fun, SUBSET {}, g) /\ SumFunctionOnSet(fun, {}) = g[{}]
  BY SumRecursion, FS_EmptySet
<1> QED BY <1>1 DEF Adds

(* A sum of integers is an integer.                                        *)
LEMMA SumType ==
    ASSUME NEW S, IsFiniteSet(S), NEW fun, \A i \in S : fun[i] \in Int
    PROVE  SumFunctionOnSet(fun, S) \in Int
<1> DEFINE B == {s \in SUBSET S : SumFunctionOnSet(fun, s) \notin Int}
<1> SUFFICES ASSUME B # {} PROVE FALSE
  OBVIOUS
<1>1. PICK s \in B : \A x \in s : s \ {x} \notin B
  BY SmallestException, Zenon
<1>2. s \subseteq S /\ IsFiniteSet(s) /\ SumFunctionOnSet(fun, s) \notin Int
  BY FS_Subset
<1>3. s # {}
  BY <1>2, SumOfNone
<1>4. Pick(s) \in s
      /\ SumFunctionOnSet(fun, s) = fun[Pick(s)] + SumFunctionOnSet(fun, s \ {Pick(s)})
  BY <1>2, <1>3, SumOfPick
<1>5. SumFunctionOnSet(fun, s \ {Pick(s)}) \in Int
  BY <1>1, <1>2, <1>4
<1> QED BY <1>2, <1>4, <1>5

(* Any member can be taken out of a sum.                                   *)
LEMMA SumOfRest ==
    ASSUME NEW S, IsFiniteSet(S), NEW fun, \A i \in S : fun[i] \in Int, NEW x \in S
    PROVE  SumFunctionOnSet(fun, S) = fun[x] + SumFunctionOnSet(fun, S \ {x})
<1> DEFINE sum(s) == SumFunctionOnSet(fun, s)
           B == {s \in SUBSET S : \E y \in s : sum(s) # fun[y] + sum(s \ {y})}
<1> SUFFICES ASSUME B # {} PROVE FALSE
  OBVIOUS
<1>1. PICK s \in B : \A y \in s : s \ {y} \notin B
  BY SmallestException, Zenon
<1>2. PICK y \in s : sum(s) # fun[y] + sum(s \ {y})
  OBVIOUS
<1>3. s \subseteq S /\ IsFiniteSet(s) /\ s # {}
  BY FS_Subset
<1> DEFINE p == Pick(s)
           r == (s \ {p}) \ {y}
<1>4. p \in s /\ sum(s) = fun[p] + sum(s \ {p})
  BY <1>3, SumOfPick
<1>5. p # y
  BY <1>2, <1>4
<1>6. sum(s \ {p}) = fun[y] + sum(r)
  BY <1>1, <1>3, <1>4, <1>5
<1>7. sum(s \ {y}) = fun[p] + sum(r)
  <2>1. (s \ {y}) \ {p} = r
    OBVIOUS
  <2>2. s \ {y} \in SUBSET S /\ s \ {y} \notin B /\ p \in s \ {y}
    BY <1>1, <1>3, <1>4, <1>5
  <2>3. sum(s \ {y}) = fun[p] + sum((s \ {y}) \ {p})
    BY <2>2
  <2> QED BY <2>1, <2>3
<1>8. fun[p] \in Int /\ fun[y] \in Int /\ sum(r) \in Int
  <2>1. IsFiniteSet(r) /\ r \subseteq S
    BY <1>3, FS_Subset
  <2> QED BY <1>3, <1>4, <2>1, SumType
<1> HIDE DEF sum, p, r
<1> QED BY <1>2, <1>4, <1>6, <1>7, <1>8

-----------------------------------------------------------------------------
(* h gives the subsets of S what the sum would give them.                  *)
AddsUp(fun, S, h) ==
    /\ \A i \in S : fun[i] \in Int
    /\ h[{}] = 0
    /\ \A s \in SUBSET S : \A x \in s : h[s] = fun[x] + h[s \ {x}]

(* Whatever adds up like the sum is the sum.                               *)
LEMMA SumIs ==
    ASSUME NEW S, IsFiniteSet(S), NEW fun, NEW h, AddsUp(fun, S, h)
    PROVE  SumFunctionOnSet(fun, S) = h[S]
<1> DEFINE sum(s) == SumFunctionOnSet(fun, s)
           B == {s \in SUBSET S : sum(s) # h[s]}
<1>1. SUFFICES ASSUME B # {} PROVE FALSE
  OBVIOUS
<1>2. PICK s \in B : \A x \in s : s \ {x} \notin B
  BY <1>1, SmallestException, Zenon
<1>3. s \subseteq S /\ IsFiniteSet(s) /\ sum(s) # h[s]
  BY FS_Subset
<1>4. s # {}
  BY <1>3, SumOfNone DEF AddsUp
<1>5. PICK x \in s : TRUE
  BY <1>4
<1>6. sum(s \ {x}) = h[s \ {x}]
  BY <1>2, <1>3, <1>5
<1>7. sum(s) = fun[x] + sum(s \ {x})
  BY <1>3, <1>5, SumOfRest DEF AddsUp
<1> QED BY <1>3, <1>5, <1>6, <1>7 DEF AddsUp

(* Functions that agree on a set have the same sum over it.                *)
LEMMA SumOfSame ==
    ASSUME NEW S, IsFiniteSet(S), NEW f, NEW g,
           \A i \in S : f[i] \in Int /\ g[i] = f[i]
    PROVE  SumFunctionOnSet(g, S) = SumFunctionOnSet(f, S)
<1> DEFINE h == [s \in SUBSET S |-> SumFunctionOnSet(f, s)]
<1>1. h[{}] = 0
  BY SumOfNone
<1>2. ASSUME NEW s \in SUBSET S, NEW x \in s PROVE h[s] = g[x] + h[s \ {x}]
  <2>1. IsFiniteSet(s)
    BY FS_Subset
  <2>2. SumFunctionOnSet(f, s) = f[x] + SumFunctionOnSet(f, s \ {x})
    BY <2>1, SumOfRest
  <2> QED BY <2>2
<1>3. h[S] = SumFunctionOnSet(f, S)
  OBVIOUS
<1> HIDE DEF h
<1>4. AddsUp(g, S, h)
  BY <1>1, <1>2 DEF AddsUp
<1> QED BY <1>3, <1>4, SumIs

(* The sum of sums,                                                        *)
LEMMA SumPlus ==
    ASSUME NEW S, IsFiniteSet(S), NEW f, NEW g,
           \A i \in S : f[i] \in Int /\ g[i] \in Int
    PROVE  SumFunctionOnSet([i \in S |-> f[i] + g[i]], S)
             = SumFunctionOnSet(f, S) + SumFunctionOnSet(g, S)
<1> DEFINE h == [s \in SUBSET S |-> SumFunctionOnSet(f, s) + SumFunctionOnSet(g, s)]
           k == [i \in S |-> f[i] + g[i]]
<1>1. h[{}] = 0
  BY SumOfNone
<1>2. ASSUME NEW s \in SUBSET S, NEW x \in s PROVE h[s] = k[x] + h[s \ {x}]
  <2>1. IsFiniteSet(s) /\ IsFiniteSet(s \ {x})
    BY FS_Subset
  <2>2. SumFunctionOnSet(f, s) = f[x] + SumFunctionOnSet(f, s \ {x})
    BY <2>1, SumOfRest
  <2>3. SumFunctionOnSet(g, s) = g[x] + SumFunctionOnSet(g, s \ {x})
    BY <2>1, SumOfRest
  <2>4. SumFunctionOnSet(f, s \ {x}) \in Int /\ SumFunctionOnSet(g, s \ {x}) \in Int
    BY <2>1, SumType
  <2> QED BY <2>2, <2>3, <2>4
<1>3. h[S] = SumFunctionOnSet(f, S) + SumFunctionOnSet(g, S)
  OBVIOUS
<1>4. \A i \in S : k[i] \in Int
  OBVIOUS
<1>6. \A s \in SUBSET S : \A x \in s : h[s] = k[x] + h[s \ {x}]
  BY <1>2
<1> HIDE DEF h, k
<1>5. SumFunctionOnSet(k, S) = h[S]
  <2>1. AddsUp(k, S, h)
    BY <1>1, <1>4, <1>6 DEF AddsUp
  <2> QED BY <2>1, SumIs
<1> QED BY <1>3, <1>5 DEF k

(* of multiples,                                                           *)
LEMMA SumTimes ==
    ASSUME NEW S, IsFiniteSet(S), NEW f, \A i \in S : f[i] \in Int, NEW c \in Int
    PROVE  SumFunctionOnSet([i \in S |-> c * f[i]], S) = c * SumFunctionOnSet(f, S)
<1> DEFINE h == [s \in SUBSET S |-> c * SumFunctionOnSet(f, s)]
           k == [i \in S |-> c * f[i]]
<1>1. h[{}] = 0
  BY SumOfNone
<1>2. ASSUME NEW s \in SUBSET S, NEW x \in s PROVE h[s] = k[x] + h[s \ {x}]
  <2>1. IsFiniteSet(s) /\ IsFiniteSet(s \ {x})
    BY FS_Subset
  <2>2. SumFunctionOnSet(f, s) = f[x] + SumFunctionOnSet(f, s \ {x})
    BY <2>1, SumOfRest
  <2>3. SumFunctionOnSet(f, s \ {x}) \in Int
    BY <2>1, SumType
  <2> QED BY <2>2, <2>3
<1>3. h[S] = c * SumFunctionOnSet(f, S)
  OBVIOUS
<1>4. \A i \in S : k[i] \in Int
  OBVIOUS
<1>6. \A s \in SUBSET S : \A x \in s : h[s] = k[x] + h[s \ {x}]
  BY <1>2
<1> HIDE DEF h, k
<1>5. SumFunctionOnSet(k, S) = h[S]
  <2>1. AddsUp(k, S, h)
    BY <1>1, <1>4, <1>6 DEF AddsUp
  <2> QED BY <2>1, SumIs
<1> QED BY <1>3, <1>5 DEF k

(* and of one number.                                                      *)
LEMMA SumConstant ==
    ASSUME NEW S, IsFiniteSet(S), NEW c \in Int
    PROVE  SumFunctionOnSet([i \in S |-> c], S) = Cardinality(S) * c
<1> DEFINE h == [s \in SUBSET S |-> Cardinality(s) * c]
           k == [i \in S |-> c]
<1>1. h[{}] = 0
  BY FS_EmptySet
<1>2. ASSUME NEW s \in SUBSET S, NEW x \in s PROVE h[s] = k[x] + h[s \ {x}]
  <2>1. IsFiniteSet(s)
    BY FS_Subset
  <2>2. Cardinality(s \ {x}) = Cardinality(s) - 1 /\ Cardinality(s) \in Nat
    BY <2>1, FS_RemoveElement, FS_CardinalityType
  <2> QED BY <2>2
<1>3. h[S] = Cardinality(S) * c
  OBVIOUS
<1>4. \A i \in S : k[i] \in Int
  OBVIOUS
<1>6. \A s \in SUBSET S : \A x \in s : h[s] = k[x] + h[s \ {x}]
  BY <1>2
<1> HIDE DEF h, k
<1>5. SumFunctionOnSet(k, S) = h[S]
  <2>1. AddsUp(k, S, h)
    BY <1>1, <1>4, <1>6 DEF AddsUp
  <2> QED BY <2>1, SumIs
<1> QED BY <1>3, <1>5 DEF k

(* A sum of naturals is a natural, and no less than any of its terms.      *)
LEMMA SumIsNat ==
    ASSUME NEW S, IsFiniteSet(S), NEW f, \A i \in S : f[i] \in Nat
    PROVE  /\ SumFunctionOnSet(f, S) \in Nat
           /\ \A x \in S : f[x] <= SumFunctionOnSet(f, S)
<1> DEFINE sum(s) == SumFunctionOnSet(f, s)
           B == {s \in SUBSET S : sum(s) \notin Nat}
<1>1. ASSUME B # {} PROVE FALSE
  <2>1. PICK s \in B : \A x \in s : s \ {x} \notin B
    BY <1>1, SmallestException, Zenon
  <2>2. s \subseteq S /\ IsFiniteSet(s) /\ sum(s) \notin Nat
    BY FS_Subset
  <2>3. s # {}
    BY <2>2, SumOfNone
  <2>4. PICK x \in s : TRUE
    BY <2>3
  <2>5. sum(s \ {x}) \in Nat
    BY <2>1, <2>2, <2>4
  <2>6. sum(s) = f[x] + sum(s \ {x})
    BY <2>2, <2>4, SumOfRest
  <2> QED BY <2>2, <2>4, <2>5, <2>6
<1>2. \A s \in SUBSET S : sum(s) \in Nat
  BY <1>1
<1>3. ASSUME NEW x \in S PROVE f[x] <= sum(S)
  <2>1. sum(S) = f[x] + sum(S \ {x})
    BY SumOfRest
  <2>2. sum(S \ {x}) \in Nat
    BY <1>2
  <2> HIDE DEF sum
  <2> QED BY <2>1, <2>2
<1> QED BY <1>2, <1>3

(* More terms, greater sum.                                                *)
LEMMA SumOfMore ==
    ASSUME NEW S, IsFiniteSet(S), NEW f, \A i \in S : f[i] \in Nat, NEW R \in SUBSET S
    PROVE  SumFunctionOnSet(f, R) <= SumFunctionOnSet(f, S)
<1> DEFINE sum(s) == SumFunctionOnSet(f, s)
           B == {s \in SUBSET (S \ R) : sum(R) > sum(R \cup s)}
<1>1. \A s \in SUBSET S : sum(s) \in Nat
  BY FS_Subset, SumIsNat
<1>2. ASSUME B # {} PROVE FALSE
  <2>1. PICK s \in B : \A x \in s : s \ {x} \notin B
    <3>1. B \subseteq SUBSET (S \ R) /\ IsFiniteSet(S \ R)
      BY FS_Subset
    <3> HIDE DEF B
    <3> QED BY <1>2, <3>1, SmallestException, Zenon
  <2>2. s \subseteq S \ R /\ sum(R) > sum(R \cup s) /\ sum(R) \in Nat
    BY <1>1
  <2>3. s # {}
    <3>1. s = {} => R \cup s = R
      OBVIOUS
    <3> HIDE DEF sum
    <3> QED BY <2>2, <3>1
  <2>4. PICK x \in s : TRUE
    BY <2>3
  <2> DEFINE t == R \cup (s \ {x})
  <2>5. sum(R) <= sum(t)
    <3>1. s \ {x} \in SUBSET (S \ R) /\ s \ {x} \notin B
      BY <2>1, <2>4
    <3>2. sum(t) \in Nat
      <4>1. t \in SUBSET S
        BY <2>2
      <4> QED BY <1>1, <4>1
    <3>3. ~(sum(R) > sum(t))
      BY <3>1
    <3> HIDE DEF sum, t
    <3> QED BY <2>2, <3>2, <3>3
  <2>6. sum(R \cup s) = f[x] + sum(t)
    <3>1. R \cup s \in SUBSET S /\ x \in R \cup s /\ (R \cup s) \ {x} = t
      BY <2>2, <2>4
    <3>2. IsFiniteSet(R \cup s) /\ \A i \in R \cup s : f[i] \in Int
      BY <3>1, FS_Subset
    <3> DEFINE v == R \cup s
    <3>3. IsFiniteSet(v) /\ (\A i \in v : f[i] \in Int) /\ x \in v /\ v \ {x} = t
      BY <3>1, <3>2
    <3> HIDE DEF v, t
    <3>4. sum(v) = f[x] + sum(v \ {x})
      BY <3>3, SumOfRest
    <3> QED BY <3>3, <3>4 DEF v
  <2>7. f[x] \in Nat /\ sum(t) \in Nat
    <3>1. x \in S /\ t \in SUBSET S
      BY <2>2, <2>4
    <3> QED BY <1>1, <3>1
  <2> HIDE DEF sum, t
  <2> QED BY <2>2, <2>5, <2>6, <2>7
<1>3. S \ R \notin B /\ R \cup (S \ R) = S
  BY <1>2
<1>4. sum(R) \in Nat /\ sum(S) \in Nat
  BY <1>1
<1>5. ~(sum(R) > sum(S))
  BY <1>3
<1> HIDE DEF sum
<1>6. sum(R) <= sum(S)
  BY <1>4, <1>5
<1> QED BY <1>6 DEF sum

(* Greater terms, greater sum.                                             *)
LEMMA SumIsMonotone ==
    ASSUME NEW S, IsFiniteSet(S), NEW f, NEW g,
           \A i \in S : f[i] \in Int /\ g[i] \in Int /\ f[i] <= g[i]
    PROVE  /\ SumFunctionOnSet(f, S) <= SumFunctionOnSet(g, S)
           /\ (\E i \in S : f[i] < g[i]) =>
                SumFunctionOnSet(f, S) < SumFunctionOnSet(g, S)
<1> DEFINE d == [i \in S |-> g[i] - f[i]]
           e == [i \in S |-> f[i] + d[i]]
<1>1. \A i \in S : d[i] \in Nat /\ e[i] = g[i]
  OBVIOUS
<1> HIDE DEF d
<1>2. SumFunctionOnSet(e, S) = SumFunctionOnSet(f, S) + SumFunctionOnSet(d, S)
  BY <1>1, SumPlus
<1> HIDE DEF e
<1>3. SumFunctionOnSet(e, S) = SumFunctionOnSet(g, S)
  BY <1>1, SumOfSame
<1>4. SumFunctionOnSet(d, S) \in Nat /\ \A i \in S : d[i] <= SumFunctionOnSet(d, S)
  BY <1>1, SumIsNat
<1>5. SumFunctionOnSet(f, S) \in Int /\ SumFunctionOnSet(g, S) \in Int
  BY SumType
<1>6. \A i \in S : d[i] = g[i] - f[i]
  BY DEF d
<1> QED BY <1>1, <1>2, <1>3, <1>4, <1>5, <1>6
=================================================================================
