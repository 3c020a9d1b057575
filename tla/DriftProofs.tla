---------------------------- MODULE DriftProofs ----------------------------
(***************************************************************************)
(* Proofs about the collector, for any number of pairs, any kinds of       *)
(* result and number of them, any thresholds and with or without SQL       *)
(* faults: the statistics are what they are called, an alert is about      *)
(* something that was measured, and a baseline is not moved by the drift   *)
(* it is there to show.                                                    *)
(*                                                                         *)
(* The statistics rest on sums over the kinds of result.  MapThenSumSet    *)
(* is a recursive function on subsets: that the recursion has a solution   *)
(* and what it sums up to is shown by induction on the size of the set,    *)
(* as a least counterexample (SmallestSet).                                *)
(***************************************************************************)
EXTENDS Drift, FiniteSetTheorems, WellFoundedInduction, NaturalsInduction, TLAPS

-----------------------------------------------------------------------------
(* Induction.                                                              *)

LEMMA LeastNat ==
  ASSUME NEW S \in SUBSET Nat, S # {}
  PROVE  \E i \in S : \A k \in S : i <= k
<1> DEFINE Less == {ss \in Nat \X Nat : ss[1] < ss[2]}
<1>1. IsWellFoundedOn(Less, Nat)
  BY NatLessThanWellFounded DEF OpToRel
<1>2. \E i \in S : \A k \in S : <<k, i>> \notin Less
  <2> HIDE DEF Less
  <2> QED
    BY <1>1, WFMin
<1>3. PICK i \in S : \A k \in S : <<k, i>> \notin Less
  BY <1>2
<1>4. ASSUME NEW k \in S PROVE i <= k
  <2>1. k \in Nat /\ i \in Nat
    OBVIOUS
  <2>2. ~(k < i)
    BY <1>3, <2>1
  <2> QED
    BY <2>1, <2>2
<1> QED
  BY <1>4

\* Induction over finite sets, as a least counterexample.
LEMMA SmallestSet ==
  ASSUME NEW C, C # {}, \A s \in C : IsFiniteSet(s)
  PROVE  \E s \in C : \A x \in s : s \ {x} \notin C
<1> DEFINE N == {Cardinality(s) : s \in C}
<1>1. N \in SUBSET Nat /\ N # {}
  BY FS_CardinalityType
<1>2. PICK n \in N : \A k \in N : n <= k
  <2> HIDE DEF N
  <2> QED BY <1>1, LeastNat
<1>3. PICK s \in C : n = Cardinality(s)
  BY <1>2
<1>4. ASSUME NEW x \in s, s \ {x} \in C PROVE FALSE
  <2>1. Cardinality(s \ {x}) = Cardinality(s) - 1
    BY <1>3, FS_RemoveElement
  <2>2. Cardinality(s \ {x}) \in N
    BY <1>4
  <2>3. n \in Nat
    BY <1>1, <1>2
  <2> QED
    BY <1>2, <1>3, <2>1, <2>2, <2>3
<1> QED
  BY <1>3, <1>4

-----------------------------------------------------------------------------
\* The element that MapThenSumSet splits off.
Pick(s) == CHOOSE x \in s : TRUE

\* One step of the sum of f, as MapThenFoldSet takes it.
SumStep(g, f, s) == IF s = {} THEN 0 ELSE f[Pick(s)] + g[s \ {Pick(s)}]

\* g is the function it defines by recursion on the subsets of T.
IsSum(g, f, T) == g = [s \in SUBSET T |-> SumStep(g, f, s)]

LEMMA PickIn ==
  ASSUME NEW s, s # {}
  PROVE  Pick(s) \in s
BY DEF Pick

\* The recursion of MapThenFoldSet has a solution on a finite set: it is built up by size.
LEMMA SumExists ==
  ASSUME NEW f, NEW T, IsFiniteSet(T)
  PROVE  \E g : IsSum(g, f, T)
<1> DEFINE Upto(g, n) == \A s \in SUBSET T : Cardinality(s) <= n => g[s] = SumStep(g, f, s)
           S == {n \in Nat : ~\E g : Upto(g, n)}
<1>0. \A s \in SUBSET T : IsFiniteSet(s) /\ Cardinality(s) \in Nat
  BY FS_Subset, FS_CardinalityType
<1>1. S = {}
  <2> SUFFICES ASSUME S # {} PROVE FALSE
    OBVIOUS
  <2>1. PICK n \in S : \A k \in S : n <= k
    <3>1. S \in SUBSET Nat
      OBVIOUS
    <3> HIDE DEF S
    <3> QED
      BY <3>1, LeastNat
  <2>2. ASSUME n = 0 PROVE FALSE
    <3> DEFINE g == [s \in SUBSET T |-> 0]
    <3>1. \A s \in SUBSET T : Cardinality(s) <= n => s = {}
      BY <1>0, <2>2, FS_EmptySet
    <3>2. Upto(g, n)
      BY <3>1 DEF SumStep
    <3> QED
      BY <3>2
  <2>3. ASSUME n # 0 PROVE FALSE
    <3>1. n - 1 \in Nat /\ n - 1 \notin S
      BY <2>1, <2>3
    <3>2. PICK g : Upto(g, n - 1)
      BY <3>1
    <3> DEFINE h == [s \in SUBSET T |-> IF Cardinality(s) = n THEN SumStep(g, f, s) ELSE g[s]]
    <3>3. ASSUME NEW s \in SUBSET T, Cardinality(s) <= n PROVE h[s] = SumStep(h, f, s)
      <4>1. CASE s = {}
        <5>1. Cardinality(s) = 0
          BY <4>1, FS_EmptySet
        <5>2. Cardinality(s) # n /\ Cardinality(s) <= n - 1
          BY <2>3, <3>1, <5>1
        <5>3. h[s] = g[s] /\ g[s] = SumStep(g, f, s)
          BY <3>2, <5>2
        <5> QED
          BY <4>1, <5>3 DEF SumStep
      <4>2. CASE s # {}
        <5> DEFINE t == s \ {Pick(s)}
        <5>1. t \in SUBSET T /\ Cardinality(t) = Cardinality(s) - 1 /\ Cardinality(s) \in Nat
          BY <1>0, <4>2, PickIn, FS_RemoveElement
        <5>2. h[t] = g[t]
          BY <3>3, <5>1
        <5>3. SumStep(h, f, s) = SumStep(g, f, s)
          BY <5>2 DEF SumStep
        <5>4. CASE Cardinality(s) = n
          BY <5>3, <5>4
        <5>5. CASE Cardinality(s) # n
          BY <3>1, <3>2, <3>3, <5>1, <5>3, <5>5
        <5> QED
          BY <5>4, <5>5
      <4> QED
        BY <4>1, <4>2
    <3>4. Upto(h, n)
      BY <3>3
    <3> QED
      BY <3>4
  <2> QED
    BY <2>2, <2>3
<1>2. PICK g : Upto(g, Cardinality(T))
  BY <1>0, <1>1
<1> DEFINE h == [s \in SUBSET T |-> g[s]]
<1>3. ASSUME NEW s \in SUBSET T PROVE h[s] = SumStep(h, f, s)
  <2>1. Cardinality(s) <= Cardinality(T)
    BY FS_Subset
  <2>2. g[s] = SumStep(g, f, s)
    BY <1>2, <2>1
  <2>3. s # {} => s \ {Pick(s)} \in SUBSET T
    OBVIOUS
  <2> QED
    BY <2>2, <2>3 DEF SumStep
<1>4. IsSum(h, f, T)
  BY <1>3 DEF IsSum
<1> QED
  BY <1>4

\* Total(f, T) is the solution, taken at T.
LEMMA TotalIsSum ==
  ASSUME NEW f, NEW T, IsFiniteSet(T)
  PROVE  \E g : IsSum(g, f, T) /\ Total(f, T) = g[T]
<1>1. \E g : g = [s \in SUBSET T |->
                    IF s = {} THEN 0 ELSE f[CHOOSE x \in s : TRUE]
                                            + g[s \ {CHOOSE x \in s : TRUE}]]
  <2>1. \E g : IsSum(g, f, T)
    BY SumExists
  <2> QED
    BY <2>1 DEF IsSum, SumStep, Pick
<1> DEFINE iter == CHOOSE g : g = [s \in SUBSET T |->
                    IF s = {} THEN 0 ELSE f[CHOOSE x \in s : TRUE]
                                            + g[s \ {CHOOSE x \in s : TRUE}]]
<1>2. IsSum(iter, f, T)
  BY <1>1 DEF IsSum, SumStep, Pick
<1>3. Total(f, T) = iter[T]
  BY DEF Total, MapThenSumSet, MapThenFoldSet
<1> QED
  BY <1>2, <1>3

\* A solution is unique.
LEMMA SumIsTotal ==
  ASSUME NEW f, NEW T, IsFiniteSet(T), NEW g, IsSum(g, f, T), NEW s \in SUBSET T
  PROVE  g[s] = Total(f, s)
<1>1. IsFiniteSet(s)
  BY FS_Subset
<1>2. PICK h : IsSum(h, f, s) /\ Total(f, s) = h[s]
  BY <1>1, TotalIsSum
<1> DEFINE C == {t \in SUBSET s : g[t] # h[t]}
<1>3. ASSUME C # {} PROVE FALSE
  <2>1. \A t \in C : IsFiniteSet(t)
    BY <1>1, FS_Subset
  <2>2. PICK t \in C : \A x \in t : t \ {x} \notin C
    <3> HIDE DEF C
    <3> QED
      BY <1>3, <2>1, SmallestSet
  <2>3. t \in SUBSET s /\ t \in SUBSET T
    OBVIOUS
  <2>4. g[t] = SumStep(g, f, t) /\ h[t] = SumStep(h, f, t)
    BY <1>2, <2>3 DEF IsSum
  <2>5. CASE t = {}
    BY <2>2, <2>4, <2>5 DEF SumStep
  <2>6. CASE t # {}
    <3>1. g[t \ {Pick(t)}] = h[t \ {Pick(t)}]
      BY <2>2, <2>3, <2>6, PickIn
    <3> QED
      BY <2>2, <2>4, <2>6, <3>1 DEF SumStep
  <2> QED
    BY <2>5, <2>6
<1> QED
  BY <1>2, <1>3

LEMMA TotalRecursion ==
  ASSUME NEW f, NEW T, IsFiniteSet(T)
  PROVE  /\ T = {} => Total(f, T) = 0
         /\ T # {} => Total(f, T) = f[Pick(T)] + Total(f, T \ {Pick(T)})
<1>1. PICK g : IsSum(g, f, T) /\ Total(f, T) = g[T]
  BY TotalIsSum
<1>2. g[T] = SumStep(g, f, T)
  BY <1>1 DEF IsSum
<1>3. g[T \ {Pick(T)}] = Total(f, T \ {Pick(T)})
  <2> DEFINE r == T \ {Pick(T)}
  <2>1. r \in SUBSET T /\ IsSum(g, f, T)
    BY <1>1
  <2> HIDE DEF r
  <2>2. g[r] = Total(f, r)
    BY <2>1, SumIsTotal
  <2> QED
    BY <2>2 DEF r
<1> QED
  BY <1>1, <1>2, <1>3 DEF SumStep

-----------------------------------------------------------------------------
(* Sums of naturals over kinds of result.                                  *)

LEMMA KindsAreFinite ==
  ASSUME NEW T \in SUBSET Level
  PROVE  IsFiniteSet(T)
BY StatsAssumption, FS_Subset

LEMMA TotalNat ==
  ASSUME NEW f \in [Level -> Nat], NEW T \in SUBSET Level
  PROVE  Total(f, T) \in Nat
<1> DEFINE C == {t \in SUBSET Level : Total(f, t) \notin Nat}
<1>1. ASSUME C # {} PROVE FALSE
  <2>1. \A t \in C : IsFiniteSet(t)
    BY KindsAreFinite
  <2>2. PICK t \in C : \A x \in t : t \ {x} \notin C
    <3> HIDE DEF C
    <3> QED
      BY <1>1, <2>1, SmallestSet
  <2>3. CASE t = {}
    <3>1. Total(f, t) = 0
      BY <2>1, <2>3, TotalRecursion
    <3> QED
      BY <2>2, <3>1
  <2>4. CASE t # {}
    <3>1. Pick(t) \in t /\ f[Pick(t)] \in Nat
      BY <2>4, PickIn
    <3>2. Total(f, t \ {Pick(t)}) \in Nat
      BY <2>2, <3>1
    <3>3. Total(f, t) = f[Pick(t)] + Total(f, t \ {Pick(t)})
      BY <2>1, <2>4, TotalRecursion
    <3> QED
      BY <3>1, <3>2, <3>3
  <2> QED
    BY <2>3, <2>4
<1> QED
  BY <1>1

\* The order of a sum does not matter: any kind may be split off.
LEMMA TotalSplit ==
  ASSUME NEW f \in [Level -> Nat], NEW T \in SUBSET Level, NEW x \in T
  PROVE  Total(f, T) = f[x] + Total(f, T \ {x})
<1> DEFINE C == {t \in SUBSET Level : \E y \in t : Total(f, t) # f[y] + Total(f, t \ {y})}
<1>1. ASSUME C # {} PROVE FALSE
  <2>1. \A t \in C : IsFiniteSet(t)
    BY KindsAreFinite
  <2>2. PICK t \in C : \A y \in t : t \ {y} \notin C
    <3> HIDE DEF C
    <3> QED
      BY <1>1, <2>1, SmallestSet
  <2>3. PICK y \in t : Total(f, t) # f[y] + Total(f, t \ {y})
    OBVIOUS
  <2> DEFINE p == Pick(t)
             r == t \ {y}
             q == t \ {p}
  <2>4. p \in t /\ Total(f, t) = f[p] + Total(f, q)
    BY <2>1, <2>3, PickIn, TotalRecursion
  <2>5. p # y
    BY <2>3, <2>4
  <2>6. Total(f, q) = f[y] + Total(f, q \ {y})
    <3>1. q \in SUBSET Level /\ q \notin C /\ y \in q
      BY <2>2, <2>4, <2>5
    <3> QED
      BY <3>1
  <2>7. Total(f, r) = f[p] + Total(f, r \ {p})
    <3>1. r \in SUBSET Level /\ r \notin C /\ p \in r
      BY <2>2, <2>3, <2>4, <2>5
    <3> QED
      BY <3>1
  <2>8. q \ {y} = r \ {p}
    OBVIOUS
  <2>9. f[p] \in Nat /\ f[y] \in Nat /\ Total(f, r \ {p}) \in Nat
    BY <2>4, TotalNat
  <2> QED
    BY <2>3, <2>4, <2>6, <2>7, <2>8, <2>9
<1> QED
  BY <1>1

LEMMA TotalBounds ==
  ASSUME NEW f \in [Level -> Nat], NEW T \in SUBSET Level, NEW x \in T
  PROVE  f[x] <= Total(f, T)
<1>1. Total(f, T) = f[x] + Total(f, T \ {x})
  BY TotalSplit
<1>2. f[x] \in Nat /\ Total(f, T \ {x}) \in Nat
  BY TotalNat
<1> QED
  BY <1>1, <1>2

\* Kinds without results do not count.
LEMMA TotalIgnoresZeros ==
  ASSUME NEW f \in [Level -> Nat], NEW T \in SUBSET Level, NEW U \in SUBSET Level,
         T \subseteq U, \A l \in U \ T : f[l] = 0
  PROVE  Total(f, U) = Total(f, T)
<1> DEFINE C == {u \in SUBSET U : T \subseteq u /\ Total(f, u) # Total(f, T)}
<1>1. ASSUME C # {} PROVE FALSE
  <2>1. \A u \in C : IsFiniteSet(u)
    BY KindsAreFinite
  <2>2. PICK u \in C : \A x \in u : u \ {x} \notin C
    <3> HIDE DEF C
    <3> QED
      BY <1>1, <2>1, SmallestSet
  <2>3. PICK x \in u : x \notin T
    BY <2>2
  <2>4. f[x] = 0 /\ u \in SUBSET Level
    BY <2>3
  <2>5. Total(f, u \ {x}) = Total(f, T)
    BY <2>2, <2>3
  <2>6. Total(f, u) = f[x] + Total(f, u \ {x})
    BY <2>4, TotalSplit
  <2>7. Total(f, T) \in Nat
    BY TotalNat
  <2> QED
    BY <2>2, <2>4, <2>5, <2>6, <2>7
<1> QED
  BY <1>1

-----------------------------------------------------------------------------
(* The k-th smallest figure.                                               *)

\* The figures of metric m among the results.
Figures(w, m) == {Value[l][m] : l \in {x \in Level : w[x] > 0}}

LEMMA ValuesAreNumbers ==
  ASSUME NEW l \in Level, NEW m \in Metric
  PROVE  Value[l][m] \in Nat
BY StatsAssumption

LEMMA CountNat ==
  ASSUME NEW w \in [Level -> Nat]
  PROVE  Count(w) \in Nat
BY TotalNat DEF Count

LEMMA AtMostNat ==
  ASSUME NEW w \in [Level -> Nat], NEW m \in Metric, NEW v
  PROVE  AtMost(w, m, v) \in Nat
BY TotalNat DEF AtMost

\* All figures are below some number, for instance their sum.
LEMMA ValuesAreBounded ==
  ASSUME NEW m \in Metric
  PROVE  \E b \in Nat : \A l \in Level : Value[l][m] <= b
<1> DEFINE f == [l \in Level |-> Value[l][m]]
<1>1. f \in [Level -> Nat]
  BY ValuesAreNumbers
<1>2. Total(f, Level) \in Nat /\ \A l \in Level : f[l] <= Total(f, Level)
  <2> HIDE DEF f
  <2> QED
    BY <1>1, TotalNat, TotalBounds
<1> QED
  BY <1>2

\* AtMost jumps only at a figure that was measured.
LEMMA JumpIsAFigure ==
  ASSUME NEW w \in [Level -> Nat], NEW m \in Metric, NEW v \in Nat, AtMost(w, m, v) > 0,
         v > 0 => AtMost(w, m, v - 1) # AtMost(w, m, v)
  PROVE  v \in Figures(w, m)
<1> DEFINE U == {l \in Level : Value[l][m] <= v}
<1> SUFFICES ASSUME v \notin Figures(w, m) PROVE FALSE
  OBVIOUS
<1>1. \A l \in Level : Value[l][m] \in Nat /\ w[l] \in Nat
  BY ValuesAreNumbers
<1>2. \A l \in Level : Value[l][m] = v => w[l] = 0
  BY <1>1 DEF Figures
<1>3. CASE v = 0
  <2>1. \A l \in U : w[l] = 0
    BY <1>1, <1>2, <1>3
  <2>2. Total(w, U) = Total(w, {})
    <3>1. U \in SUBSET Level /\ {} \in SUBSET Level /\ {} \subseteq U
      OBVIOUS
    <3>2. \A l \in U \ {} : w[l] = 0
      BY <2>1
    <3> HIDE DEF U
    <3> QED
      BY <3>1, <3>2, TotalIgnoresZeros
  <2>3. Total(w, {}) = 0
    BY TotalRecursion, FS_EmptySet
  <2> QED
    BY <2>2, <2>3 DEF AtMost
<1>4. CASE v > 0
  <2> DEFINE T == {l \in Level : Value[l][m] <= v - 1}
  <2>1. T \subseteq U /\ \A l \in U \ T : w[l] = 0
    BY <1>1, <1>2
  <2>2. U \in SUBSET Level /\ T \in SUBSET Level
    OBVIOUS
  <2>3. Total(w, U) = Total(w, T)
    <3> HIDE DEF U, T
    <3> QED
      BY <2>1, <2>2, TotalIgnoresZeros
  <2> QED
    BY <1>4, <2>3 DEF AtMost
<1> QED
  BY <1>3, <1>4

\* Sorted returns a figure that was measured, at most as large as any with k results below it.
LEMMA SortedIsAFigure ==
  ASSUME NEW w \in [Level -> Nat], NEW m \in Metric, NEW k \in 1..Count(w)
  PROVE  /\ Sorted(w, m, k) \in Figures(w, m) /\ Sorted(w, m, k) \in Nat
         /\ AtMost(w, m, Sorted(w, m, k)) >= k
         /\ \A v \in Nat : AtMost(w, m, v) >= k => Sorted(w, m, k) <= v
<1>0. k \in Nat /\ k >= 1 /\ k <= Count(w) /\ Count(w) \in Nat
  BY CountNat
<1> DEFINE R == {v \in Nat : AtMost(w, m, v) >= k}
<1>1. R # {}
  <2>1. PICK b \in Nat : \A l \in Level : Value[l][m] <= b
    BY ValuesAreBounded
  <2>2. {l \in Level : Value[l][m] <= b} = Level
    BY <2>1
  <2>3. AtMost(w, m, b) = Count(w)
    BY <2>2 DEF AtMost, Count
  <2> QED
    BY <1>0, <2>3
<1>2. PICK v \in R : \A u \in R : v <= u
  <2>1. R \in SUBSET Nat
    OBVIOUS
  <2> HIDE DEF R
  <2> QED
    BY <1>1, <2>1, LeastNat
<1>3. v \in Nat /\ AtMost(w, m, v) >= k /\ AtMost(w, m, v) \in Nat
  BY <1>2, AtMostNat
<1>4. v \in Figures(w, m)
  <2>1. v > 0 => AtMost(w, m, v - 1) # AtMost(w, m, v)
    <3> SUFFICES ASSUME v > 0, AtMost(w, m, v - 1) = AtMost(w, m, v) PROVE FALSE
      OBVIOUS
    <3>1. v - 1 \in R
      BY <1>3
    <3> QED
      BY <1>2, <1>3, <3>1
  <2>2. AtMost(w, m, v) > 0
    BY <1>0, <1>3
  <2> QED
    BY <1>3, <2>1, <2>2, JumpIsAFigure
<1> DEFINE Q == {u \in Figures(w, m) : AtMost(w, m, u) >= k}
<1>5. Q \subseteq R
  BY ValuesAreNumbers DEF Figures
<1>6. v \in Q /\ \A u \in Q : v <= u
  BY <1>2, <1>3, <1>4, <1>5
<1>7. Sorted(w, m, k) = Min(Q)
  BY DEF Sorted, Figures
<1>8. Min(Q) = v
  <2>1. \A u \in Q : u \in Nat
    BY <1>5
  <2> HIDE DEF Q, R
  <2>2. \A x \in Q : (\A u \in Q : x <= u) => x = v
    BY <1>6, <2>1
  <2> QED
    BY <1>6, <2>2 DEF Min
<1> QED
  BY <1>2, <1>3, <1>4, <1>7, <1>8

LEMMA SortedIsSorted ==
  ASSUME NEW w \in [Level -> Nat], NEW m \in Metric, NEW k \in 1..Count(w), k + 1 <= Count(w)
  PROVE  Sorted(w, m, k) <= Sorted(w, m, k + 1)
<1>0. Count(w) \in Nat
  BY CountNat
<1>1. k + 1 \in 1..Count(w) /\ k \in Nat
  BY <1>0
<1>2. /\ Sorted(w, m, k + 1) \in Nat
      /\ AtMost(w, m, Sorted(w, m, k + 1)) >= k + 1
  BY <1>1, SortedIsAFigure
<1>3. AtMost(w, m, Sorted(w, m, k + 1)) >= k
  BY <1>1, <1>2, AtMostNat
<1> QED
  BY <1>2, <1>3, SortedIsAFigure

LEMMA SomethingWasMeasured ==
  ASSUME NEW w \in [Level -> Nat], NEW m \in Metric, Count(w) >= 1
  PROVE  Figures(w, m) # {} /\ Figures(w, m) \subseteq Nat
<1>1. 1 \in 1..Count(w)
  BY CountNat
<1> QED
  BY <1>1, SortedIsAFigure, ValuesAreNumbers DEF Figures

\* The largest figure was measured too.
LEMMA MaxIsAFigure ==
  ASSUME NEW w \in [Level -> Nat], NEW m \in Metric, Count(w) >= 1
  PROVE  Max(Figures(w, m)) \in Figures(w, m)
<1> DEFINE F == Figures(w, m)
           R == {v \in Nat : \A u \in F : u <= v}
<1>1. F # {} /\ F \subseteq Nat
  BY SomethingWasMeasured
<1>2. R # {}
  BY ValuesAreBounded DEF Figures
<1>3. PICK v \in R : \A u \in R : v <= u
  <2>1. R \in SUBSET Nat
    OBVIOUS
  <2> HIDE DEF R
  <2> QED
    BY <1>2, <2>1, LeastNat
<1>4. v \in F
  <2> SUFFICES ASSUME v \notin F PROVE FALSE
    OBVIOUS
  <2> HIDE DEF F
  <2>1. \A u \in F : u <= v - 1
    BY <1>1, <1>3
  <2>2. v - 1 \in Nat
    <3>1. PICK u \in F : u \in Nat
      BY <1>1
    <3>2. u <= v - 1 /\ v \in Nat
      BY <1>3, <2>1
    <3> QED
      BY <3>1, <3>2
  <2> QED
    BY <1>3, <2>1, <2>2
<1>5. \E x \in F : \A y \in F : x >= y
  BY <1>1, <1>3, <1>4
<1> HIDE DEF F
<1>6. Max(F) \in F
  BY <1>5 DEF Max
<1> QED
  BY <1>6 DEF F

-----------------------------------------------------------------------------
(* The mean lies between the extremes.                                     *)

LEMMA TotalMonotone ==
  ASSUME NEW f \in [Level -> Nat], NEW g \in [Level -> Nat], NEW T \in SUBSET Level,
         \A l \in T : f[l] <= g[l]
  PROVE  Total(f, T) <= Total(g, T)
<1> DEFINE C == {t \in SUBSET T : ~(Total(f, t) <= Total(g, t))}
<1>1. ASSUME C # {} PROVE FALSE
  <2>1. \A t \in C : IsFiniteSet(t)
    BY KindsAreFinite
  <2>2. PICK t \in C : \A x \in t : t \ {x} \notin C
    <3> HIDE DEF C
    <3> QED
      BY <1>1, <2>1, SmallestSet
  <2>3. t \in SUBSET Level /\ ~(Total(f, t) <= Total(g, t))
    BY <2>2
  <2>4. CASE t = {}
    <3>1. Total(f, t) = 0 /\ Total(g, t) = 0
      BY <2>1, <2>4, TotalRecursion
    <3> QED
      BY <2>3, <3>1
  <2>5. CASE t # {}
    <3>1. PICK x \in t : TRUE
      BY <2>5
    <3>2. Total(f, t) = f[x] + Total(f, t \ {x}) /\ Total(g, t) = g[x] + Total(g, t \ {x})
      BY <2>3, <3>1, TotalSplit
    <3>3. Total(f, t \ {x}) <= Total(g, t \ {x})
      BY <2>2, <3>1
    <3>4. /\ f[x] \in Nat /\ g[x] \in Nat /\ f[x] <= g[x]
          /\ Total(f, t \ {x}) \in Nat /\ Total(g, t \ {x}) \in Nat
      BY <2>3, <3>1, TotalNat
    <3> QED
      BY <2>3, <3>2, <3>3, <3>4
  <2> QED
    BY <2>4, <2>5
<1> QED
  BY <1>1

LEMMA TotalStrict ==
  ASSUME NEW f \in [Level -> Nat], NEW g \in [Level -> Nat], \A l \in Level : f[l] <= g[l],
         NEW x \in Level, f[x] < g[x]
  PROVE  Total(f, Level) < Total(g, Level)
<1> DEFINE T == Level \ {x}
<1>1. /\ Total(f, Level) = f[x] + Total(f, T) /\ Total(g, Level) = g[x] + Total(g, T)
  BY TotalSplit
<1>2. Total(f, T) <= Total(g, T)
  <2>1. T \in SUBSET Level
    OBVIOUS
  <2>2. \A l \in T : f[l] <= g[l]
    OBVIOUS
  <2> HIDE DEF T
  <2> QED
    BY <2>1, <2>2, TotalMonotone
<1>3. f[x] \in Nat /\ g[x] \in Nat /\ Total(f, T) \in Nat /\ Total(g, T) \in Nat
  BY TotalNat
<1> QED
  BY <1>1, <1>2, <1>3

LEMMA Distributes ==
  ASSUME NEW a \in Int, NEW b \in Int, NEW c \in Int
  PROVE  a * (b + c) = a * b + a * c
OBVIOUS

LEMMA TotalScales ==
  ASSUME NEW f \in [Level -> Nat], NEW g \in [Level -> Nat], NEW c \in Nat,
         \A l \in Level : g[l] = c * f[l]
  PROVE  Total(g, Level) = c * Total(f, Level)
<1> DEFINE C == {t \in SUBSET Level : Total(g, t) # c * Total(f, t)}
<1>1. ASSUME C # {} PROVE FALSE
  <2>1. \A t \in C : IsFiniteSet(t)
    BY KindsAreFinite
  <2>2. PICK t \in C : \A x \in t : t \ {x} \notin C
    <3> HIDE DEF C
    <3> QED
      BY <1>1, <2>1, SmallestSet
  <2>3. t \in SUBSET Level /\ Total(g, t) # c * Total(f, t)
    BY <2>2
  <2>4. CASE t = {}
    <3>1. Total(f, t) = 0 /\ Total(g, t) = 0
      BY <2>1, <2>4, TotalRecursion
    <3> QED
      BY <2>3, <3>1
  <2>5. CASE t # {}
    <3>1. PICK x \in t : TRUE
      BY <2>5
    <3>2. Total(f, t) = f[x] + Total(f, t \ {x}) /\ Total(g, t) = g[x] + Total(g, t \ {x})
      BY <2>3, <3>1, TotalSplit
    <3>3. Total(g, t \ {x}) = c * Total(f, t \ {x})
      BY <2>2, <3>1
    <3>4. g[x] = c * f[x] /\ f[x] \in Int /\ Total(f, t \ {x}) \in Int
      BY <2>3, <3>1, TotalNat
    <3>5. c * Total(f, t) = c * f[x] + c * Total(f, t \ {x})
      BY <3>2, <3>4, Distributes
    <3> QED
      BY <2>3, <3>2, <3>3, <3>4, <3>5
  <2> QED
    BY <2>4, <2>5
<1>2. Level \notin C
  BY <1>1
<1> QED
  BY <1>2

LEMMA ProductMonotone ==
  ASSUME NEW a \in Int, NEW b \in Int, NEW c \in Nat, a <= b
  PROVE  c * a <= c * b
OBVIOUS

LEMMA ProductStrict ==
  ASSUME NEW a \in Int, NEW b \in Int, NEW c \in Nat, c > 0, a < b
  PROVE  c * a < c * b
OBVIOUS

\* Some result is at least the mean, and some at most.
LEMMA MeanIsBetween ==
  ASSUME NEW w \in [Level -> Nat], NEW m \in Metric, Count(w) >= 1
  PROVE  LET s == Total([l \in Level |-> w[l] * Value[l][m]], Level)
         IN  /\ s \in Nat
             /\ \E l \in Level : w[l] > 0 /\ Value[l][m] * Count(w) >= s
             /\ \E l \in Level : w[l] > 0 /\ Value[l][m] * Count(w) <= s
<1> DEFINE f == [l \in Level |-> w[l] * Value[l][m]]
           s == Total(f, Level)
           n == Count(w)
           fn == [l \in Level |-> n * f[l]]
           ws == [l \in Level |-> s * w[l]]
<1>1. \A l \in Level : w[l] \in Nat /\ Value[l][m] \in Nat
  BY ValuesAreNumbers
<1>2. f \in [Level -> Nat]
  BY <1>1
<1>3. s \in Nat /\ n \in Nat
  <2> HIDE DEF f
  <2> QED
    BY <1>2, CountNat, TotalNat
<1>4. \A l \in Level : fn[l] = w[l] * (Value[l][m] * n) /\ ws[l] = w[l] * s
  <2> SUFFICES ASSUME NEW l \in Level PROVE fn[l] = w[l] * (Value[l][m] * n) /\ ws[l] = w[l] * s
    OBVIOUS
  <2>1. w[l] \in Int /\ Value[l][m] \in Int /\ n \in Int /\ s \in Int
    BY <1>1, <1>3
  <2>2. fn[l] = n * (w[l] * Value[l][m]) /\ ws[l] = s * w[l]
    OBVIOUS
  <2> HIDE DEF s, n, fn, ws, f
  <2>3. n * (w[l] * Value[l][m]) = w[l] * (Value[l][m] * n)
    BY <2>1
  <2>4. s * w[l] = w[l] * s
    BY <2>1
  <2> QED
    BY <2>2, <2>3, <2>4
<1>5. fn \in [Level -> Nat] /\ ws \in [Level -> Nat]
  <2>1. \A l \in Level : n * f[l] \in Nat /\ s * w[l] \in Nat
    <3> HIDE DEF s, n, f
    <3> QED
      BY <1>1, <1>2, <1>3
  <2> HIDE DEF s, n, f
  <2> QED
    BY <2>1
<1>6. Total(fn, Level) = n * s /\ Total(ws, Level) = n * s
  <2>1. \A l \in Level : fn[l] = n * f[l] /\ ws[l] = s * w[l]
    OBVIOUS
  <2>2. Total(fn, Level) = n * Total(f, Level)
    <3> HIDE DEF f, s, n, fn, ws
    <3> QED
      BY <1>2, <1>3, <1>5, <2>1, TotalScales
  <2>3. Total(ws, Level) = s * Total(w, Level)
    <3> HIDE DEF f, s, n, fn, ws
    <3> QED
      BY <1>2, <1>3, <1>5, <2>1, TotalScales
  <2>4. s * Total(w, Level) = n * s
    <3>1. n = Total(w, Level)
      BY DEF Count
    <3> HIDE DEF s, n
    <3> QED
      BY <1>3, <3>1
  <2> QED
    BY <2>2, <2>3, <2>4
<1>7. PICK x \in Level : w[x] > 0
  BY SomethingWasMeasured DEF Figures
<1> HIDE DEF f, s, n, fn, ws
<1>8. n * s \in Nat
  BY <1>3
<1>9. \E l \in Level : w[l] > 0 /\ Value[l][m] * n >= s
  <2> SUFFICES ASSUME \A l \in Level : w[l] > 0 => Value[l][m] * n < s PROVE FALSE
    BY <1>1, <1>3
  <2>1. ASSUME NEW l \in Level PROVE fn[l] <= ws[l] /\ (w[l] > 0 => fn[l] < ws[l])
    <3>1. w[l] \in Nat /\ Value[l][m] * n \in Int /\ s \in Int
      BY <1>1, <1>3
    <3>2. CASE w[l] = 0
      BY <1>4, <3>1, <3>2
    <3>3. CASE w[l] > 0
      <4>1. w[l] * (Value[l][m] * n) < w[l] * s
        BY <3>1, <3>3, ProductStrict
      <4> QED
        BY <1>4, <1>5, <4>1
    <3> QED
      BY <3>1, <3>2, <3>3
  <2>2. Total(fn, Level) < Total(ws, Level)
    BY <1>5, <1>7, <2>1, TotalStrict
  <2> QED
    BY <1>6, <1>8, <2>2
<1>10. \E l \in Level : w[l] > 0 /\ Value[l][m] * n <= s
  <2> SUFFICES ASSUME \A l \in Level : w[l] > 0 => Value[l][m] * n > s PROVE FALSE
    BY <1>1, <1>3
  <2>1. ASSUME NEW l \in Level PROVE ws[l] <= fn[l] /\ (w[l] > 0 => ws[l] < fn[l])
    <3>1. w[l] \in Nat /\ Value[l][m] * n \in Int /\ s \in Int
      BY <1>1, <1>3
    <3>2. CASE w[l] = 0
      BY <1>4, <3>1, <3>2
    <3>3. CASE w[l] > 0
      <4>1. w[l] * s < w[l] * (Value[l][m] * n)
        BY <3>1, <3>3, ProductStrict
      <4> QED
        BY <1>4, <1>5, <4>1
    <3> QED
      BY <3>1, <3>2, <3>3
  <2>2. Total(ws, Level) < Total(fn, Level)
    BY <1>5, <1>7, <2>1, TotalStrict
  <2> QED
    BY <1>6, <1>8, <2>2
<1> QED
  BY <1>3, <1>9, <1>10 DEF s, n, f

-----------------------------------------------------------------------------
(* Each statistic is a rational between two figures that were measured.    *)

\* r lies between two of the figures.
Between(r, w, m) ==
  /\ r \in Rational
  /\ \E l \in Level : w[l] > 0 /\ Value[l][m] * r.d >= r.n
  /\ \E l \in Level : w[l] > 0 /\ Value[l][m] * r.d <= r.n

\* A rational between two measured figures a and b.
LEMMA BetweenFigures ==
  ASSUME NEW w \in [Level -> Nat], NEW m \in Metric, NEW a \in Figures(w, m),
         NEW b \in Figures(w, m), NEW num \in Nat, NEW den \in Nat \ {0},
         a * den <= num, num <= b * den
  PROVE  Between(Ratio(num, den), w, m)
<1>1. PICK k \in Level : w[k] > 0 /\ Value[k][m] = a
  BY DEF Figures
<1>2. PICK l \in Level : w[l] > 0 /\ Value[l][m] = b
  BY DEF Figures
<1>3. a \in Nat /\ b \in Nat
  BY <1>1, <1>2, ValuesAreNumbers
<1>4. Ratio(num, den) \in Rational /\ Ratio(num, den).n = num /\ Ratio(num, den).d = den
  BY DEF Ratio, Rational
<1>5. Value[l][m] * den >= num /\ Value[k][m] * den <= num
  BY <1>1, <1>2, <1>3
<1> QED
  BY <1>1, <1>2, <1>4, <1>5 DEF Between

\* The two neighbours of the median, the same one if the number is odd.
LEMMA MedianIsBetween ==
  ASSUME NEW w \in [Level -> Nat], NEW m \in Metric, Count(w) >= 1
  PROVE  LET n == Count(w)
             a == Sorted(w, m, (n + 1) \div 2)
             b == Sorted(w, m, n \div 2 + 1)
             r == computeMedian(w, m)
         IN  /\ (n + 1) \div 2 \in 1..n /\ n \div 2 + 1 \in 1..n
             /\ r \in Rational /\ a * r.d <= r.n /\ r.n <= b * r.d
             /\ Between(r, w, m)
<1> DEFINE n == Count(w)
           a == Sorted(w, m, (n + 1) \div 2)
           b == Sorted(w, m, n \div 2 + 1)
           r == computeMedian(w, m)
<1>0. n \in Nat /\ n >= 1
  BY CountNat
<1>1. (n + 1) \div 2 \in 1..n /\ n \div 2 + 1 \in 1..n
  <2> HIDE DEF n
  <2> QED
    BY <1>0
<1>2. a \in Figures(w, m) /\ b \in Figures(w, m) /\ a \in Nat /\ b \in Nat
  BY <1>1, SortedIsAFigure
<1>3. CASE n % 2 = 0
  <2>1. (n + 1) \div 2 = n \div 2 /\ n \div 2 \in 1..n /\ n \div 2 + 1 <= n
    <3> HIDE DEF n
    <3> QED
      BY <1>0, <1>3
  <2>2. a <= b
    BY <2>1, SortedIsSorted
  <2>3. r = Ratio(a + b, 2)
    BY <1>3, <2>1 DEF computeMedian
  <2>4. a + b \in Nat /\ a * 2 <= a + b /\ a + b <= b * 2 /\ 2 \in Nat \ {0}
    <3> HIDE DEF a, b
    <3> QED
      BY <1>2, <2>2
  <2>5. Between(r, w, m)
    <3> HIDE DEF a, b, r
    <3> QED
      BY <1>2, <2>3, <2>4, BetweenFigures
  <2>6. r.n = a + b /\ r.d = 2
    BY <2>3 DEF Ratio
  <2> QED
    BY <1>1, <2>4, <2>5, <2>6 DEF Between
<1>4. CASE n % 2 # 0
  <2>1. (n + 1) \div 2 = n \div 2 + 1
    <3> HIDE DEF n
    <3> QED
      BY <1>0, <1>4
  <2>2. a = b
    BY <2>1
  <2>3. r = Ratio(b, 1)
    BY <1>4 DEF computeMedian
  <2>4. b * 1 = b /\ 1 \in Nat \ {0} /\ b <= b * 1 /\ b * 1 <= b
    <3> HIDE DEF b
    <3> QED
      BY <1>2
  <2>5. Between(r, w, m)
    <3> HIDE DEF a, b, r
    <3> QED
      BY <1>2, <2>2, <2>3, <2>4, BetweenFigures
  <2>6. r.n = b /\ r.d = 1
    BY <2>3 DEF Ratio
  <2> QED
    BY <1>1, <2>2, <2>4, <2>5, <2>6 DEF Between
<1> QED
  BY <1>3, <1>4

LEMMA Interpolation ==
  ASSUME NEW a \in Nat, NEW b \in Nat, NEW f \in 0..99, a <= b
  PROVE  /\ a * (100 - f) + b * f \in Nat
         /\ a * 100 <= a * (100 - f) + b * f
         /\ a * (100 - f) + b * f <= b * 100
<1>1. a * (100 - f) = a * 100 - a * f /\ b * (100 - f) = b * 100 - b * f
  OBVIOUS
<1>2. a * f <= b * f /\ a * (100 - f) <= b * (100 - f) /\ a * f \in Nat /\ b * f \in Nat
  <2>1. f * a <= f * b /\ (100 - f) * a <= (100 - f) * b
    BY ProductMonotone
  <2> QED
    BY <2>1
<1>3. a * (100 - f) \in Nat
  OBVIOUS
<1> QED
  BY <1>1, <1>2, <1>3

\* The 95th percentile is at least the figure its index is rounded down to.
LEMMA PercentileIsBetween ==
  ASSUME NEW w \in [Level -> Nat], NEW m \in Metric, Count(w) >= 1
  PROVE  LET n == Count(w)
             k == (95 * (n - 1)) \div 100 + 1
             r == computePercentile(w, m)
         IN  /\ k \in 1..n /\ r \in Rational /\ Sorted(w, m, k) * r.d <= r.n
             /\ Between(r, w, m)
<1> DEFINE n == Count(w)
           lower == (95 * (n - 1)) \div 100
           frac == (95 * (n - 1)) % 100
           a == Sorted(w, m, lower + 1)
           b == Sorted(w, m, lower + 2)
           r == computePercentile(w, m)
<1>0. n \in Nat /\ n >= 1
  BY CountNat
<1>1. lower \in Nat /\ lower + 1 \in 1..n /\ frac \in 0..99
  <2> HIDE DEF n
  <2> QED
    BY <1>0
<1>2. a \in Figures(w, m) /\ a \in Nat
  <2> HIDE DEF lower
  <2> QED
    BY <1>1, SortedIsAFigure
<1>3. CASE lower + 1 >= n
  <2>1. lower + 1 = n
    <3> HIDE DEF lower, n
    <3> QED
      BY <1>0, <1>1, <1>3
  <2>2. r = Ratio(Sorted(w, m, n), 1)
    BY <1>3 DEF computePercentile
  <2>3. r = Ratio(a, 1)
    BY <2>1, <2>2
  <2>4. a * 1 = a /\ 1 \in Nat \ {0} /\ a <= a * 1 /\ a * 1 <= a
    <3> HIDE DEF a
    <3> QED
      BY <1>2
  <2>5. Between(r, w, m)
    <3> HIDE DEF a, r
    <3> QED
      BY <1>2, <2>3, <2>4, BetweenFigures
  <2>6. r.n = a /\ r.d = 1
    BY <2>3 DEF Ratio
  <2> QED
    BY <1>1, <2>4, <2>5, <2>6 DEF Between
<1>4. CASE ~(lower + 1 >= n)
  <2>1. lower + 2 \in 1..n /\ (lower + 1) + 1 <= n /\ (lower + 1) + 1 = lower + 2
    <3> HIDE DEF lower, n
    <3> QED
      BY <1>0, <1>1, <1>4
  <2>2. b \in Figures(w, m) /\ b \in Nat
    <3> HIDE DEF lower
    <3> QED
      BY <2>1, SortedIsAFigure
  <2>3. a <= b
    <3>1. Sorted(w, m, lower + 1) <= Sorted(w, m, (lower + 1) + 1)
      <4> HIDE DEF lower
      <4> QED
        BY <1>1, <2>1, SortedIsSorted
    <3> QED
      BY <2>1, <3>1
  <2>4. r = Ratio(a * (100 - frac) + b * frac, 100)
    BY <1>4 DEF computePercentile
  <2> DEFINE num == a * (100 - frac) + b * frac
  <2>5. num \in Nat /\ a * 100 <= num /\ num <= b * 100 /\ 100 \in Nat \ {0}
    <3> HIDE DEF a, b, frac
    <3> QED
      BY <1>1, <1>2, <2>2, <2>3, Interpolation
  <2>6. Between(r, w, m)
    <3> HIDE DEF a, b, r, num
    <3> QED
      BY <1>2, <2>2, <2>4, <2>5, BetweenFigures DEF num
  <2>7. r.n = num /\ r.d = 100
    BY <2>4 DEF Ratio
  <2> QED
    BY <1>1, <2>5, <2>6, <2>7 DEF Between
<1> QED
  BY <1>3, <1>4

LEMMA StatisticsAreBetween ==
  ASSUME NEW w \in [Level -> Nat], NEW m \in Metric, Count(w) >= 1
  PROVE  Between(ComputeFromResults(w)[m], w, m)
<1>1. CASE m = "ttft_p50"
  BY <1>1, MedianIsBetween DEF ComputeFromResults
<1>2. CASE m = "ttft_p99"
  BY <1>2, PercentileIsBetween DEF ComputeFromResults
<1>3. CASE m = "tok_per_sec"
  <2> DEFINE s == Total([l \in Level |-> w[l] * Value[l][m]], Level)
  <2>1. /\ s \in Nat /\ Count(w) \in Nat \ {0}
        /\ \E l \in Level : w[l] > 0 /\ Value[l][m] * Count(w) >= s
        /\ \E l \in Level : w[l] > 0 /\ Value[l][m] * Count(w) <= s
    BY MeanIsBetween, CountNat
  <2>2. ComputeFromResults(w)[m] = Ratio(s, Count(w))
    BY <1>3 DEF ComputeFromResults, computeMean
  <2> HIDE DEF s
  <2> QED
    BY <2>1, <2>2 DEF Ratio, Rational, Between
<1>4. CASE m = "gpu_mem"
  <2> DEFINE a == Max(Figures(w, m))
  <2>1. a \in Figures(w, m) /\ a \in Nat
    BY MaxIsAFigure, SomethingWasMeasured
  <2>2. ComputeFromResults(w)[m] = Ratio(a, 1)
    BY <1>4 DEF ComputeFromResults, computeMaxInt64, Figures
  <2>3. a * 1 <= a /\ a <= a * 1 /\ 1 \in Nat \ {0}
    <3> HIDE DEF a
    <3> QED
      BY <2>1
  <2> HIDE DEF a
  <2> QED
    BY <2>1, <2>2, <2>3, BetweenFigures
<1> QED
  BY <1>1, <1>2, <1>3, <1>4 DEF Metric

-----------------------------------------------------------------------------
(* A statistic that is worse has a result that is.                         *)

LEMMA Cancel ==
  ASSUME NEW a \in Int, NEW b \in Int, NEW c \in Nat \ {0}, c * a <= c * b
  PROVE  a <= b
<1>1. ASSUME b < a PROVE FALSE
  <2>1. c * b < c * a
    BY <1>1, ProductStrict
  <2> QED
    BY <2>1
<1> QED
  BY <1>1

\* If x deviates by pct percent of a base n, so does y with c * y >= x, of which c * n is the base.
LEMMA DeviationScales ==
  ASSUME NEW x \in Int, NEW y \in Int, NEW c \in Nat \ {0}, NEW n \in Nat, NEW pct \in Nat,
         x > 0, c * y >= x, 100 * x >= pct * n * c
  PROVE  y > 0 /\ 100 * y >= pct * n
<1>1. y > 0
  <2>1. ASSUME y <= 0 PROVE FALSE
    <3>1. c * y <= c * 0
      BY <2>1, ProductMonotone
    <3>2. c * y \in Int
      OBVIOUS
    <3> QED
      BY <3>1, <3>2
  <2> QED
    BY <2>1
<1>2. c * (pct * n) <= c * (100 * y)
  <2>1. c * (pct * n) = pct * n * c /\ c * (100 * y) = 100 * (c * y)
    OBVIOUS
  <2>2. 100 * (c * y) >= 100 * x /\ c * y \in Int /\ pct * n * c \in Int
    OBVIOUS
  <2> QED
    BY <2>1, <2>2
<1>3. pct * n \in Int /\ 100 * y \in Int
  OBVIOUS
<1> QED
  BY <1>1, <1>2, <1>3, Cancel

\* v is at least the statistic c if a rise is bad, at most if a drop is.
LEMMA WorseIsMeasured ==
  ASSUME NEW m \in Metric, NEW b \in Rational, NEW c \in Rational, NEW v \in Nat,
         NEW pct \in Nat, Worse(m, b, c, pct),
         IF m = "tok_per_sec" THEN v * c.d <= c.n ELSE v * c.d >= c.n
  PROVE  Worse(m, b, Ratio(v, 1), pct)
<1> DEFINE bn == b.n  bd == b.d  cn == c.n  cd == c.d
           diff == cn * bd - bn * cd
           raw  == v * bd - bn * 1
<1>1. bn \in Nat /\ bd \in Nat \ {0} /\ cn \in Nat /\ cd \in Nat \ {0}
  BY DEF Rational
<1>2. Ratio(v, 1).n = v /\ Ratio(v, 1).d = 1
  BY DEF Ratio
<1>3. /\ bn # 0
      /\ m = "tok_per_sec" => 0 - diff > 0 /\ 100 * (0 - diff) >= pct * bn * cd
      /\ m # "tok_per_sec" => diff > 0 /\ 100 * diff >= pct * bn * cd
  BY DEF Worse
<1>4. /\ m = "tok_per_sec" => v * cd <= cn
      /\ m # "tok_per_sec" => v * cd >= cn
  OBVIOUS
<1>5. SUFFICES /\ m = "tok_per_sec" => 0 - raw > 0 /\ 100 * (0 - raw) >= pct * bn * 1
               /\ m # "tok_per_sec" => raw > 0 /\ 100 * raw >= pct * bn * 1
  BY <1>2, <1>3 DEF Worse
<1> HIDE DEF bn, bd, cn, cd
<1>6. diff \in Int /\ raw \in Int /\ pct * bn * 1 = pct * bn
  BY <1>1
<1>7. cd * raw = (v * cd) * bd - bn * cd
  <2>1. cd * raw = cd * (v * bd) - cd * bn
    BY <1>1
  <2>2. cd * (v * bd) = (v * cd) * bd /\ cd * bn = bn * cd
    BY <1>1
  <2> QED
    BY <2>1, <2>2
<1>8. CASE m = "tok_per_sec"
  <2>1. (v * cd) * bd <= cn * bd
    <3>1. bd * (v * cd) <= bd * cn
      <4>1. v * cd \in Int /\ cn \in Int /\ bd \in Nat
        BY <1>1
      <4> QED
        BY <1>4, <1>8, <4>1, ProductMonotone
    <3> QED
      BY <1>1, <3>1
  <2>2. cd * (0 - raw) >= 0 - diff
    <3>1. cd * (0 - raw) = 0 - cd * raw
      BY <1>1, <1>6
    <3>2. (v * cd) * bd \in Int /\ cn * bd \in Int /\ bn * cd \in Int
      BY <1>1
    <3> QED
      BY <1>7, <2>1, <3>1, <3>2
  <2>3. 0 - raw \in Int /\ 0 - diff \in Int
    BY <1>6
  <2> HIDE DEF diff, raw
  <2>4. 0 - raw > 0 /\ 100 * (0 - raw) >= pct * bn
    BY <1>1, <1>3, <1>8, <2>2, <2>3, DeviationScales
  <2> QED
    BY <1>6, <1>8, <2>4
<1>9. CASE m # "tok_per_sec"
  <2>1. (v * cd) * bd >= cn * bd
    <3>1. bd * cn <= bd * (v * cd)
      <4>1. v * cd \in Int /\ cn \in Int /\ bd \in Nat /\ cn <= v * cd
        BY <1>1, <1>4, <1>9
      <4> QED
        BY <4>1, ProductMonotone
    <3> QED
      BY <1>1, <3>1
  <2>2. cd * raw >= diff
    <3>2. (v * cd) * bd \in Int /\ cn * bd \in Int /\ bn * cd \in Int
      BY <1>1
    <3> QED
      BY <1>7, <2>1, <3>2
  <2> HIDE DEF diff, raw
  <2>4. raw > 0 /\ 100 * raw >= pct * bn
    BY <1>1, <1>3, <1>6, <1>9, <2>2, DeviationScales
  <2> QED
    BY <1>6, <1>9, <2>4
<1> QED
  BY <1>8, <1>9

\* An alert that checkMetric raises is about a result that was measured.
Witnessed(a, b, w) ==
  \E l \in Level :
    /\ w[l] > 0
    /\ Worse(a.metric, b[a.metric], Raw(l, a.metric),
             IF a.severity = "critical" THEN Critical ELSE Warning)

LEMMA AlertsAreWitnessed ==
  ASSUME NEW w \in [Level -> Nat], Count(w) >= 1, NEW b \in Baseline, NEW p \in Pair
  PROVE  /\ Alerts(p, b, w) \in Seq({a \in Alert : a.pair = p /\ Witnessed(a, b, w)})
         /\ Len(Alerts(p, b, w)) <= 4
<1> DEFINE current == ComputeFromResults(w)
           A == {a \in Alert : a.pair = p /\ Witnessed(a, b, w)}
           alert(m) == [pair |-> p, metric |-> m, severity |-> checkMetric(m, b[m], current[m])]
           Check(m) == IF checkMetric(m, b[m], current[m]) = "none" THEN << >> ELSE << alert(m) >>
<1>1. ASSUME NEW m \in Metric, checkMetric(m, b[m], current[m]) # "none"
      PROVE  alert(m) \in A
  <2> DEFINE sev == checkMetric(m, b[m], current[m])
             pct == IF sev = "critical" THEN Critical ELSE Warning
  <2>1. sev \in {"warning", "critical"} /\ Worse(m, b[m], current[m], pct) /\ pct \in Nat
    BY <1>1, StatsAssumption DEF checkMetric
  <2>2. Between(current[m], w, m)
    BY StatisticsAreBetween
  <2>3. \E l \in Level : /\ w[l] > 0
                         /\ IF m = "tok_per_sec" THEN Value[l][m] * current[m].d <= current[m].n
                            ELSE Value[l][m] * current[m].d >= current[m].n
    BY <2>2 DEF Between
  <2>4. PICK l \in Level : /\ w[l] > 0
                          /\ IF m = "tok_per_sec" THEN Value[l][m] * current[m].d <= current[m].n
                             ELSE Value[l][m] * current[m].d >= current[m].n
    BY <2>3
  <2>5. b[m] \in Rational /\ current[m] \in Rational /\ Value[l][m] \in Nat
    BY <2>2, ValuesAreNumbers DEF Baseline, Between
  <2>6. Worse(m, b[m], Raw(l, m), pct)
    <3> HIDE DEF current, pct
    <3> QED
      BY <2>1, <2>4, <2>5, WorseIsMeasured DEF Raw
  <2>7. alert(m) \in Alert /\ alert(m).pair = p /\ alert(m).metric = m /\ alert(m).severity = sev
    BY <2>1 DEF Alert
  <2> QED
    BY <2>4, <2>6, <2>7 DEF Witnessed
<1>2. \A m \in Metric : Check(m) \in Seq(A) /\ Len(Check(m)) <= 1
  <2> SUFFICES ASSUME NEW m \in Metric PROVE Check(m) \in Seq(A) /\ Len(Check(m)) <= 1
    OBVIOUS
  <2>1. checkMetric(m, b[m], current[m]) # "none" => alert(m) \in A
    BY <1>1
  <2> HIDE DEF A, alert
  <2> QED
    BY <2>1
<1>3. Alerts(p, b, w) = Check("ttft_p50") \o Check("ttft_p99")
                          \o Check("tok_per_sec") \o Check("gpu_mem")
  BY DEF Alerts
<1> DEFINE c1 == Check("ttft_p50")
           c2 == Check("ttft_p99")
           c3 == Check("tok_per_sec")
           c4 == Check("gpu_mem")
<1>4. /\ c1 \in Seq(A) /\ c2 \in Seq(A) /\ c3 \in Seq(A) /\ c4 \in Seq(A)
      /\ Len(c1) <= 1 /\ Len(c2) <= 1 /\ Len(c3) <= 1 /\ Len(c4) <= 1
  BY <1>2 DEF Metric
<1>5. Alerts(p, b, w) = c1 \o c2 \o c3 \o c4
  BY <1>3
<1> HIDE DEF c1, c2, c3, c4, A
<1>6. c1 \o c2 \o c3 \o c4 \in Seq(A) /\ Len(c1 \o c2 \o c3 \o c4) <= 4
  BY <1>4
<1> QED
  BY <1>5, <1>6 DEF A

-----------------------------------------------------------------------------
(* The statistics are what they are called.                                *)

LEMMA TotalComplement ==
  ASSUME NEW f \in [Level -> Nat], NEW T \in SUBSET Level, NEW U \in SUBSET Level, T \subseteq U
  PROVE  Total(f, T) + Total(f, U \ T) = Total(f, U)
<1> DEFINE C == {t \in SUBSET U : Total(f, t) + Total(f, U \ t) # Total(f, U)}
<1>1. ASSUME C # {} PROVE FALSE
  <2>1. \A t \in C : IsFiniteSet(t)
    BY KindsAreFinite
  <2>2. PICK t \in C : \A x \in t : t \ {x} \notin C
    <3> HIDE DEF C
    <3> QED
      BY <1>1, <2>1, SmallestSet
  <2>3. t \in SUBSET U /\ t \in SUBSET Level /\ Total(f, t) + Total(f, U \ t) # Total(f, U)
    BY <2>2
  <2>4. CASE t = {}
    <3>1. Total(f, t) = 0 /\ U \ t = U
      BY <2>1, <2>4, TotalRecursion
    <3>2. Total(f, U) \in Nat
      BY TotalNat
    <3> QED
      BY <2>3, <3>1, <3>2
  <2>5. CASE t # {}
    <3>1. PICK x \in t : TRUE
      BY <2>5
    <3> DEFINE r == t \ {x}
               v == U \ r
    <3>2. r \in SUBSET U /\ r \notin C /\ v \in SUBSET Level /\ x \in v /\ v \ {x} = U \ t
      BY <2>2, <2>3, <3>1
    <3>3. Total(f, r) + Total(f, v) = Total(f, U)
      BY <3>2
    <3>4. Total(f, t) = f[x] + Total(f, r)
      BY <2>3, <3>1, TotalSplit
    <3>5. Total(f, v) = f[x] + Total(f, U \ t)
      <4> HIDE DEF v
      <4> QED
        BY <3>2, TotalSplit
    <3>6. f[x] \in Nat /\ Total(f, r) \in Nat /\ Total(f, U \ t) \in Nat
      BY <2>3, <3>1, <3>2, TotalNat
    <3> HIDE DEF r, v
    <3> QED
      BY <2>3, <3>3, <3>4, <3>5, <3>6
  <2> QED
    BY <2>4, <2>5
<1> QED
  BY <1>1

LEMMA TotalSubset ==
  ASSUME NEW f \in [Level -> Nat], NEW T \in SUBSET Level, NEW U \in SUBSET Level, T \subseteq U
  PROVE  Total(f, T) <= Total(f, U)
<1>1. Total(f, T) + Total(f, U \ T) = Total(f, U)
  BY TotalComplement
<1>2. Total(f, T) \in Nat /\ Total(f, U \ T) \in Nat
  BY TotalNat
<1> QED
  BY <1>1, <1>2

LEMMA FiguresBelow ==
  ASSUME NEW w \in [Level -> Nat], NEW m \in Metric, NEW r \in Rational, NEW k \in 1..Count(w),
         Sorted(w, m, k) * r.d <= r.n
  PROVE  Total(w, {l \in Level : Value[l][m] * r.d <= r.n}) >= k
<1> DEFINE a == Sorted(w, m, k)
           T == {l \in Level : Value[l][m] <= a}
           U == {l \in Level : Value[l][m] * r.d <= r.n}
<1>0. r.n \in Nat /\ r.d \in Nat /\ k \in Nat
  BY CountNat DEF Rational
<1>1. a \in Nat /\ AtMost(w, m, a) >= k /\ a * r.d <= r.n
  BY SortedIsAFigure
<1>2. ASSUME NEW l \in T PROVE l \in U
  <2>1. Value[l][m] \in Nat /\ Value[l][m] <= a
    BY <1>2, ValuesAreNumbers
  <2> HIDE DEF a
  <2>2. r.d * Value[l][m] <= r.d * a
    BY <1>0, <1>1, <2>1, ProductMonotone
  <2>3. Value[l][m] * r.d <= r.n
    BY <1>0, <1>1, <2>1, <2>2
  <2> QED
    BY <2>3
<1>3. T \subseteq U /\ T \in SUBSET Level /\ U \in SUBSET Level
  BY <1>2
<1>4. AtMost(w, m, a) = Total(w, T)
  BY DEF AtMost
<1> HIDE DEF a, T, U
<1>5. Total(w, T) <= Total(w, U) /\ Total(w, T) \in Nat /\ Total(w, U) \in Nat
  BY <1>3, TotalSubset, TotalNat
<1>6. Total(w, U) >= k
  BY <1>0, <1>1, <1>4, <1>5
<1> QED
  BY <1>6 DEF U

LEMMA FiguresAbove ==
  ASSUME NEW w \in [Level -> Nat], NEW m \in Metric, NEW r \in Rational, NEW k \in 1..Count(w),
         r.n <= Sorted(w, m, k) * r.d
  PROVE  Total(w, {l \in Level : Value[l][m] * r.d >= r.n}) >= Count(w) - k + 1
<1> DEFINE b == Sorted(w, m, k)
           T == {l \in Level : Value[l][m] <= b - 1}
           U == {l \in Level : Value[l][m] * r.d >= r.n}
<1>0. r.n \in Nat /\ r.d \in Nat /\ k \in Nat /\ k >= 1 /\ Count(w) \in Nat
  BY CountNat DEF Rational
<1>1. /\ b \in Nat /\ r.n <= b * r.d
      /\ \A v \in Nat : AtMost(w, m, v) >= k => b <= v
  BY SortedIsAFigure
<1>2. Total(w, T) \in Nat /\ Total(w, T) <= k - 1
  <2>1. CASE b = 0
    <3>1. T = {}
      BY <1>1, <2>1, ValuesAreNumbers
    <3>2. Total(w, {}) = 0
      BY TotalRecursion, FS_EmptySet
    <3> HIDE DEF T
    <3> QED
      BY <1>0, <3>1, <3>2
  <2>2. CASE b # 0
    <3>1. b - 1 \in Nat /\ ~(b <= b - 1)
      <4> HIDE DEF b
      <4> QED
        BY <1>1, <2>2
    <3>2. ~(AtMost(w, m, b - 1) >= k) /\ AtMost(w, m, b - 1) \in Nat
      BY <1>1, <3>1, AtMostNat
    <3>3. AtMost(w, m, b - 1) = Total(w, T)
      BY DEF AtMost
    <3> HIDE DEF T, b
    <3> QED
      BY <1>0, <3>2, <3>3
  <2> QED
    BY <2>1, <2>2
<1>3. ASSUME NEW l \in Level \ T PROVE l \in U
  <2>1. Value[l][m] \in Nat /\ b <= Value[l][m]
    BY <1>1, <1>3, ValuesAreNumbers
  <2> HIDE DEF b
  <2>2. r.d * b <= r.d * Value[l][m]
    BY <1>0, <1>1, <2>1, ProductMonotone
  <2>3. Value[l][m] * r.d >= r.n
    BY <1>0, <1>1, <2>1, <2>2
  <2> QED
    BY <2>3
<1>4. Level \ T \subseteq U /\ T \in SUBSET Level /\ U \in SUBSET Level
  BY <1>3
<1> HIDE DEF b, T, U
<1>5. Total(w, T) + Total(w, Level \ T) = Count(w)
  BY <1>4, TotalComplement DEF Count
<1>6. Total(w, Level \ T) <= Total(w, U) /\ Total(w, Level \ T) \in Nat /\ Total(w, U) \in Nat
  BY <1>4, TotalSubset, TotalNat
<1>7. Total(w, U) >= Count(w) - k + 1
  BY <1>0, <1>2, <1>5, <1>6
<1> QED
  BY <1>7 DEF U

LEMMA BetweenCounts ==
  ASSUME NEW w \in [Level -> Nat], NEW m \in Metric, NEW r, Between(r, w, m)
  PROVE  /\ Total(w, {l \in Level : Value[l][m] * r.d <= r.n}) >= 1
         /\ Total(w, {l \in Level : Value[l][m] * r.d >= r.n}) >= 1
<1> DEFINE T == {l \in Level : Value[l][m] * r.d <= r.n}
           U == {l \in Level : Value[l][m] * r.d >= r.n}
<1>1. PICK k \in T : w[k] > 0
  BY DEF Between
<1>2. PICK l \in U : w[l] > 0
  BY DEF Between
<1>3. T \in SUBSET Level /\ U \in SUBSET Level
  OBVIOUS
<1>4. w[k] \in Nat /\ w[l] \in Nat
  BY <1>3
<1> HIDE DEF T, U
<1>5. w[k] <= Total(w, T) /\ w[l] <= Total(w, U) /\ Total(w, T) \in Nat /\ Total(w, U) \in Nat
  BY <1>3, TotalBounds, TotalNat
<1>6. Total(w, T) >= 1 /\ Total(w, U) >= 1
  BY <1>1, <1>2, <1>4, <1>5
<1> QED
  BY <1>6 DEF T, U

\* ComputeFromResults: for lists of any length, half of the results lie on either side of the
\* median and at most a twentieth (rounded up) above the 95th percentile, and every statistic lies
\* between two figures that were measured.
THEOREM StatisticsAreSound ==
  ASSUME NEW MaxCheck \in Nat PROVE StatisticsSound(MaxCheck)
<1> SUFFICES ASSUME NEW w \in {x \in [Level -> 0..MaxCheck] : Count(x) \in 1..MaxCheck},
                    NEW m \in Metric
             PROVE  LET n == Count(w)
                        Leq(r) == Total(w, {l \in Level : Value[l][m] * r.d <= r.n})
                        Geq(r) == Total(w, {l \in Level : Value[l][m] * r.d >= r.n})
                        med == computeMedian(w, m)
                        p95 == computePercentile(w, m)
                        s == ComputeFromResults(w)[m]
                    IN  /\ 2 * Leq(med) >= n /\ 2 * Geq(med) >= n
                        /\ 100 * (n - Leq(p95)) < 5 * (n - 1) + 100 /\ Geq(p95) >= 1
                        /\ Leq(s) >= 1 /\ Geq(s) >= 1
  BY DEF StatisticsSound
<1> DEFINE n == Count(w)
           Leq(r) == Total(w, {l \in Level : Value[l][m] * r.d <= r.n})
           Geq(r) == Total(w, {l \in Level : Value[l][m] * r.d >= r.n})
           med == computeMedian(w, m)
           p95 == computePercentile(w, m)
           s == ComputeFromResults(w)[m]
<1>1. w \in [Level -> Nat] /\ n \in Nat /\ n >= 1
  OBVIOUS
<1>2. \A r : Leq(r) \in Nat /\ Geq(r) \in Nat
  BY <1>1, TotalNat
<1>3. 2 * Leq(med) >= n
  <2>1. (n + 1) \div 2 \in 1..n /\ med \in Rational /\ Sorted(w, m, (n + 1) \div 2) * med.d <= med.n
    BY <1>1, MedianIsBetween
  <2>2. Leq(med) >= (n + 1) \div 2
    <3> HIDE DEF med
    <3> QED
      BY <1>1, <2>1, FiguresBelow
  <2>3. Leq(med) \in Nat
    BY <1>2
  <2> HIDE DEF n, Leq
  <2> QED
    BY <1>1, <2>2, <2>3
<1>4. 2 * Geq(med) >= n
  <2> DEFINE k == n \div 2 + 1
  <2>1. k \in 1..n /\ med \in Rational /\ med.n <= Sorted(w, m, k) * med.d
    BY <1>1, MedianIsBetween
  <2>2. Geq(med) >= n - k + 1
    <3> HIDE DEF med, k
    <3> QED
      BY <1>1, <2>1, FiguresAbove
  <2>3. Geq(med) \in Nat
    BY <1>2
  <2> HIDE DEF n, Geq
  <2> QED
    BY <1>1, <2>2, <2>3
<1>5. 100 * (n - Leq(p95)) < 5 * (n - 1) + 100
  <2> DEFINE k == (95 * (n - 1)) \div 100 + 1
  <2>1. k \in 1..n /\ p95 \in Rational /\ Sorted(w, m, k) * p95.d <= p95.n
    BY <1>1, PercentileIsBetween
  <2>2. Leq(p95) >= k
    <3> HIDE DEF p95, k
    <3> QED
      BY <1>1, <2>1, FiguresBelow
  <2>3. Leq(p95) \in Nat
    BY <1>2
  <2>4. 100 * (n - k) < 5 * (n - 1) + 100 /\ k \in Nat
    <3> HIDE DEF n
    <3> QED
      BY <1>1
  <2> HIDE DEF n, Leq, k
  <2> QED
    BY <1>1, <2>2, <2>3, <2>4
<1>6. Geq(p95) >= 1
  <2>1. Between(p95, w, m)
    BY <1>1, PercentileIsBetween
  <2> HIDE DEF p95
  <2> QED
    BY <1>1, <2>1, BetweenCounts
<1>7. Leq(s) >= 1 /\ Geq(s) >= 1
  <2>1. Between(s, w, m)
    BY <1>1, StatisticsAreBetween
  <2> HIDE DEF s
  <2> QED
    BY <1>1, <2>1, BetweenCounts
<1> QED
  BY <1>3, <1>4, <1>5, <1>6, <1>7

-----------------------------------------------------------------------------
(* The collector.                                                          *)

LEMMA WindowsAreCounts ==
  ASSUME NEW w \in Window
  PROVE  w \in [Level -> Nat] /\ Count(w) \in Nat
<1>1. w \in [Level -> Nat]
  BY DriftAssumption DEF Window
<1> QED
  BY <1>1, CountNat

LEMMA BaselineType ==
  ASSUME NEW w \in Window, Count(w) >= 1
  PROVE  ComputeFromResults(w) \in Baseline
<1>1. \A m \in Metric : ComputeFromResults(w)[m] \in Rational
  BY WindowsAreCounts, StatisticsAreBetween DEF Between
<1> DEFINE figure(m) == CASE m = "ttft_p50"    -> computeMedian(w, m)
                          [] m = "ttft_p99"    -> computePercentile(w, m)
                          [] m = "tok_per_sec" -> computeMean(w, m)
                          [] m = "gpu_mem"     -> computeMaxInt64(w, m)
<1>2. ComputeFromResults(w) = [m \in Metric |-> figure(m)]
  BY DEF ComputeFromResults
<1> HIDE DEF figure
<1> QED
  BY <1>1, <1>2 DEF Baseline

LEMMA PairsAreNumbered ==
  ASSUME NEW ps \in SUBSET Pair, ps # {}
  PROVE  Min(ps) \in ps /\ Min(ps) # 0
<1>1. ps \in SUBSET Nat /\ 0 \notin ps
  BY DriftAssumption DEF Pair
<1>2. \E x \in ps : \A y \in ps : x <= y
  BY <1>1, LeastNat
<1>3. Min(ps) \in ps
  BY <1>2 DEF Min
<1> QED
  BY <1>1, <1>3

\* The parts of DriftInv.
DetectorOK ==
  /\ dpc \in {"idle", "query", "get", "set", "send", "stopped"}
  /\ todo \subseteq Pair /\ at \in Pair \cup {0}
  /\ (at = 0) <=> (dpc \in {"idle", "stopped"})
  /\ results \in Window \cup {None}
  /\ pending \in Seq(Alert) /\ Len(pending) <= 4
  /\ ReadIsEnough /\ (dpc = "send" => pending # << >>)

StoreOK == window \in [Pair -> Window] /\ baseline \in [Pair -> Baseline \cup {None}]

NotifierOK ==
  /\ channel \in Seq(Alert) /\ Len(channel) <= ChannelCap
  /\ cancelled \in BOOLEAN
  /\ npc \in {"idle", "sending", "stopped"}

LEMMA DriftParts == DriftInv <=> StoreOK /\ DetectorOK /\ NotifierOK
BY DEF DriftInv, TypeOK, StoreOK, DetectorOK, NotifierOK

LEMMA DriftPartsNext == DriftInv' <=> StoreOK' /\ DetectorOK' /\ NotifierOK'
BY DEF DriftInv, TypeOK, StoreOK, DetectorOK, NotifierOK

\* Going on to the next pair leaves the detector well typed.
LEMMA ContinueIsTyped ==
  ASSUME NEW ps \in SUBSET Pair, Continue(ps)
  PROVE  DetectorOK' /\ dpc' # "send"
<1>1. << >> \in Seq(Alert) /\ Len(<< >>) <= 4
  OBVIOUS
<1>2. results' = None /\ pending' = << >>
  BY DEF Continue
<1>3. CASE ps = {}
  <2>1. dpc' = "idle" /\ at' = 0 /\ todo' = {}
    BY <1>3 DEF Continue
  <2> QED
    BY <1>1, <1>2, <2>1 DEF DetectorOK, ReadIsEnough
<1>4. CASE ps # {}
  <2>1. dpc' = "query" /\ at' = Min(ps) /\ todo' = ps \ {Min(ps)}
    BY <1>4 DEF Continue
  <2>2. at' \in Pair /\ at' # 0 /\ todo' \subseteq Pair
    BY <1>4, <2>1, PairsAreNumbered
  <2> QED
    BY <1>1, <1>2, <2>1, <2>2 DEF DetectorOK, ReadIsEnough
<1> QED
  BY <1>3, <1>4

LEMMA NoStep ==
  /\ StoreOK /\ UNCHANGED storeVars => StoreOK'
  /\ DetectorOK /\ UNCHANGED detectorVars => DetectorOK'
  /\ NotifierOK /\ UNCHANGED <<channel, cancelled, npc>> => NotifierOK'
BY DEF StoreOK, DetectorOK, NotifierOK, ReadIsEnough, storeVars, detectorVars

\* What is raised is witnessed by the results that were read.
LEMMA CompareStep ==
  ASSUME DriftInv, dpc = "get", Compare(baseline[at])
  PROVE  /\ DetectorOK'
         /\ dpc' = "send" =>
              /\ baseline[at] # None
              /\ pending' \in Seq({a \in Alert :
                                    a.pair = at /\ Witnessed(a, baseline[at], results)})
<1> DEFINE b == baseline[at]
           enough == Count(results) >= MinCompute
           alerts == IF b # None /\ enough THEN Alerts(at, b, results) ELSE << >>
           A == {a \in Alert : a.pair = at /\ Witnessed(a, b, results)}
<1>1. StoreOK /\ DetectorOK
  BY DriftParts
<1>2. at \in Pair /\ results \in Window /\ Count(results) >= 1 /\ todo \in SUBSET Pair
  BY <1>1 DEF DetectorOK, ReadIsEnough
<1>3. b \in Baseline \cup {None}
  BY <1>1, <1>2 DEF StoreOK
<1>4. CASE b = None /\ enough
  <2>1. dpc' = "set" /\ UNCHANGED <<todo, at, results, pending>>
    BY <1>4 DEF Compare
  <2> QED
    BY <1>1, <1>2, <2>1 DEF DetectorOK, ReadIsEnough
<1>5. CASE ~(b = None /\ enough) /\ alerts # << >>
  <2>1. /\ dpc' = "send" /\ pending' = alerts /\ results' = None
        /\ UNCHANGED <<todo, at>>
    BY <1>5 DEF Compare
  <2>2. b # None /\ b \in Baseline /\ alerts = Alerts(at, b, results)
    BY <1>3, <1>5
  <2>3. Alerts(at, b, results) \in Seq(A) /\ Len(Alerts(at, b, results)) <= 4
    <3> HIDE DEF b
    <3> QED
      BY <1>2, <2>2, WindowsAreCounts, AlertsAreWitnessed
  <2>4. Seq(A) \subseteq Seq(Alert)
    <3>1. A \subseteq Alert
      OBVIOUS
    <3> HIDE DEF A
    <3> QED
      BY <3>1
  <2> HIDE DEF A, b, alerts
  <2>5. pending' \in Seq(A) /\ pending' \in Seq(Alert) /\ Len(pending') <= 4 /\ pending' # << >>
    BY <1>5, <2>1, <2>2, <2>3, <2>4
  <2>6. DetectorOK'
    BY <1>1, <1>2, <2>1, <2>5, DriftAssumption DEF DetectorOK, ReadIsEnough, Pair
  <2> QED
    BY <2>2, <2>5, <2>6 DEF A, b
<1>6. CASE ~(b = None /\ enough) /\ alerts = << >>
  <2>1. Continue(todo)
    BY <1>6 DEF Compare
  <2> QED
    BY <1>2, <2>1, ContinueIsTyped
<1> QED
  BY <1>4, <1>5, <1>6

LEMMA RecordStep ==
  ASSUME StoreOK, NEW p \in Pair, NEW l \in Level, RecordResult(p, l) \/ ResultExpires(p, l)
  PROVE  StoreOK'
<1>1. window[p] \in Window /\ window \in [Pair -> Window]
  BY DEF StoreOK
<1>2. window[p][l] \in Nat /\ window[p][l] <= MaxSamples /\ MaxSamples \in Nat
  BY <1>1, DriftAssumption DEF Window
<1>3. CASE RecordResult(p, l)
  <2>1. /\ window[p][l] <= Count(window[p])
        /\ Count(window[p]) < MaxSamples /\ Count(window[p]) \in Nat
    BY <1>1, <1>3, WindowsAreCounts, TotalBounds DEF RecordResult, Count
  <2>2. window[p][l] + 1 \in 0..MaxSamples
    BY <1>2, <2>1
  <2>3. window' = [window EXCEPT ![p] = [window[p] EXCEPT ![l] = window[p][l] + 1]]
    BY <1>3 DEF RecordResult
  <2>4. [window[p] EXCEPT ![l] = window[p][l] + 1] \in Window
    BY <1>1, <2>2 DEF Window
  <2>5. window' \in [Pair -> Window]
    BY <1>1, <2>3, <2>4
  <2> QED
    BY <1>3, <2>5 DEF StoreOK, RecordResult
<1>4. CASE ResultExpires(p, l)
  <2>2. window[p][l] - 1 \in 0..MaxSamples
    BY <1>2, <1>4 DEF ResultExpires
  <2>3. window' = [window EXCEPT ![p] = [window[p] EXCEPT ![l] = window[p][l] - 1]]
    BY <1>4 DEF ResultExpires
  <2>4. [window[p] EXCEPT ![l] = window[p][l] - 1] \in Window
    BY <1>1, <2>2 DEF Window
  <2>5. window' \in [Pair -> Window]
    BY <1>1, <2>3, <2>4
  <2> QED
    BY <1>4, <2>5 DEF StoreOK, ResultExpires
<1> QED
  BY <1>3, <1>4

\* What AlertHasWitness says of a step that raises alerts.
AlertsWitnessed ==
  \A i \in DOMAIN pending' :
         LET a == pending'[i] IN
         /\ baseline[a.pair] # None
         /\ \E l \in Level :
              /\ results[l] > 0
              /\ Worse(a.metric, baseline[a.pair][a.metric], Raw(l, a.metric),
                       IF a.severity = "critical" THEN Critical ELSE Warning)

LEMMA DriftStep ==
  ASSUME DriftInv, [Next]_vars
  PROVE  DriftInv' /\ (dpc # "send" /\ dpc' = "send" => AlertsWitnessed)
<1> DEFINE Goal == DriftInv' /\ (dpc # "send" /\ dpc' = "send" => AlertsWitnessed)
<1>0. StoreOK /\ DetectorOK /\ NotifierOK
  BY DriftParts
<1>1. todo \in SUBSET Pair
  BY <1>0 DEF DetectorOK
<1>2. ASSUME NEW p \in Pair, NEW l \in Level, RecordResult(p, l) \/ ResultExpires(p, l)
      PROVE  Goal
  <2>1. UNCHANGED <<detectorVars, channel, cancelled, npc>>
    BY <1>2 DEF RecordResult, ResultExpires
  <2> QED
    BY <1>0, <1>2, <2>1, RecordStep, NoStep, DriftPartsNext DEF detectorVars
<1>3. ASSUME NEW p \in Pair, ResetBaseline(p) PROVE Goal
  <2>1. StoreOK'
    BY <1>0, <1>3 DEF StoreOK, ResetBaseline
  <2>2. UNCHANGED <<detectorVars, channel, cancelled, npc>>
    BY <1>3 DEF ResetBaseline
  <2> QED
    BY <1>0, <2>1, <2>2, NoStep, DriftPartsNext DEF detectorVars
<1>4. ASSUME StartCheck \/ CheckFails PROVE Goal
  <2>1. UNCHANGED <<storeVars, channel, cancelled, npc>> /\ \E ps \in SUBSET Pair : Continue(ps)
    BY <1>1, <1>4 DEF StartCheck, CheckFails
  <2> QED
    BY <1>0, <2>1, ContinueIsTyped, NoStep, DriftPartsNext
<1>5. ASSUME QueryResults PROVE Goal
  <2>1. UNCHANGED <<storeVars, channel, cancelled, npc>>
    BY <1>5 DEF QueryResults
  <2>2. CASE Continue(todo)
    BY <1>0, <1>1, <2>1, <2>2, ContinueIsTyped, NoStep, DriftPartsNext
  <2>3. CASE ~(Count(window[at]) < MinSamples)
    <3>1. results' = window[at] /\ dpc' = "get" /\ UNCHANGED <<todo, at, pending>> /\ dpc = "query"
      BY <1>5, <2>3 DEF QueryResults
    <3>2. at \in Pair /\ at # 0
      BY <1>0, <3>1 DEF DetectorOK
    <3>3. window[at] \in Window
      BY <1>0, <3>2 DEF StoreOK
    <3>4. Count(window[at]) >= 1
      BY <2>3, <3>3, WindowsAreCounts, DriftAssumption
    <3>5. DetectorOK'
      BY <1>0, <3>1, <3>2, <3>3, <3>4 DEF DetectorOK, ReadIsEnough
    <3> QED
      BY <1>0, <2>1, <3>1, <3>5, NoStep, DriftPartsNext
  <2> QED
    BY <1>5, <2>2, <2>3 DEF QueryResults
<1>6. ASSUME GetBaseline PROVE Goal
  <2>1. UNCHANGED <<storeVars, channel, cancelled, npc>> /\ dpc = "get" /\ Compare(baseline[at])
    BY <1>6 DEF GetBaseline
  <2>2. DriftInv'
    BY <1>0, <2>1, CompareStep, NoStep, DriftPartsNext
  <2>3. ASSUME dpc' = "send" PROVE AlertsWitnessed
    <3> DEFINE A == {a \in Alert : a.pair = at /\ Witnessed(a, baseline[at], results)}
    <3>1. baseline[at] # None /\ pending' \in Seq(A)
      BY <2>1, <2>3, CompareStep
    <3>2. \A i \in DOMAIN pending' : pending'[i] \in A
      <4> HIDE DEF A
      <4> QED
        BY <3>1
    <3> QED
      BY <3>1, <3>2 DEF AlertsWitnessed, Witnessed
  <2> QED
    BY <2>2, <2>3
<1>7. ASSUME SetBaseline PROVE Goal
  <2>1. dpc = "set" /\ Continue(todo) /\ UNCHANGED <<window, channel, cancelled, npc>>
    BY <1>7 DEF SetBaseline
  <2>2. at \in Pair /\ results \in Window /\ Count(results) >= 1
    BY <1>0, <2>1 DEF DetectorOK, ReadIsEnough
  <2>3. ComputeFromResults(results) \in Baseline
    BY <2>2, BaselineType
  <2>4. \/ baseline' = [baseline EXCEPT ![at] = ComputeFromResults(results)]
        \/ UNCHANGED baseline
    BY <1>7 DEF SetBaseline
  <2>5. StoreOK'
    BY <1>0, <2>1, <2>2, <2>3, <2>4 DEF StoreOK
  <2> QED
    BY <1>0, <1>1, <2>1, <2>5, ContinueIsTyped, NoStep, DriftPartsNext
<1>8. ASSUME SendAlert PROVE Goal
  <2>1. /\ dpc = "send" /\ AfterAlert /\ UNCHANGED <<storeVars, cancelled, npc>>
        /\ channel' = IF Len(channel) < ChannelCap THEN Append(channel, Head(pending)) ELSE channel
    BY <1>8 DEF SendAlert
  <2>2. pending \in Seq(Alert) /\ pending # << >> /\ Len(pending) <= 4
    BY <1>0, <2>1 DEF DetectorOK
  <2>3. /\ Head(pending) \in Alert /\ Tail(pending) \in Seq(Alert)
        /\ Len(Tail(pending)) = Len(pending) - 1
    BY <2>2
  <2>4. channel' \in Seq(Alert) /\ Len(channel') <= ChannelCap
    BY <1>0, <2>1, <2>3, DriftAssumption DEF NotifierOK
  <2>5. NotifierOK'
    BY <1>0, <2>1, <2>4 DEF NotifierOK
  <2>6. CASE Len(pending) = 1
    BY <1>0, <1>1, <2>1, <2>5, <2>6, ContinueIsTyped, NoStep, DriftPartsNext DEF AfterAlert
  <2>7. CASE Len(pending) # 1
    <3>1. pending' = Tail(pending) /\ UNCHANGED <<dpc, todo, at, results>>
      BY <2>1, <2>7 DEF AfterAlert
    <3>2. Tail(pending) # << >> /\ Len(Tail(pending)) <= 4
      <4>1. Len(pending) \in Nat /\ Len(pending) # 0
        BY <2>2
      <4>2. Len(Tail(pending)) # 0 /\ Len(Tail(pending)) <= 4
        BY <2>2, <2>3, <2>7, <4>1
      <4>3. Len(<< >>) = 0
        OBVIOUS
      <4> QED
        BY <4>2, <4>3
    <3>3. DetectorOK'
      BY <1>0, <2>1, <2>3, <3>1, <3>2 DEF DetectorOK, ReadIsEnough
    <3> QED
      BY <1>0, <2>1, <2>5, <3>3, NoStep, DriftPartsNext
  <2> QED
    BY <2>6, <2>7
<1>9. ASSUME StopDetector PROVE Goal
  <2>1. /\ dpc = "idle" /\ dpc' = "stopped" /\ UNCHANGED <<todo, at, results, pending>>
        /\ UNCHANGED <<storeVars, channel, cancelled, npc>>
    BY <1>9 DEF StopDetector, storeVars
  <2>2. DetectorOK'
    BY <1>0, <2>1 DEF DetectorOK, ReadIsEnough
  <2> QED
    BY <1>0, <2>1, <2>2, NoStep, DriftPartsNext
<1>10. ASSUME Receive \/ SendEnds \/ StopNotifier \/ Shutdown PROVE Goal
  <2>1. UNCHANGED <<storeVars, detectorVars>>
    BY <1>10 DEF Receive, SendEnds, StopNotifier, Shutdown
  <2>2. NotifierOK'
    <3>1. CASE Receive
      <4>1. Tail(channel) \in Seq(Alert) /\ Len(Tail(channel)) <= ChannelCap
        BY <1>0, <3>1, DriftAssumption DEF NotifierOK, Receive
      <4> QED
        BY <1>0, <3>1, <4>1 DEF NotifierOK, Receive
    <3>2. CASE SendEnds \/ StopNotifier \/ Shutdown
      BY <1>0, <3>2 DEF NotifierOK, SendEnds, StopNotifier, Shutdown
    <3> QED
      BY <1>10, <3>1, <3>2
  <2> QED
    BY <1>0, <2>1, <2>2, NoStep, DriftPartsNext DEF detectorVars
<1>11. ASSUME Restart PROVE Goal
  <2>1. UNCHANGED storeVars /\ StartGoroutines
    BY <1>11 DEF Restart
  <2>2. << >> \in Seq(Alert) /\ Len(<< >>) = 0
    OBVIOUS
  <2>3. DetectorOK' /\ dpc' = "idle"
    BY <2>1, <2>2 DEF StartGoroutines, DetectorOK, ReadIsEnough
  <2>4. NotifierOK'
    <3>1. Len(<< >>) <= ChannelCap
      BY <2>2, DriftAssumption
    <3>2. channel' = << >> /\ cancelled' = FALSE /\ npc' = "idle"
      BY <2>1 DEF StartGoroutines
    <3> QED
      BY <2>2, <3>1, <3>2 DEF NotifierOK
  <2> QED
    BY <1>0, <2>1, <2>3, <2>4, NoStep, DriftPartsNext
<1>12. ASSUME UNCHANGED vars PROVE Goal
  BY <1>0, <1>12, NoStep, DriftPartsNext DEF vars, detectorVars
<1> HIDE DEF Goal
<1>13. Goal
  BY <1>2, <1>3, <1>4, <1>5, <1>6, <1>7, <1>8, <1>9, <1>10, <1>11, <1>12 DEF Next
<1> QED
  BY <1>13 DEF Goal

\* DriftInv is an invariant: the collector's state is well typed, a check that has read results has
\* at least one, and a detector that sends has something to send.
THEOREM DriftInvariance == Spec => []DriftInv
<1>1. Init => DriftInv
  <2> SUFFICES ASSUME Init PROVE DriftInv
    OBVIOUS
  <2>1. << >> \in Seq(Alert) /\ Len(<< >>) = 0 /\ [l \in Level |-> 0] \in Window
    BY DriftAssumption DEF Window
  <2>2. StoreOK
    BY <2>1 DEF Init, StoreOK
  <2>3. DetectorOK
    BY <2>1 DEF Init, DetectorOK, ReadIsEnough
  <2>4. NotifierOK
    <3>1. Len(<< >>) <= ChannelCap
      BY <2>1, DriftAssumption
    <3>2. channel = << >> /\ cancelled = FALSE /\ npc = "idle"
      BY DEF Init
    <3> QED
      BY <2>1, <3>1, <3>2 DEF NotifierOK
  <2> QED
    BY <2>2, <2>3, <2>4, DriftParts
<1>2. DriftInv /\ [Next]_vars => DriftInv'
  BY DriftStep
<1> QED
  BY <1>1, <1>2, PTL DEF Spec

\* checkEngineModel: whenever it raises an alert, one of the results it has read deviates from the
\* stored baseline of that pair by the alert's threshold, in the bad direction.
THEOREM AlertsHaveWitnesses == Spec => AlertHasWitness
<1>1. DriftInv /\ [Next]_vars =>
        [dpc # "send" /\ dpc' = "send" =>
           \A i \in DOMAIN pending' :
             LET a == pending'[i] IN
             /\ baseline[a.pair] # None
             /\ \E l \in Level :
                  /\ results[l] > 0
                  /\ Worse(a.metric, baseline[a.pair][a.metric], Raw(l, a.metric),
                           IF a.severity = "critical" THEN Critical ELSE Warning)]_vars
  BY DriftStep DEF AlertsWitnessed
<1> QED
  BY <1>1, DriftInvariance, PTL DEF Spec, AlertHasWitness

\* The instance of StatisticsAreSound that TLC computes.
THEOREM StatisticsHold == Spec => []StatisticsSoundTo12
<1>1. 12 \in Nat
  OBVIOUS
<1>2. StatisticsSoundTo12
  BY <1>1, StatisticsAreSound DEF StatisticsSoundTo12
<1> QED
  BY <1>2, PTL

-----------------------------------------------------------------------------
(* Baselines.  Set is an upsert, and the check that it fills a missing row *)
(* is a statement before: what carries over is that only the detector      *)
(* writes baselines and that a reset does no more than remove one.         *)

\* The detector's step to "set" rests on a missing row, which nobody else fills.
LEMMA CompareFindsNone ==
  ASSUME NEW b, Compare(b), dpc' = "set"
  PROVE  b = None /\ at' = at
<1> DEFINE enough == Count(results) >= MinCompute
           alerts == IF b # None /\ enough THEN Alerts(at, b, results) ELSE << >>
<1>1. CASE b = None /\ enough
  BY <1>1 DEF Compare
<1>2. CASE ~(b = None /\ enough) /\ alerts # << >>
  BY <1>2 DEF Compare
<1>3. CASE ~(b = None /\ enough) /\ alerts = << >>
  <2>1. Continue(todo)
    BY <1>3 DEF Compare
  <2> QED
    BY <2>1 DEF Continue
<1> QED
  BY <1>1, <1>2, <1>3

LEMMA ContinueDoesNotSet ==
  ASSUME NEW ps, Continue(ps)
  PROVE  dpc' # "set"
BY DEF Continue

\* No step replaces a row by another one, and the invariant is kept.
LEMMA BaselineStep ==
  ASSUME SetFillsAGap, [Next]_vars
  PROVE  /\ SetFillsAGap'
         /\ \A p \in Pair : baseline[p] # None => baseline'[p] \in {baseline[p], None}
<1> DEFINE Goal == /\ SetFillsAGap'
                   /\ \A p \in Pair : baseline[p] # None => baseline'[p] \in {baseline[p], None}
<1> SUFFICES Goal
  OBVIOUS
<1>1. ASSUME UNCHANGED <<baseline, dpc, at>> PROVE Goal
  BY <1>1 DEF SetFillsAGap
<1>2. ASSUME UNCHANGED baseline, dpc' # "set" PROVE Goal
  BY <1>2 DEF SetFillsAGap
<1>3. ASSUME NEW p \in Pair, ResetBaseline(p) PROVE Goal
  <2>1. /\ baseline' = [baseline EXCEPT ![p] = None] /\ UNCHANGED <<dpc, at>>
    BY <1>3 DEF ResetBaseline, detectorVars
  <2>2. \A q \in Pair : baseline'[q] = IF q = p THEN None ELSE baseline[q]
    BY <2>1 DEF SetFillsAGap
  <2>3. baseline' = [q \in Pair |-> baseline'[q]]
    BY <2>1 DEF SetFillsAGap
  <2> QED
    BY <2>1, <2>2, <2>3 DEF SetFillsAGap
<1>4. ASSUME GetBaseline PROVE Goal
  <2>1. Compare(baseline[at]) /\ UNCHANGED baseline
    BY <1>4 DEF GetBaseline, storeVars
  <2>2. dpc' = "set" => baseline[at] = None /\ at' = at
    BY <2>1, CompareFindsNone
  <2> QED
    BY <2>1, <2>2 DEF SetFillsAGap
<1>5. ASSUME SetBaseline PROVE Goal
  <2>1. dpc = "set" /\ dpc' # "set"
    BY <1>5, ContinueDoesNotSet DEF SetBaseline
  <2>2. CASE UNCHANGED baseline
    BY <1>2, <2>1, <2>2
  <2>3. CASE baseline' = [baseline EXCEPT ![at] = ComputeFromResults(results)]
    <3>1. \A q \in Pair : q # at => baseline'[q] = baseline[q]
      BY <2>3 DEF SetFillsAGap
    <3>2. baseline' = [q \in Pair |-> baseline'[q]]
      BY <2>3 DEF SetFillsAGap
    <3> QED
      BY <2>1, <3>1, <3>2 DEF SetFillsAGap
  <2> QED
    BY <1>5, <2>2, <2>3 DEF SetBaseline
<1>6. ASSUME StartCheck \/ QueryResults \/ CheckFails \/ StopDetector \/ Restart PROVE Goal
  <2>1. UNCHANGED baseline
    BY <1>6 DEF StartCheck, QueryResults, CheckFails, StopDetector, Restart, storeVars
  <2>2. dpc' # "set"
    BY <1>6, ContinueDoesNotSet
    DEF StartCheck, QueryResults, CheckFails, StopDetector, Restart, StartGoroutines
  <2> QED
    BY <1>2, <2>1, <2>2
<1>7. ASSUME SendAlert PROVE Goal
  <2>1. UNCHANGED baseline /\ dpc = "send" /\ AfterAlert
    BY <1>7 DEF SendAlert, storeVars
  <2>2. dpc' # "set"
    BY <2>1, ContinueDoesNotSet DEF AfterAlert
  <2> QED
    BY <1>2, <2>1, <2>2
<1>8. ASSUME NEW p \in Pair, NEW l \in Level, RecordResult(p, l) \/ ResultExpires(p, l) PROVE Goal
  BY <1>1, <1>8 DEF RecordResult, ResultExpires, detectorVars
<1>9. ASSUME Receive \/ SendEnds \/ StopNotifier \/ Shutdown PROVE Goal
  BY <1>1, <1>9 DEF Receive, SendEnds, StopNotifier, Shutdown, storeVars, detectorVars
<1>10. ASSUME UNCHANGED vars PROVE Goal
  BY <1>1, <1>10 DEF vars, storeVars, detectorVars
<1> HIDE DEF Goal
<1> QED
  BY <1>3, <1>4, <1>5, <1>6, <1>7, <1>8, <1>9, <1>10 DEF Next

\* checkEngineModel and BaselineStore: a baseline stays what it was first computed to be until it
\* is reset, whatever fails, although Set overwrites and does not look.
THEOREM BaselinesStay == Spec => BaselineIsSticky
<1>1. Init => SetFillsAGap
  BY DEF Init, SetFillsAGap
<1>2. SetFillsAGap /\ [Next]_vars
        => /\ SetFillsAGap'
           /\ [\A p \in Pair : baseline[p] # None => baseline'[p] \in {baseline[p], None}]_vars
  BY BaselineStep
<1> QED
  BY <1>1, <1>2, PTL DEF Spec, BaselineIsSticky
=============================================================================
