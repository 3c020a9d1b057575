----------------------------- MODULE DriftStats -----------------------------
(***************************************************************************)
(* The arithmetic of drift detection: ComputeFromResults and its helpers   *)
(* (internal/drift/baseline.go) and checkMetric (detector.go).             *)
(*                                                                         *)
(* The statistics sort or add up their values, so a list of results is a   *)
(* bag: w[l] is how many results of kind l it holds.  A float64 is a       *)
(* rational, a record of numerator n and denominator d > 0; rounding is    *)
(* left out.  Deviations are compared after cross-multiplication.          *)
(***************************************************************************)
EXTENDS Integers, FiniteSets, FiniteSetsExt

CONSTANTS
  Level,       \* the kinds of benchmark result there are
  Value,       \* Value[l][m]: the figure of metric m in a result of kind l
  Warning,     \* WarningThresholdPct
  Critical     \* CriticalThresholdPct

Metric == {"ttft_p50", "ttft_p99", "tok_per_sec", "gpu_mem"}

ASSUME StatsAssumption ==
  /\ IsFiniteSet(Level) /\ Level # {}
  /\ Value \in [Level -> [Metric -> Nat]]
  /\ Warning \in Nat \ {0} /\ Critical \in Nat /\ Warning <= Critical

\* The sum of f over the kinds in T.
Total(f, T) == MapThenSumSet(LAMBDA l : f[l], T)

\* len(results)
Count(w) == Total(w, Level)

\* How many results have a figure of at most v for metric m.
AtMost(w, m, v) == Total(w, {l \in Level : Value[l][m] <= v})

\* sorted[k-1]: the k-th smallest figure.
Sorted(w, m, k) ==
  LET Figures == {Value[l][m] : l \in {x \in Level : w[x] > 0}}
  IN  Min({v \in Figures : AtMost(w, m, v) >= k})

-----------------------------------------------------------------------------
Ratio(num, den) == [n |-> num, d |-> den]

computeMedian(w, m) ==
  LET n == Count(w)
  IN  IF n % 2 = 0
      THEN Ratio(Sorted(w, m, n \div 2) + Sorted(w, m, n \div 2 + 1), 2)
      ELSE Ratio(Sorted(w, m, n \div 2 + 1), 1)

\* Mutant: the weight of the two neighbours is swapped and measured from the upper one.
computePercentileExtrapolating(w, m) ==
  LET n     == Count(w)
      index == 95 * (n - 1)
      lower == index \div 100
      frac  == index % 100
  IN  IF lower + 1 >= n
      THEN Ratio(Sorted(w, m, n), 1)
      ELSE Ratio(Sorted(w, m, lower + 2) * (100 + frac) - Sorted(w, m, lower + 1) * frac, 100)

\* computePercentile(values, 0.95), with linear interpolation.
computePercentile(w, m) ==
  LET n     == Count(w)
      index == 95 * (n - 1)          \* in hundredths
      lower == index \div 100
      frac  == index % 100
  IN  IF lower + 1 >= n
      THEN Ratio(Sorted(w, m, n), 1)
      ELSE Ratio(Sorted(w, m, lower + 1) * (100 - frac) + Sorted(w, m, lower + 2) * frac, 100)

computeMean(w, m) == Ratio(Total([l \in Level |-> w[l] * Value[l][m]], Level), Count(w))

computeMaxInt64(w, m) == Ratio(Max({Value[l][m] : l \in {x \in Level : w[x] > 0}}), 1)

\* ComputeFromResults: the figures of a Baseline.
ComputeFromResults(w) ==
  [m \in Metric |->
     CASE m = "ttft_p50"    -> computeMedian(w, m)
       [] m = "ttft_p99"    -> computePercentile(w, m)
       [] m = "tok_per_sec" -> computeMean(w, m)
       [] m = "gpu_mem"     -> computeMaxInt64(w, m)]

-----------------------------------------------------------------------------
\* current is worse than base by at least pct percent: lower for a throughput, higher for
\* the others.  A base of 0 has no deviation.
Worse(m, base, current, pct) ==
  LET diff == current.n * base.d - base.n * current.d
      bad  == IF m = "tok_per_sec" THEN 0 - diff ELSE diff
  IN  /\ base.n # 0
      /\ bad > 0
      /\ 100 * bad >= pct * base.n * current.d

\* Mutant: a drop and a rise are alike.
checkMetricAnyChange(m, base, current) ==
  IF \E x \in {"tok_per_sec", "gpu_mem"} : Worse(x, base, current, Critical) THEN "critical"
  ELSE IF \E x \in {"tok_per_sec", "gpu_mem"} : Worse(x, base, current, Warning) THEN "warning"
  ELSE "none"

\* checkMetric: the severity of the alert, "none" for nil.
checkMetric(m, base, current) ==
  IF Worse(m, base, current, Critical) THEN "critical"
  ELSE IF Worse(m, base, current, Warning) THEN "warning"
  ELSE "none"

\* The figure of one result, as a baseline of its own.
Raw(l, m) == Ratio(Value[l][m], 1)
=============================================================================
