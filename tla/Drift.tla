-------------------------------- MODULE Drift --------------------------------
(***************************************************************************)
(* The collector (cmd/collector, internal/drift): the detector goroutine   *)
(* with its check cycle, the bounded alert channel, the notifier           *)
(* goroutine, the reset endpoint, and the shutdown of the process.         *)
(*                                                                         *)
(* One step is one SQL statement, one channel operation or one webhook     *)
(* call.  Pairs are numbered in the order of ORDER BY engine, model.       *)
(***************************************************************************)
EXTENDS DriftStats, Sequences

CONSTANTS
  NumPairs,     \* engine/model pairs
  MinSamples,   \* DetectorConfig.MinSamples
  MinCompute,   \* results ComputeFromResults asks for
  ChannelCap,   \* capacity of alertCh
  MaxSamples,   \* bound: results of a pair within the lookback window
  SQLFaults     \* whether statements may fail

Pair == 1..NumPairs

ASSUME DriftAssumption ==
  /\ NumPairs \in Nat /\ ChannelCap \in Nat \ {0} /\ MaxSamples \in Nat
  /\ MinSamples \in Nat \ {0} /\ MinCompute \in Nat
  /\ SQLFaults \in BOOLEAN

VARIABLES
  window,      \* window[p]: results of p within the lookback window
  baseline,    \* baseline[p]: the row of public.baselines
  dpc,         \* where the detector goroutine is
  todo,        \* the pairs runCheck has still to look at
  at,          \* the pair checkEngineModel is looking at
  results,     \* the results it has read
  pending,     \* the alerts it has still to send
  channel,     \* alertCh
  cancelled,   \* the context of both goroutines is cancelled
  npc          \* where the notifier goroutine is: "sending" with an alert it received

storeVars    == <<window, baseline>>
detectorVars == <<dpc, todo, at, results, pending>>
vars == <<storeVars, detectorVars, channel, cancelled, npc>>

None == [none |-> TRUE]

Window   == [Level -> 0..MaxSamples]
Rational == [n : Nat, d : Nat \ {0}]
Baseline == [Metric -> Rational]
Alert    == [pair : Pair, metric : Metric, severity : {"warning", "critical"}]

TypeOK ==
  /\ window \in [Pair -> Window]
  /\ baseline \in [Pair -> Baseline \cup {None}]
  /\ dpc \in {"idle", "query", "get", "set", "send", "stopped"}
  /\ todo \subseteq Pair /\ at \in Pair \cup {0}
  /\ (at = 0) <=> (dpc \in {"idle", "stopped"})
  /\ results \in Window \cup {None}
  /\ pending \in Seq(Alert) /\ Len(pending) <= 4
  /\ channel \in Seq(Alert) /\ Len(channel) <= ChannelCap
  /\ cancelled \in BOOLEAN
  /\ npc \in {"idle", "sending", "stopped"}

\* What a start of the process puts into memory.
StartGoroutines ==
  /\ dpc' = "idle" /\ todo' = {} /\ at' = 0
  /\ results' = None /\ pending' = << >> /\ channel' = << >>
  /\ cancelled' = FALSE /\ npc' = "idle"

Init ==
  /\ window = [p \in Pair |-> [l \in Level |-> 0]]
  /\ baseline = [p \in Pair |-> None]
  /\ dpc = "idle" /\ todo = {} /\ at = 0
  /\ results = None /\ pending = << >> /\ channel = << >>
  /\ cancelled = FALSE /\ npc = "idle"

-----------------------------------------------------------------------------
(* The results table.  The bounds of the window move with the `since` of a *)
(* check, so results leave it between checks.                              *)

RecordResult(p, l) ==
  /\ Count(window[p]) < MaxSamples
  /\ window' = [window EXCEPT ![p][l] = @ + 1]
  /\ UNCHANGED <<baseline, detectorVars, channel, cancelled, npc>>

ResultExpires(p, l) ==
  /\ dpc = "idle" /\ window[p][l] > 0
  /\ window' = [window EXCEPT ![p][l] = @ - 1]
  /\ UNCHANGED <<baseline, detectorVars, channel, cancelled, npc>>

\* resetBaselineHandler
ResetBaseline(p) ==
  /\ baseline' = [baseline EXCEPT ![p] = None]
  /\ UNCHANGED <<window, detectorVars, channel, cancelled, npc>>

-----------------------------------------------------------------------------
(* The detector.                                                           *)

\* runCheck goes on to the next of the pairs in ps, or returns.
Continue(ps) ==
  /\ results' = None /\ pending' = << >>
  /\ IF ps = {}
     THEN dpc' = "idle" /\ at' = 0 /\ todo' = {}
     ELSE dpc' = "query" /\ at' = Min(ps) /\ todo' = ps \ {Min(ps)}

\* A statement on a cancelled context fails.
SQLSucceeds == ~cancelled
SQLMayFail  == cancelled \/ SQLFaults

\* A tick: getActiveEngineModelPairs.  (If it fails the check is over, and nothing changed.)
StartCheck ==
  /\ dpc = "idle" /\ SQLSucceeds
  /\ Continue({p \in Pair : Count(window[p]) > 0})
  /\ UNCHANGED <<storeVars, channel, cancelled, npc>>

\* QueryByEngineAndModel
QueryResults ==
  /\ dpc = "query" /\ SQLSucceeds
  /\ IF Count(window[at]) < MinSamples
     THEN Continue(todo)
     ELSE /\ results' = window[at] /\ dpc' = "get"
          /\ UNCHANGED <<todo, at, pending>>
  /\ UNCHANGED <<storeVars, channel, cancelled, npc>>

\* The alerts of checkEngineModel, in the order it looks at the metrics.
Alerts(p, b, w) ==
  LET current == ComputeFromResults(w)
      Check(m) == LET s == checkMetric(m, b[m], current[m])
                  IN  IF s = "none" THEN << >>
                      ELSE << [pair |-> p, metric |-> m, severity |-> s] >>
  IN  Check("ttft_p50") \o Check("ttft_p99") \o Check("tok_per_sec") \o Check("gpu_mem")

\* What checkEngineModel does with the baseline b it was given.
Compare(b) ==
  LET enough == Count(results) >= MinCompute
      alerts == IF b # None /\ enough THEN Alerts(at, b, results) ELSE << >>
  IN  CASE b = None /\ enough -> /\ dpc' = "set"
                                 /\ UNCHANGED <<todo, at, results, pending>>
        [] alerts # << >>     -> /\ dpc' = "send" /\ pending' = alerts /\ results' = None
                                 /\ UNCHANGED <<todo, at>>
        [] OTHER              -> Continue(todo)

\* BaselineStore.Get
GetBaseline ==
  /\ dpc = "get" /\ SQLSucceeds
  /\ Compare(baseline[at])
  /\ UNCHANGED <<storeVars, channel, cancelled, npc>>

\* Mutant: an error of Get is taken for a missing row.
CheckFailsAsMissing ==
  /\ dpc \in {"query", "get"} /\ SQLMayFail
  /\ IF dpc = "get" THEN Compare(None) ELSE Continue(todo)
  /\ UNCHANGED <<storeVars, channel, cancelled, npc>>

\* The query or Get fails: the error is logged and the next pair is looked at.
CheckFails ==
  /\ dpc \in {"query", "get"} /\ SQLMayFail
  /\ Continue(todo)
  /\ UNCHANGED <<storeVars, channel, cancelled, npc>>

\* BaselineStore.Set, an upsert; it may fail before or after its commit.
SetBaseline ==
  /\ dpc = "set"
  /\ \/ SQLSucceeds /\ baseline' = [baseline EXCEPT ![at] = ComputeFromResults(results)]
     \/ SQLMayFail /\ UNCHANGED baseline
  /\ Continue(todo)
  /\ UNCHANGED <<window, channel, cancelled, npc>>

AfterAlert ==
  IF Len(pending) = 1
  THEN Continue(todo)
  ELSE pending' = Tail(pending) /\ UNCHANGED <<dpc, todo, at, results>>

\* Mutant: the send blocks while the channel is full.
SendAlertBlocking ==
  /\ dpc = "send" /\ Len(channel) < ChannelCap
  /\ channel' = Append(channel, Head(pending))
  /\ AfterAlert
  /\ UNCHANGED <<storeVars, cancelled, npc>>

\* select: send, or drop the alert when the channel is full.
SendAlert ==
  /\ dpc = "send"
  /\ channel' = IF Len(channel) < ChannelCap THEN Append(channel, Head(pending)) ELSE channel
  /\ AfterAlert
  /\ UNCHANGED <<storeVars, cancelled, npc>>

\* ctx.Done between two checks: the detector closes the channel and returns.
StopDetector ==
  /\ dpc = "idle" /\ cancelled
  /\ dpc' = "stopped"
  /\ UNCHANGED <<storeVars, todo, at, results, pending, channel, cancelled, npc>>

-----------------------------------------------------------------------------
(* The notifier and the process.                                           *)

Receive ==
  /\ npc = "idle" /\ channel # << >>
  /\ npc' = "sending" /\ channel' = Tail(channel)
  /\ UNCHANGED <<storeVars, detectorVars, cancelled>>

\* Mutant: a failed webhook call ends the notifier.
SendEndsOnError ==
  /\ npc = "sending"
  /\ npc' \in {"idle", "stopped"}
  /\ UNCHANGED <<storeVars, detectorVars, channel, cancelled>>

\* send returns: posted, refused, timed out after 10 seconds, or no webhook configured.  An
\* error is only logged.
SendEnds ==
  /\ npc = "sending"
  /\ npc' = "idle"
  /\ UNCHANGED <<storeVars, detectorVars, channel, cancelled>>

\* ctx.Done, or the channel is closed and empty, which implies it.
StopNotifier ==
  /\ npc = "idle" /\ cancelled
  /\ npc' = "stopped"
  /\ UNCHANGED <<storeVars, detectorVars, channel, cancelled>>

\* SIGTERM: main cancels the context.
Shutdown ==
  /\ ~cancelled /\ cancelled' = TRUE
  /\ UNCHANGED <<storeVars, detectorVars, channel, npc>>

\* main returns without waiting for the goroutines, and the process is started again.  A crash
\* is a Shutdown with a Restart at once.
Restart ==
  /\ cancelled
  /\ StartGoroutines
  /\ UNCHANGED storeVars

-----------------------------------------------------------------------------
Next ==
  \/ \E p \in Pair, l \in Level : RecordResult(p, l) \/ ResultExpires(p, l)
  \/ \E p \in Pair : ResetBaseline(p)
  \/ StartCheck \/ QueryResults \/ GetBaseline \/ CheckFails \/ SetBaseline
  \/ SendAlert \/ StopDetector
  \/ Receive \/ SendEnds \/ StopNotifier
  \/ Shutdown \/ Restart

Spec == Init /\ [][Next]_vars

\* The ticker ticks, the goroutines run, a webhook call ends at its timeout.  Statements that
\* are tried for ever do not fail for ever.
Fairness ==
  /\ WF_vars(StartCheck) /\ WF_vars(CheckFails) /\ WF_vars(SetBaseline) /\ WF_vars(SendAlert)
  /\ \A p \in Pair : SF_vars(at = p /\ QueryResults) /\ SF_vars(at = p /\ GetBaseline)
  /\ WF_vars(StopDetector)
  /\ WF_vars(Receive) /\ WF_vars(SendEnds) /\ WF_vars(StopNotifier)

FairSpec == Spec /\ Fairness

-----------------------------------------------------------------------------
\* The statistics of ComputeFromResults against what they stand for, for every list of up to
\* MaxCheck results: each lies between the smallest and the largest figure measured, at least
\* half of the results lie on either side of the median, at most a twentieth (rounded up)
\* above the 95th percentile.
StatisticsSound(MaxCheck) ==
  \A w \in {x \in [Level -> 0..MaxCheck] : Count(x) \in 1..MaxCheck}, m \in Metric :
    LET n == Count(w)
        Leq(r) == Total(w, {l \in Level : Value[l][m] * r.d <= r.n})
        Geq(r) == Total(w, {l \in Level : Value[l][m] * r.d >= r.n})
        med == computeMedian(w, m)
        p95 == computePercentile(w, m)
        s == ComputeFromResults(w)[m]
    IN  /\ 2 * Leq(med) >= n /\ 2 * Geq(med) >= n
        /\ 100 * (n - Leq(p95)) < 5 * (n - 1) + 100 /\ Geq(p95) >= 1
        /\ Leq(s) >= 1 /\ Geq(s) >= 1

\* The formula is about constants; the condition has TLC evaluate it once.
StatisticsSoundTo12 == Init => StatisticsSound(12)

\* An alert is about something measured, against the row stored for its own pair: among the
\* results the check has read there is one that deviates from that baseline by the alert's
\* threshold, in the direction that is bad for the metric.  Neither the interpolation, nor a mix
\* of better and worse results, nor the pair looked at before, makes an alert up.
AlertHasWitness ==
  [][dpc # "send" /\ dpc' = "send" =>
       \A i \in DOMAIN pending' :
         LET a == pending'[i] IN
         /\ baseline[a.pair] # None
         /\ \E l \in Level :
              /\ results[l] > 0
              /\ Worse(a.metric, baseline[a.pair][a.metric], Raw(l, a.metric),
                       IF a.severity = "critical" THEN Critical ELSE Warning)]_vars

\* A baseline stays what it was when it was first computed until somebody resets it: no check,
\* failed statement, shutdown or crash replaces it, although Set is an upsert.  Without this a
\* slow drift would move its own reference.
BaselineIsSticky ==
  [][\A p \in Pair : baseline[p] # None => baseline'[p] \in {baseline[p], None}]_vars

\* Checks go on whatever the notifier does: a full channel costs alerts, never a check.
DetectorNeverBlocks == []<>(dpc \in {"idle", "stopped"})

\* While the figures of a pair stay bad against a baseline that nobody touches, and the process
\* is left alone, notifications keep going out.
Drifted(p) ==
  /\ ~cancelled /\ baseline[p] # None
  /\ Count(window[p]) >= MinSamples /\ Count(window[p]) >= MinCompute
  /\ Alerts(p, baseline[p], window[p]) # << >>

DriftKeepsBeingReported ==
  (\E p \in Pair : <>[]Drifted(p)) /\ <>[][~Restart]_vars => []<>(npc = "sending")

-----------------------------------------------------------------------------
(* The inductive invariants behind the theorems of DriftProofs.            *)

\* The results a check works with are those it read, at least one.
ReadIsEnough == dpc \in {"get", "set"} => results \in Window /\ Count(results) >= 1

DriftInv == TypeOK /\ ReadIsEnough /\ (dpc = "send" => pending # << >>)

\* The row the detector is about to write is still missing.
SetFillsAGap ==
  /\ baseline = [p \in Pair |-> baseline[p]]
  /\ dpc = "set" /\ at \in Pair => baseline[at] = None
=============================================================================
