--------------------------- MODULE CampaignsProofs ---------------------------
(***************************************************************************)
(* Proofs about the agent loop and the campaigns that run it.              *)
(*                                                                         *)
(* First the loop of AgentLoop, for every budget, every number of tool     *)
(* calls in a response and every set of configurations, whatever the       *)
(* planner answers and however its benchmarks end.  AgentInv is inductive. *)
(* The steps that append a trial are the ones that matter: a new run is    *)
(* the first of its configuration (StartTrial looked it up, and the tool   *)
(* calls of a response run one after the other), a reused trial is marked  *)
(* and so does not count.                                                  *)
(*                                                                         *)
(* Then Campaigns, whose deliveries run that very loop: for any number of  *)
(* deliveries of the River job and with every fault, the claim makes a     *)
(* campaign run once, its row goes through the lifecycle a client relies   *)
(* on, and its jobs stay within the trial budget.  CampaignInv is          *)
(* inductive.  Its core is ClaimedOnce: Complete and Fail write without a  *)
(* condition, and are safe only because the delivery that calls them is    *)
(* the only one that ever got past MarkRunning, so that the row can have   *)
(* left "running" for "cancelled" and nothing else.                        *)
(***************************************************************************)
EXTENDS Campaigns, FiniteSetTheorems, WellFoundedInduction, TLAPS

-----------------------------------------------------------------------------
(* Facts about the trials of a campaign.                                   *)

\* Every nonempty set of natural numbers has a least element.
LEMMA LeastNat ==
  ASSUME NEW S \in SUBSET Nat, S # {}
  PROVE  \E i \in S : \A k \in S : i <= k
<1> DEFINE Less == {ss \in Nat \X Nat : ss[1] < ss[2]}
<1>1. IsWellFoundedOn(Less, Nat)
  BY NatLessThanWellFounded DEF OpToRel
<1>2. \E i \in S : \A k \in S : <<k, i>> \notin Less
  <2> HIDE DEF Less
  <2> QED
    BY <1>1, WFMin
<1>3. PICK i \in S : \A k \in S : <<k, i>> \notin Less
  BY <1>2
<1>4. ASSUME NEW k \in S PROVE i <= k
  <2>1. k \in Nat /\ i \in Nat
    OBVIOUS
  <2>2. ~(k < i)
    BY <1>3, <2>1
  <2> QED
    BY <2>1, <2>2
<1> QED
  BY <1>4

\* Appending a trial keeps the earlier ones at their positions.
LEMMA AppendTrial ==
  ASSUME NEW t \in Trial, trials \in Seq(Trial), trials' = Append(trials, t)
  PROVE  /\ trials' \in Seq(Trial)
         /\ DOMAIN trials' = DOMAIN trials \cup {Len(trials) + 1}
         /\ Len(trials) + 1 \notin DOMAIN trials
         /\ \A i \in DOMAIN trials : trials'[i] = trials[i]
         /\ trials'[Len(trials) + 1] = t
OBVIOUS

\* findTrial returns one of the trials of the configuration, if there is any.
LEMMA FindTrial ==
  ASSUME trials \in Seq(Trial), NEW config, SameSpec(config) # {}
  PROVE  \E i \in DOMAIN trials : findTrial(config) = trials[i] /\ trials[i].config = config
<1>1. SameSpec(config) \in SUBSET Nat
  BY DEF SameSpec
<1>2. \E i \in SameSpec(config) : \A k \in SameSpec(config) : i <= k
  BY <1>1, LeastNat
<1>3. QED
  BY <1>2 DEF findTrial, SameSpec

\* A reused trial is the old one but for its mark.
LEMMA ReusedTrial ==
  ASSUME NEW t \in Trial
  PROVE  /\ [t EXCEPT !.reused = TRUE] \in Trial
         /\ [t EXCEPT !.reused = TRUE].reused
         /\ [t EXCEPT !.reused = TRUE].config = t.config
         /\ [t EXCEPT !.reused = TRUE].err = t.err
         /\ [t EXCEPT !.reused = TRUE].result = t.result
BY DEF Trial

\* The trials that were run are finitely many.
LEMMA RanIsFinite ==
  ASSUME trials \in Seq(Trial)
  PROVE  IsFiniteSet(Ran) /\ Cardinality(Ran) \in Nat
<1>1. Ran \in SUBSET (1..Len(trials))
  BY DEF Ran
<1>2. IsFiniteSet(1..Len(trials))
  BY FS_Interval
<1> QED
  BY <1>1, <1>2, FS_Subset, FS_CardinalityType

-----------------------------------------------------------------------------
(* What a step can do to the parts of the invariant.                       *)

\* A step that leaves the trials alone.
LEMMA TrialsUnchanged ==
  ASSUME AgentInv, UNCHANGED trials
  PROVE  /\ Ran' = Ran
         /\ CopiesHaveOriginals'
         /\ \A config : SameSpec(config)' = SameSpec(config)
         /\ \A i, k \in Ran' : trials'[i].config = trials'[k].config => i = k
BY DEF AgentInv, CopiesHaveOriginals, Ran, SameSpec, NoConfigRunTwice

\* A step that leaves the trials and the recommendation alone.
LEMMA MeasurementsUnchanged ==
  ASSUME AgentInv, UNCHANGED <<trials, rec>>
  PROVE  MeasurementsComeFromTrials'
BY DEF AgentInv, MeasurementsComeFromTrials, Ran, OK

\* A step that appends a trial keeps what was run before it, and adds it if it was run.
LEMMA TrialAppended ==
  ASSUME AgentInv, NEW t \in Trial, trials' = Append(trials, t)
  PROVE  /\ trials' \in Seq(Trial)
         /\ Ran' = IF t.reused THEN Ran ELSE Ran \cup {Len(trials) + 1}
         /\ Len(trials) + 1 \notin Ran
         /\ \A i \in Ran : i \in DOMAIN trials /\ trials'[i] = trials[i]
         /\ trials'[Len(trials) + 1] = t
         /\ UNCHANGED rec => MeasurementsComeFromTrials'
<1>1. trials \in Seq(Trial)
  BY DEF AgentInv, AgentTypeOK
<1>2. /\ trials' \in Seq(Trial)
      /\ DOMAIN trials' = DOMAIN trials \cup {Len(trials) + 1}
      /\ Len(trials) + 1 \notin DOMAIN trials
      /\ \A i \in DOMAIN trials : trials'[i] = trials[i]
      /\ trials'[Len(trials) + 1] = t
  BY <1>1, AppendTrial
<1>3. Ran' = {i \in DOMAIN trials' : ~trials'[i].reused}
  BY DEF Ran
<1>4. Ran' = IF t.reused THEN Ran ELSE Ran \cup {Len(trials) + 1}
  BY <1>2, <1>3 DEF Ran
<1>5. \A i \in Ran : i \in Ran' /\ i \in DOMAIN trials /\ trials'[i] = trials[i]
  BY <1>2, <1>4 DEF Ran
<1>6. UNCHANGED rec => MeasurementsComeFromTrials'
  BY <1>5 DEF AgentInv, MeasurementsComeFromTrials, OK
<1> QED
  BY <1>2, <1>4, <1>5, <1>6 DEF Ran

\* A step that leaves trials, recommendation and spend alone, types preserved.
LEMMA QuietStep ==
  ASSUME AgentInv, AgentTypeOK', LoopState', SuccessHasRecommendation',
         UNCHANGED <<trials, rec, spent>>,
         loop' = "benchmark" => \/ loop = "benchmark" /\ UNCHANGED current
                                \/ spent < MaxTrials /\ SameSpec(current') = {}
  PROVE  AgentInv'
<1>1. /\ Ran' = Ran
      /\ CopiesHaveOriginals'
      /\ \A config : SameSpec(config)' = SameSpec(config)
      /\ \A i, k \in Ran' : trials'[i].config = trials'[k].config => i = k
  BY TrialsUnchanged
<1>2. MeasurementsComeFromTrials'
  BY MeasurementsUnchanged
<1>3. SpendCountsTrials'
  BY <1>1, AgentAssumption DEF AgentInv, SpendCountsTrials, AgentTypeOK
<1>4. NoConfigRunTwice'
  <2>1. loop' = "benchmark" => {i \in DOMAIN trials : trials[i].config = current'} = {}
    BY DEF AgentInv, NoConfigRunTwice, SameSpec
  <2> QED
    BY <1>1, <2>1 DEF NoConfigRunTwice, SameSpec
<1> QED
  BY <1>1, <1>2, <1>3, <1>4 DEF AgentInv

\* The planner's turns, the deadline and the lookups.
LEMMA TurnsPreserve ==
  ASSUME AgentInv,
         \/ PlannerReplies \/ PlannerFails \/ TurnsUsedUp \/ Deadline \/ Lookup
         \/ \E stop \in StopReason : EndTurn(stop)
         \/ \E config \in Config : Refuse(config)
  PROVE  AgentInv'
<1> USE AgentAssumption
<1> SUFFICES /\ AgentTypeOK' /\ LoopState' /\ SuccessHasRecommendation'
             /\ UNCHANGED <<trials, rec, spent>>
             /\ loop' = "benchmark" => loop = "benchmark" /\ UNCHANGED current
  BY QuietStep
<1>1. CASE PlannerReplies
  BY <1>1 DEF PlannerReplies, AgentInv, AgentTypeOK, LoopState, SuccessHasRecommendation
<1>2. CASE PlannerFails
  BY <1>2 DEF PlannerFails, AgentInv, AgentTypeOK, LoopState, SuccessHasRecommendation
<1>3. CASE TurnsUsedUp
  BY <1>3 DEF TurnsUsedUp, AgentInv, AgentTypeOK, LoopState, SuccessHasRecommendation
<1>4. CASE Deadline
  BY <1>4 DEF Deadline, AgentInv, AgentTypeOK, LoopState, SuccessHasRecommendation
<1>5. CASE Lookup
  BY <1>5 DEF Lookup, Call, Answer, AgentInv, AgentTypeOK, LoopState, SuccessHasRecommendation
<1>6. ASSUME NEW stop \in StopReason, EndTurn(stop)
      PROVE  /\ AgentTypeOK' /\ LoopState' /\ SuccessHasRecommendation'
             /\ UNCHANGED <<trials, rec, spent>>
             /\ loop' = "benchmark" => loop = "benchmark" /\ UNCHANGED current
  BY <1>6 DEF EndTurn, AgentInv, AgentTypeOK, LoopState, SuccessHasRecommendation
<1>7. ASSUME NEW config \in Config, Refuse(config)
      PROVE  /\ AgentTypeOK' /\ LoopState' /\ SuccessHasRecommendation'
             /\ UNCHANGED <<trials, rec, spent>>
             /\ loop' = "benchmark" => loop = "benchmark" /\ UNCHANGED current
  BY <1>7 DEF Refuse, Call, Answer, AgentInv, AgentTypeOK, LoopState, SuccessHasRecommendation
<1> QED
  BY <1>1, <1>2, <1>3, <1>4, <1>5, <1>6, <1>7

LEMMA StartTrialPreserves ==
  ASSUME AgentInv, NEW config \in Config, StartTrial(config)
  PROVE  AgentInv'
<1> USE AgentAssumption
<1>1. AgentTypeOK' /\ LoopState' /\ SuccessHasRecommendation'
  BY DEF StartTrial, AgentInv, AgentTypeOK, LoopState, SuccessHasRecommendation
<1>2. spent < MaxTrials /\ SameSpec(current') = {} /\ UNCHANGED <<trials, rec, spent>>
  BY DEF StartTrial, exhausted, AgentInv, AgentTypeOK
<1> QED
  BY <1>1, <1>2, QuietStep

\* Appending a copy of an earlier trial.
LEMMA ReusePreserves ==
  ASSUME AgentInv, NEW config \in Config, Reuse(config)
  PROVE  AgentInv'
<1> USE AgentAssumption
<1> DEFINE t == [findTrial(config) EXCEPT !.reused = TRUE]
<1>1. PICK i \in DOMAIN trials : findTrial(config) = trials[i] /\ trials[i].config = config
  BY FindTrial DEF Reuse, AgentInv, AgentTypeOK
<1>2. trials[i] \in Trial
  BY DEF AgentInv, AgentTypeOK
<1>3. /\ t \in Trial /\ t.reused
      /\ t.config = trials[i].config /\ t.err = trials[i].err /\ t.result = trials[i].result
  BY <1>1, <1>2, ReusedTrial
<1>4. trials' = Append(trials, t)
  BY DEF Reuse
<1> HIDE DEF t
<1>5. /\ trials' \in Seq(Trial)
      /\ Ran' = Ran
      /\ \A k \in Ran : k \in DOMAIN trials /\ trials'[k] = trials[k]
      /\ trials'[Len(trials) + 1] = t
      /\ UNCHANGED rec => MeasurementsComeFromTrials'
  BY <1>3, <1>4, TrialAppended
<1>6. AgentTypeOK' /\ LoopState' /\ SuccessHasRecommendation' /\ UNCHANGED <<rec, spent, loop>>
  BY <1>5 DEF Reuse, Call, Answer, AgentInv, AgentTypeOK, LoopState, SuccessHasRecommendation
<1>7. SpendCountsTrials'
  BY <1>5, <1>6 DEF AgentInv, SpendCountsTrials
<1>8. NoConfigRunTwice'
  <2>1. loop' # "benchmark"
    BY <1>6 DEF Reuse, Call
  <2> QED
    BY <1>5, <2>1 DEF AgentInv, NoConfigRunTwice
<1>9. CopiesHaveOriginals'
  <2>1. DOMAIN trials' = DOMAIN trials \cup {Len(trials) + 1}
        /\ \A k \in DOMAIN trials : trials'[k] = trials[k]
    BY <1>3, <1>4, AppendTrial DEF AgentInv, AgentTypeOK
  <2>2. \A k \in DOMAIN trials' : \E m \in DOMAIN trials :
          /\ trials[m].config = trials'[k].config
          /\ trials[m].err = trials'[k].err /\ trials[m].result = trials'[k].result
    BY <1>3, <1>5, <2>1
  <2>3. \A m \in DOMAIN trials : \E n \in Ran :
          /\ trials[n].config = trials[m].config
          /\ trials[n].err = trials[m].err /\ trials[n].result = trials[m].result
    BY DEF AgentInv, CopiesHaveOriginals
  <2>4. \A k \in DOMAIN trials' : \E n \in Ran' :
          /\ trials'[n].config = trials'[k].config
          /\ trials'[n].err = trials'[k].err /\ trials'[n].result = trials'[k].result
    BY <2>2, <2>3, <1>5
  <2> QED
    BY <2>4 DEF CopiesHaveOriginals
<1> QED
  BY <1>5, <1>6, <1>7, <1>8, <1>9 DEF AgentInv

\* Appending the trial that was in flight.
LEMMA EndTrialPreserves ==
  ASSUME AgentInv, NEW kind \in {"result", "failed", "cancelled"}, NEW err \in BOOLEAN,
         NEW result \in Result, EndTrial(kind, err, result)
  PROVE  AgentInv'
<1> USE AgentAssumption
<1> DEFINE t == [config |-> current, err |-> err, result |-> result, reused |-> FALSE]
<1>1. t \in Trial /\ ~t.reused /\ t.config = current /\ t.err = err /\ t.result = result
  BY DEF EndTrial, Trial, AgentInv, LoopState
<1>2. trials' = Append(trials, t)
  BY DEF EndTrial
<1> HIDE DEF t
<1>3. /\ trials' \in Seq(Trial)
      /\ Ran' = Ran \cup {Len(trials) + 1}
      /\ Len(trials) + 1 \notin Ran
      /\ \A k \in Ran : k \in DOMAIN trials /\ trials'[k] = trials[k]
      /\ trials'[Len(trials) + 1] = t
      /\ UNCHANGED rec => MeasurementsComeFromTrials'
  BY <1>1, <1>2, TrialAppended
<1>4. spent + 1 <= MaxTrials
  BY DEF EndTrial, AgentInv, SpendCountsTrials
<1>5. AgentTypeOK' /\ LoopState' /\ SuccessHasRecommendation' /\ UNCHANGED rec
  BY <1>3, <1>4 DEF EndTrial, Answer, AgentInv, AgentTypeOK, LoopState, SuccessHasRecommendation
<1>6. SpendCountsTrials'
  <2>1. IsFiniteSet(Ran) /\ Cardinality(Ran) \in Nat
    BY RanIsFinite DEF AgentInv, AgentTypeOK
  <2>2. Cardinality(Ran') = Cardinality(Ran) + 1
    BY <2>1, <1>3, FS_AddElement
  <2> QED
    BY <2>1, <2>2, <1>4 DEF EndTrial, AgentInv, SpendCountsTrials
<1>7. NoConfigRunTwice'
  <2>1. loop' # "benchmark"
    BY DEF EndTrial
  <2>2. \A k \in Ran : trials[k].config # current
    BY <1>3 DEF EndTrial, AgentInv, NoConfigRunTwice, SameSpec
  <2>3. \A k, m \in Ran : trials'[k].config = trials'[m].config => k = m
    BY <1>3 DEF AgentInv, NoConfigRunTwice
  <2>4. \A k \in Ran : trials'[k].config # trials'[Len(trials) + 1].config
    BY <1>1, <1>3, <2>2
  <2>5. \A k, m \in Ran' : trials'[k].config = trials'[m].config => k = m
    BY <1>3, <2>3, <2>4
  <2> QED
    BY <2>1, <2>5 DEF NoConfigRunTwice
<1>8. CopiesHaveOriginals'
  <2>1. DOMAIN trials' = DOMAIN trials \cup {Len(trials) + 1}
        /\ \A k \in DOMAIN trials : trials'[k] = trials[k]
    BY <1>1, <1>2, AppendTrial DEF AgentInv, AgentTypeOK
  <2>2. \A m \in DOMAIN trials : \E n \in Ran :
          /\ trials[n].config = trials[m].config
          /\ trials[n].err = trials[m].err /\ trials[n].result = trials[m].result
    BY DEF AgentInv, CopiesHaveOriginals
  <2>3. \A k \in DOMAIN trials' : \E n \in Ran' :
          /\ trials'[n].config = trials'[k].config
          /\ trials'[n].err = trials'[k].err /\ trials'[n].result = trials'[k].result
    BY <2>1, <2>2, <1>3
  <2> QED
    BY <2>3 DEF CopiesHaveOriginals
<1> QED
  BY <1>3, <1>5, <1>6, <1>7, <1>8 DEF AgentInv

\* The fallback is made of a trial of the campaign, whichever bestTrial chooses.
LEMMA ConcludePreserves ==
  ASSUME AgentInv, Conclude
  PROVE  AgentInv'
<1> USE AgentAssumption
<1>1. CASE bestTrial = 0 /\ outcome' = "error" /\ UNCHANGED rec
  <2>1. AgentTypeOK' /\ LoopState' /\ SuccessHasRecommendation'
    BY <1>1 DEF Conclude, AgentInv, AgentTypeOK, LoopState, SuccessHasRecommendation
  <2>2. UNCHANGED <<trials, rec, spent>> /\ loop' # "benchmark"
    BY <1>1 DEF Conclude
  <2> QED
    BY <2>1, <2>2, QuietStep
<1>2. ASSUME NEW best \in DOMAIN trials, outcome' = "ok", rec' = Fallback(trials[best])
      PROVE  AgentInv'
  <2>1. trials[best] \in Trial
    BY DEF AgentInv, AgentTypeOK
  <2>2. rec' \in Recommendation /\ rec'.fallback /\ rec' # NoRec
    BY <1>2, <2>1 DEF Fallback, Recommendation, Trial, NoRec
  <2>3. AgentTypeOK' /\ LoopState' /\ SuccessHasRecommendation'
    BY <1>2, <2>2
    DEF Conclude, AgentInv, AgentTypeOK, LoopState, SuccessHasRecommendation
  <2>4. MeasurementsComeFromTrials'
    BY <2>2 DEF MeasurementsComeFromTrials
  <2>5. UNCHANGED <<trials, spent>> /\ loop' = "returned"
    BY DEF Conclude
  <2>6. /\ Ran' = Ran
        /\ CopiesHaveOriginals'
        /\ \A i, k \in Ran' : trials'[i].config = trials'[k].config => i = k
    BY <2>5, TrialsUnchanged
  <2>7. SpendCountsTrials' /\ NoConfigRunTwice'
    BY <2>5, <2>6 DEF AgentInv, SpendCountsTrials, NoConfigRunTwice, Conclude
  <2> QED
    BY <2>3, <2>4, <2>6, <2>7 DEF AgentInv
<1> QED
  BY <1>1, <1>2 DEF Conclude

\* The measurement attached to a recommendation is that of a trial that was run: the
\* trial findTrial returns, or the one it is a copy of.
LEMMA RecommendPreserves ==
  ASSUME AgentInv, NEW config \in Config, Recommend(config)
  PROVE  AgentInv'
<1> USE AgentAssumption
<1>1. rec' = [config |-> config, fallback |-> FALSE, measured |-> Attached(config)]
  BY DEF Recommend
<1>2. \/ Attached(config) = NoResult
      \/ \E i \in DOMAIN trials : /\ OK(trials[i]) /\ trials[i].config = config
                                  /\ Attached(config) = trials[i].result
  BY FindTrial DEF Attached, AgentInv, AgentTypeOK
<1>3. Attached(config) \in Result
  <2>1. ASSUME NEW i \in DOMAIN trials PROVE trials[i].result \in Result
    <3>1. trials[i] \in Trial
      BY DEF AgentInv, AgentTypeOK
    <3> QED
      BY <3>1 DEF Trial
  <2>2. NoResult \in Result
    BY DEF NoResult, Result
  <2> QED
    BY <1>2, <2>1, <2>2
<1>4. rec' \in Recommendation /\ rec' # NoRec
  BY <1>1, <1>3 DEF Recommendation, NoRec
<1>5. AgentTypeOK' /\ LoopState' /\ SuccessHasRecommendation'
  BY <1>4 DEF Recommend, Call, Answer, AgentInv, AgentTypeOK, LoopState,
              SuccessHasRecommendation
<1>6. UNCHANGED <<trials, spent, loop, current>>
  BY DEF Recommend
<1>7. /\ Ran' = Ran
      /\ CopiesHaveOriginals'
      /\ \A i, k \in Ran' : trials'[i].config = trials'[k].config => i = k
  BY <1>6, TrialsUnchanged
<1>8. SpendCountsTrials' /\ NoConfigRunTwice'
  BY <1>6, <1>7 DEF AgentInv, SpendCountsTrials, NoConfigRunTwice, Recommend, Call
<1>9. MeasurementsComeFromTrials'
  <2>1. ASSUME NEW i \in DOMAIN trials, OK(trials[i]), trials[i].config = config,
               Attached(config) = trials[i].result
        PROVE  MeasurementsComeFromTrials'
    <3>1. PICK k \in Ran : /\ trials[k].config = trials[i].config
                           /\ trials[k].err = trials[i].err
                           /\ trials[k].result = trials[i].result
      BY DEF AgentInv, CopiesHaveOriginals
    <3>2. OK(trials[k]) /\ trials[k].config = rec'.config /\ trials[k].result = rec'.measured
      BY <1>1, <2>1, <3>1 DEF OK
    <3> QED
      BY <1>6, <1>7, <3>2 DEF MeasurementsComeFromTrials, OK
  <2>2. ASSUME Attached(config) = NoResult
        PROVE  MeasurementsComeFromTrials'
    BY <1>1, <2>2 DEF MeasurementsComeFromTrials, NoResult
  <2> QED
    BY <1>2, <2>1, <2>2
<1> QED
  BY <1>5, <1>7, <1>8, <1>9 DEF AgentInv

-----------------------------------------------------------------------------
\* Every step of Run between two benchmarks.
LEMMA TurnStepPreserves ==
  ASSUME AgentInv, TurnStep
  PROVE  AgentInv'
<1>1. ASSUME NEW config \in Config, Reuse(config) PROVE AgentInv'
  BY <1>1, ReusePreserves
<1>2. ASSUME NEW config \in Config, StartTrial(config) PROVE AgentInv'
  BY <1>2, StartTrialPreserves
<1>3. ASSUME NEW config \in Config, Recommend(config) PROVE AgentInv'
  BY <1>3, RecommendPreserves
<1>4. ASSUME Conclude PROVE AgentInv'
  BY <1>4, ConcludePreserves
<1> QED
  BY <1>1, <1>2, <1>3, <1>4, TurnsPreserve DEF TurnStep, ToolCall

\* A new loop.
LEMMA NewLoop ==
  /\ \A where \in {"off", "planner"} : NewAgent(where) => AgentInv
  /\ EnterRun => AgentInv'
<1> USE AgentAssumption
<1>1. ASSUME NEW where \in {"off", "planner"}, NewAgent(where) PROVE AgentInv
  <2>1. Ran = {} /\ DOMAIN trials = {}
    BY <1>1 DEF NewAgent, Ran
  <2>2. AgentTypeOK
    <3>1. answer \in Answer
      BY <1>1 DEF NewAgent, Answer
    <3>2. rec \in Recommendation \cup {NoRec} /\ trials \in Seq(Trial)
      BY <1>1 DEF NewAgent
    <3>3. current \in Config \cup {NoConfig} /\ overdue \in BOOLEAN
      BY <1>1 DEF NewAgent
    <3> QED
      BY <1>1, <3>1, <3>2, <3>3 DEF NewAgent, AgentTypeOK
  <2>3. LoopState /\ CopiesHaveOriginals /\ SuccessHasRecommendation
    BY <1>1, <2>1 DEF NewAgent, LoopState, CopiesHaveOriginals, SuccessHasRecommendation
  <2>4. NoConfigRunTwice /\ MeasurementsComeFromTrials
    BY <1>1, <2>1 DEF NewAgent, NoConfigRunTwice, MeasurementsComeFromTrials
  <2>5. SpendCountsTrials
    BY <1>1, <2>1, FS_EmptySet DEF NewAgent, SpendCountsTrials
  <2> QED
    BY <2>2, <2>3, <2>4, <2>5 DEF AgentInv
<1>2. ASSUME EnterRun PROVE AgentInv'
  <2>1. Ran' = {} /\ DOMAIN trials' = {}
    BY <1>2 DEF EnterRun, Ran
  <2>2. AgentTypeOK'
    <3>1. answer' \in Answer
      BY <1>2 DEF EnterRun, Answer
    <3>2. rec' \in Recommendation \cup {NoRec} /\ trials' \in Seq(Trial)
      BY <1>2 DEF EnterRun
    <3>3. current' \in Config \cup {NoConfig} /\ overdue' \in BOOLEAN
      BY <1>2 DEF EnterRun
    <3> QED
      BY <1>2, <3>1, <3>2, <3>3 DEF EnterRun, AgentTypeOK
  <2>3. LoopState' /\ CopiesHaveOriginals' /\ SuccessHasRecommendation'
    BY <1>2, <2>1 DEF EnterRun, LoopState, CopiesHaveOriginals, SuccessHasRecommendation
  <2>4. NoConfigRunTwice' /\ MeasurementsComeFromTrials'
    BY <1>2, <2>1 DEF EnterRun, NoConfigRunTwice, MeasurementsComeFromTrials
  <2>5. SpendCountsTrials'
    BY <1>2, <2>1, FS_EmptySet DEF EnterRun, SpendCountsTrials
  <2> QED
    BY <2>2, <2>3, <2>4, <2>5 DEF AgentInv
<1> QED
  BY <1>1, <1>2

\* Steps of others.
LEMMA AgentStutter ==
  ASSUME AgentInv, UNCHANGED agentVars
  PROVE  AgentInv'
<1>1. AgentTypeOK' /\ LoopState' /\ SuccessHasRecommendation'
  BY DEF agentVars, AgentInv, AgentTypeOK, LoopState, SuccessHasRecommendation
<1> QED
  BY <1>1, QuietStep DEF agentVars

\* AgentInv is an invariant of the loop, with any planner and any platform.
THEOREM AgentInvariance == AgentSpec => []AgentInv
<1>1. AgentInit => AgentInv
  BY NewLoop DEF AgentInit
<1>2. AgentInv /\ [AgentNext]_agentVars => AgentInv'
  <2> SUFFICES ASSUME AgentInv, [AgentNext]_agentVars PROVE AgentInv'
    OBVIOUS
  <2>1. CASE TurnStep
    BY <2>1, TurnStepPreserves
  <2>2. CASE TrialFails
    <3>1. NoResult \in Result
      BY DEF NoResult, Result
    <3> QED
      BY <2>2, <3>1, EndTrialPreserves DEF TrialFails
  <2>3. ASSUME NEW result \in Result, TrialDone(result) PROVE AgentInv'
    BY <2>3, EndTrialPreserves DEF TrialDone
  <2>4. CASE UNCHANGED agentVars
    BY <2>4, AgentStutter
  <2> QED
    BY <2>1, <2>2, <2>3, <2>4 DEF AgentNext
<1> QED
  BY <1>1, <1>2, PTL DEF AgentSpec

\* The loop's counters stay within their budgets.
THEOREM AgentTypeCorrect == AgentSpec => []AgentTypeOK
<1>1. AgentInv => AgentTypeOK
  BY DEF AgentInv
<1> QED
  BY <1>1, AgentInvariance, PTL

\* callRunBenchmark and spend: the trial budget is never exceeded, whatever the planner asks for.
THEOREM BudgetIsHard == AgentSpec => []SpendCountsTrials
<1>1. AgentInv => SpendCountsTrials
  BY DEF AgentInv
<1> QED
  BY <1>1, AgentInvariance, PTL

\* findTrial: no configuration is benchmarked a second time.
THEOREM TrialsAreNotRepeated == AgentSpec => []NoConfigRunTwice
<1>1. AgentInv => NoConfigRunTwice
  BY DEF AgentInv
<1> QED
  BY <1>1, AgentInvariance, PTL

\* callRecommend: the figures reported with a recommendation were measured.
THEOREM MeasurementsAreReal == AgentSpec => []MeasurementsComeFromTrials
<1>1. AgentInv => MeasurementsComeFromTrials
  BY DEF AgentInv
<1> QED
  BY <1>1, AgentInvariance, PTL

\* Run: success and a recommendation go together.
THEOREM SuccessIsARecommendation == AgentSpec => []SuccessHasRecommendation
<1>1. AgentInv => SuccessHasRecommendation
  BY DEF AgentInv
<1> QED
  BY <1>1, AgentInvariance, PTL

-----------------------------------------------------------------------------
(* bestTrial.  The scan is a recursive function: that there is one, and    *)
(* what it holds after n trials, is shown by looking at the least n for    *)
(* which it would not be so.                                               *)

\* f is the scan over the first n trials.
IsScan(f, n) == f = [i \in 0..n |-> IF i = 0 THEN 0 ELSE Cheaper(f[i - 1], i)]

LEMMA ScanExists ==
  ASSUME NEW n \in Nat
  PROVE  \E f : IsScan(f, n)
<1> DEFINE S == {k \in Nat : ~\E f : IsScan(f, k)}
<1> SUFFICES ASSUME S # {} PROVE FALSE
  OBVIOUS
<1>1. PICK k \in S : \A m \in S : k <= m
  BY LeastNat
<1>2. ASSUME k = 0 PROVE FALSE
  <2> DEFINE g == [i \in 0..k |-> 0]
  <2>1. IsScan(g, k)
    BY <1>2 DEF IsScan
  <2> QED
    BY <2>1
<1>3. ASSUME k # 0 PROVE FALSE
  <2>1. k - 1 \in Nat /\ k - 1 \notin S
    BY <1>1, <1>3
  <2>2. PICK f : IsScan(f, k - 1)
    BY <2>1
  <2> DEFINE g == [i \in 0..k |-> IF i = k THEN Cheaper(f[k - 1], k) ELSE f[i]]
  <2>3. \A i \in 0..k : g[i] = IF i = 0 THEN 0 ELSE Cheaper(g[i - 1], i)
    BY <2>1, <2>2 DEF IsScan
  <2>4. IsScan(g, k)
    BY <2>3 DEF IsScan
  <2> QED
    BY <2>4
<1> QED
  BY <1>2, <1>3

LEMMA BestIsScan ==
  ASSUME trials \in Seq(Trial)
  PROVE  \E f : IsScan(f, Len(trials)) /\ bestTrial = f[Len(trials)]
<1>1. \E f : IsScan(f, Len(trials))
  BY ScanExists
<1>2. \E f : f = [i \in 0..Len(trials) |-> IF i = 0 THEN 0 ELSE Cheaper(f[i - 1], i)]
  BY <1>1 DEF IsScan
<1> DEFINE scan == CHOOSE f : f = [i \in 0..Len(trials) |-> IF i = 0 THEN 0 ELSE Cheaper(f[i - 1], i)]
<1>3. IsScan(scan, Len(trials))
  BY <1>2 DEF IsScan
<1>4. bestTrial = scan[Len(trials)]
  BY DEF bestTrial
<1> QED
  BY <1>3, <1>4

\* b is the position of a cheapest eligible trial among the first n, 0 if there is none.
IsBest(b, n) ==
  /\ b \in 0..n
  /\ b = 0 => \A k \in 1..n : ~Eligible(trials[k])
  /\ b # 0 => /\ Eligible(trials[b])
              /\ \A k \in 1..n :
                   Eligible(trials[k]) => trials[b].result.cost <= trials[k].result.cost

LEMMA CostsAreNumbers ==
  ASSUME trials \in Seq(Trial), NEW i \in 1..Len(trials)
  PROVE  trials[i].result.cost \in Nat
<1>1. trials[i] \in Trial
  OBVIOUS
<1>2. trials[i].result \in Result
  BY <1>1 DEF Trial
<1>3. trials[i].result.cost \in Costs \cup {0}
  BY <1>2 DEF Result
<1>4. Costs \subseteq Nat /\ 0 \in Nat
  BY AgentAssumption
<1> QED
  BY <1>3, <1>4

\* One more trial.
LEMMA CheaperIsBest ==
  ASSUME trials \in Seq(Trial), NEW n \in 1..Len(trials), NEW b, IsBest(b, n - 1)
  PROVE  IsBest(Cheaper(b, n), n)
<1>1. /\ b \in 0..(n - 1)
      /\ \A k \in 1..n : k = n \/ k \in 1..(n - 1)
      /\ \A k \in 1..n : trials[k].result.cost \in Nat
  BY CostsAreNumbers DEF IsBest
<1>2. CASE ~Eligible(trials[n])
  <2>1. Cheaper(b, n) = b
    BY <1>2 DEF Cheaper
  <2> QED
    BY <1>1, <1>2, <2>1 DEF IsBest
<1>3. CASE Eligible(trials[n]) /\ b = 0
  <2>1. Cheaper(b, n) = n
    BY <1>3 DEF Cheaper
  <2> QED
    BY <1>1, <1>3, <2>1 DEF IsBest
<1>4. CASE Eligible(trials[n]) /\ b # 0 /\ trials[n].result.cost < trials[b].result.cost
  <2>1. Cheaper(b, n) = n
    BY <1>4 DEF Cheaper
  <2>2. \A k \in 1..n : Eligible(trials[k]) => trials[n].result.cost <= trials[k].result.cost
    <3> SUFFICES ASSUME NEW k \in 1..(n - 1), Eligible(trials[k])
                 PROVE  trials[n].result.cost <= trials[k].result.cost
      BY <1>1
    <3>1. trials[b].result.cost <= trials[k].result.cost
      BY <1>4 DEF IsBest
    <3>2. b \in 1..n /\ k \in 1..n
      BY <1>1, <1>4
    <3> QED
      BY <1>1, <1>4, <3>1, <3>2
  <2> QED
    BY <1>4, <2>1, <2>2 DEF IsBest
<1>5. CASE Eligible(trials[n]) /\ b # 0 /\ ~(trials[n].result.cost < trials[b].result.cost)
  <2>1. Cheaper(b, n) = b
    BY <1>5 DEF Cheaper
  <2>2. trials[b].result.cost <= trials[n].result.cost
    <3>1. b \in 1..n
      BY <1>1, <1>5
    <3> QED
      BY <1>1, <1>5, <3>1
  <2>3. \A k \in 1..n : Eligible(trials[k]) => trials[b].result.cost <= trials[k].result.cost
    BY <1>1, <1>5, <2>2 DEF IsBest
  <2> QED
    BY <1>1, <1>5, <2>1, <2>3 DEF IsBest
<1> QED
  BY <1>2, <1>3, <1>4, <1>5

\* bestTrial is the cheapest of the trials without an error.
LEMMA BestTrialIsBest ==
  ASSUME trials \in Seq(Trial)
  PROVE  IsBest(bestTrial, Len(trials))
<1>1. PICK f : IsScan(f, Len(trials)) /\ bestTrial = f[Len(trials)]
  BY BestIsScan
<1>2. \A i \in 0..Len(trials) : f[i] = IF i = 0 THEN 0 ELSE Cheaper(f[i - 1], i)
  BY <1>1 DEF IsScan
<1> DEFINE S == {k \in 0..Len(trials) : ~IsBest(f[k], k)}
<1>3. S = {}
  <2> SUFFICES ASSUME S # {} PROVE FALSE
    OBVIOUS
  <2>0. S \in SUBSET Nat
    OBVIOUS
  <2>1. PICK k \in S : \A m \in S : k <= m
    BY <2>0, LeastNat
  <2>2. CASE k = 0
    BY <1>2, <2>2 DEF IsBest
  <2>3. CASE k # 0
    <3>1. k \in 1..Len(trials) /\ k - 1 \in 0..Len(trials) /\ k - 1 \notin S
      BY <2>1, <2>3
    <3>2. IsBest(f[k - 1], k - 1)
      BY <3>1
    <3>3. IsBest(Cheaper(f[k - 1], k), k)
      BY <3>1, <3>2, CheaperIsBest
    <3>4. f[k] = Cheaper(f[k - 1], k)
      BY <1>2, <3>1, <2>3
    <3> QED
      BY <3>3, <3>4
  <2> QED
    BY <2>2, <2>3
<1>4. Len(trials) \in 0..Len(trials)
  OBVIOUS
<1> QED
  BY <1>1, <1>3, <1>4

\* concludeFromTrials makes the fallback of that trial, when the planner has given no answer; no
\* step follows it.
LEMMA FallbackStep ==
  ASSUME AgentInv, FallbackInv, [AgentNext]_agentVars
  PROVE  FallbackInv'
<1>1. trials \in Seq(Trial)
  BY DEF AgentInv, AgentTypeOK
<1>2. CASE Conclude
  <2>1. /\ loop' = "returned" /\ UNCHANGED <<trials, answer>>
        /\ rec = NoRec /\ answer.kind # "done"
    BY <1>2 DEF Conclude, AgentInv, LoopState, FallbackInv
  <2>2. CASE UNCHANGED rec
    BY <2>1, <2>2 DEF FallbackInv, FallbackIsCheapest, NoRec
  <2>3. ASSUME NEW best \in DOMAIN trials, best = bestTrial, rec' = Fallback(trials[best])
        PROVE  FallbackInv'
    <3>1. IsBest(best, Len(trials)) /\ best # 0
      BY <1>1, <2>3, BestTrialIsBest
    <3>2. Eligible(trials[best]) /\ \A k \in DOMAIN trials :
            Eligible(trials[k]) => trials[best].result.cost <= trials[k].result.cost
      BY <1>1, <3>1 DEF IsBest
    <3>3. /\ rec'.fallback /\ rec'.config = trials[best].config
          /\ rec'.measured = trials[best].result
      BY <2>3 DEF Fallback
    <3>4. FallbackIsCheapest'
      BY <2>1, <3>2, <3>3 DEF FallbackIsCheapest, Eligible, OK
    <3> QED
      BY <2>1, <3>4 DEF FallbackInv
  <2> QED
    BY <1>2, <2>2, <2>3 DEF Conclude
<1>3. CASE \E config \in Config : Recommend(config)
  <2>1. PICK config \in Config : Recommend(config)
    BY <1>3
  <2>2. ~rec'.fallback /\ rec'.config = config
    BY <2>1 DEF Recommend
  <2>3. rec' # NoRec
    BY <2>2, AgentAssumption DEF NoRec
  <2> QED
    BY <2>2, <2>3 DEF FallbackInv, FallbackIsCheapest
<1>4. CASE UNCHANGED agentVars
  BY <1>4 DEF agentVars, FallbackInv, FallbackIsCheapest, Eligible, OK, NoRec
<1>5. CASE ~Conclude /\ ~(\E config \in Config : Recommend(config)) /\ AgentNext
  <2>1. UNCHANGED rec /\ loop \notin {"returned"}
    BY <1>5
    DEF AgentNext, TurnStep, ToolCall, PlannerReplies, PlannerFails, TurnsUsedUp, Deadline, EndTurn,
        Lookup, Refuse, Reuse, StartTrial, Call, TrialFails, TrialDone, EndTrial
  <2>2. answer' = answer \/ answer'.kind # "done"
    <3>1. CASE Lookup
      BY <3>1 DEF Lookup, Call
    <3>2. ASSUME NEW config \in Config, Refuse(config) PROVE answer'.kind # "done"
      BY <3>2 DEF Refuse, Call
    <3>3. ASSUME NEW config \in Config, Reuse(config) PROVE answer'.kind # "done"
      BY <3>3 DEF Reuse, Call
    <3>4. CASE TrialFails
      BY <3>4 DEF TrialFails, EndTrial
    <3>5. ASSUME NEW result \in Result, TrialDone(result) PROVE answer'.kind # "done"
      BY <3>5 DEF TrialDone, EndTrial
    <3>6. CASE \/ PlannerReplies \/ PlannerFails \/ TurnsUsedUp \/ Deadline
               \/ \E stop \in StopReason : EndTurn(stop)
               \/ \E config \in Config : StartTrial(config)
      BY <3>6 DEF PlannerReplies, PlannerFails, TurnsUsedUp, Deadline, EndTurn, StartTrial
    <3> QED
      BY <1>5, <3>1, <3>2, <3>3, <3>4, <3>5, <3>6 DEF AgentNext, TurnStep, ToolCall
  <2>3. ~rec.fallback
    BY <2>1 DEF FallbackInv
  <2> QED
    BY <2>1, <2>2, <2>3 DEF FallbackInv, FallbackIsCheapest, NoRec
<1> QED
  BY <1>2, <1>3, <1>4, <1>5

\* concludeFromTrials: the mechanical fallback is a cheapest error-free trial, and stands in for
\* an answer the planner did not give.
THEOREM FallbackIsRight == AgentSpec => []FallbackIsCheapest
<1>1. AgentInit => FallbackInv
  BY DEF AgentInit, NewAgent, FallbackInv, FallbackIsCheapest, NoRec
<1>2. AgentInv /\ FallbackInv /\ [AgentNext]_agentVars => FallbackInv'
  BY FallbackStep
<1>3. FallbackInv => FallbackIsCheapest
  BY DEF FallbackInv
<1> QED
  BY <1>1, <1>2, <1>3, AgentInvariance, PTL DEF AgentSpec

-----------------------------------------------------------------------------
(* Campaigns.                                                              *)

\* The part of CampaignInv that is not about the agent's variables.
RowInv ==
  /\ ClaimedOnce
  /\ CompletedHasReport
  /\ loops = {} => jobs = 0
  /\ JobsAreBudgeted
  /\ WorkIsRecorded

CampaignTypeOK ==
  /\ row \in {"none", "pending", "running", "completed", "failed", "cancelled"}
  /\ report \in [rec : Recommendation \cup {NoRec}, trials : Seq(Trial)]
  /\ create \in {"none", "saved", "enqueued", "unqueued", "done"}
  /\ work \in [Delivery -> WorkPC]
  /\ loops \subseteq Delivery
  /\ bench \in {"none", "checked", "saved", "waiting"}
  /\ jobs \in 0..MaxTrials

LEMMA SplitInv ==
  /\ CampaignInv <=> AgentInv /\ CampaignTypeOK /\ RowInv
  /\ CampaignInv' <=> AgentInv' /\ CampaignTypeOK' /\ RowInv'
BY DEF CampaignInv, AgentInv, CampaignTypeOK, TypeOK, RowInv

\* Jobs stay budgeted when neither they nor the loop move.
LEMMA BudgetFrame ==
  ASSUME JobsAreBudgeted, UNCHANGED <<bench, jobs>>, UNCHANGED agentVars,
         \A d \in Delivery : work'[d] = "loop" <=> work[d] = "loop"
  PROVE  JobsAreBudgeted'
<1>1. Running' <=> Running
  BY DEF Running
<1>2. UNCHANGED <<spent, loop>>
  BY DEF agentVars
<1> QED
  BY <1>1, <1>2 DEF JobsAreBudgeted

-----------------------------------------------------------------------------
(* The gateway.                                                            *)

LEMMA GatewayPreserves ==
  ASSUME CampaignInv, GatewayStep
  PROVE  CampaignInv'
<1> USE SplitInv
<1>1. UNCHANGED <<report, work, loops, bench, jobs>> /\ UNCHANGED agentVars
  BY DEF GatewayStep, CreateCampaign, EnqueueCampaign, CancelUnqueued, CancelCampaign
<1>2. AgentInv'
  BY <1>1, AgentStutter
<1>3. \/ create = "none" /\ create' = "saved" /\ row' = "pending"
      \/ create # "none" /\ create' \in {"saved", "enqueued", "unqueued", "done"} /\ row' = row
      \/ /\ create' \in {"saved", "enqueued", "unqueued", "done"} \/ create' = create
         /\ row \in {"pending", "running"} /\ row' = "cancelled"
      \/ create' = create /\ row' = row
  BY DEF GatewayStep, CreateCampaign, EnqueueCampaign, CancelUnqueued, CancelCampaign, Cancel
<1>4. CampaignTypeOK'
  BY <1>1, <1>3 DEF CampaignTypeOK
<1>5. ClaimedOnce'
  BY <1>1, <1>3 DEF RowInv, ClaimedOnce, AtMostOneLoop
<1>6. CompletedHasReport' /\ (loops' = {} => jobs' = 0)
  BY <1>1, <1>3 DEF RowInv, CompletedHasReport
<1>7. JobsAreBudgeted'
  BY <1>1, BudgetFrame DEF RowInv
<1>8. WorkIsRecorded'
  <2>1. Lifecycle!IsTerminal(row) => Lifecycle!IsTerminal(row') \/ create = "none"
    BY <1>3 DEF Lifecycle!IsTerminal
  <2>2. loops # {} => create # "none"
    BY DEF RowInv, ClaimedOnce
  <2> QED
    BY <1>1, <2>1, <2>2 DEF RowInv, WorkIsRecorded, agentVars
<1> QED
  BY <1>2, <1>4, <1>5, <1>6, <1>7, <1>8 DEF RowInv

-----------------------------------------------------------------------------
(* The deliveries.                                                         *)

LEMMA DeliverPreserves ==
  ASSUME CampaignInv, NEW d \in Delivery,
         Deliver(d) \/ ClaimFails(d)
  PROVE  CampaignInv'
<1> USE SplitInv
<1>1. UNCHANGED <<report, create, loops, bench, jobs>> /\ UNCHANGED agentVars
  BY DEF Deliver, ClaimFails
<1>2. /\ work[d] \in {"idle", "claim"}
      /\ \E label \in {"claim", "done"} : work' = [work EXCEPT ![d] = label]
      /\ row' = row \/ (row = "pending" /\ row' = "running")
  BY DEF Deliver, ClaimFails, Goto, MarkRunning
<1>3. AgentInv'
  BY <1>1, AgentStutter
<1>4. CampaignTypeOK'
  BY <1>1, <1>2 DEF CampaignTypeOK, WorkPC
<1>5. d \notin loops /\ \A e \in loops : work'[e] = work[e]
  BY <1>2 DEF RowInv, ClaimedOnce, CampaignTypeOK
<1>6. \A e \in Delivery : work'[e] = "loop" <=> work[e] = "loop"
  BY <1>2 DEF CampaignTypeOK
<1>7. ClaimedOnce'
  BY <1>1, <1>2, <1>5, <1>6 DEF RowInv, ClaimedOnce, AtMostOneLoop
<1>8. CompletedHasReport' /\ (loops' = {} => jobs' = 0)
  BY <1>1, <1>2 DEF RowInv, CompletedHasReport
<1>9. JobsAreBudgeted'
  BY <1>1, <1>6, BudgetFrame DEF RowInv
<1>10. WorkIsRecorded'
  <2>1. loops # {} => row' = row
    BY <1>2 DEF RowInv, ClaimedOnce
  <2> QED
    BY <1>1, <1>5, <2>1 DEF RowInv, WorkIsRecorded, agentVars
<1> QED
  BY <1>3, <1>4, <1>7, <1>8, <1>9, <1>10 DEF RowInv

\* The claim: it succeeds on a pending row only, so there is no loop yet.
LEMMA ClaimPreserves ==
  ASSUME CampaignInv, NEW d \in Delivery, Claim(d)
  PROVE  CampaignInv'
<1> USE SplitInv
<1>1. /\ row = "pending" /\ row' = "running"
      /\ work[d] = "claim" /\ work' = [work EXCEPT ![d] = "loop"]
      /\ loops' = loops \cup {d} /\ bench' = "none"
      /\ UNCHANGED <<report, create, jobs>>
  BY DEF Claim, MarkRunning, Goto
<1>2. AgentInv'
  BY NewLoop DEF Claim
<1>3. loops = {} /\ jobs = 0
  BY <1>1 DEF RowInv, ClaimedOnce
<1>4. CampaignTypeOK'
  BY <1>1 DEF CampaignTypeOK, WorkPC
<1>5. work'[d] = "loop" /\ \A e \in Delivery : work'[e] = "loop" => e = d
  BY <1>1, <1>3 DEF RowInv, ClaimedOnce, CampaignTypeOK
<1>6. loops' = {d}
  BY <1>1, <1>3
<1>7. ClaimedOnce'
  BY <1>1, <1>5, <1>6 DEF RowInv, ClaimedOnce, AtMostOneLoop
<1>8. CompletedHasReport' /\ (loops' = {} => jobs' = 0)
  BY <1>1, <1>6 DEF CompletedHasReport
<1>9. JobsAreBudgeted'
  BY <1>1, <1>3, AgentAssumption DEF JobsAreBudgeted, Claim, EnterRun
<1>10. WorkIsRecorded'
  BY <1>5, <1>6 DEF WorkIsRecorded
<1> QED
  BY <1>2, <1>4, <1>7, <1>8, <1>9, <1>10 DEF RowInv

\* The outcome: Work is the only delivery in a loop, and the row is running or cancelled.
LEMMA RecordPreserves ==
  ASSUME CampaignInv, NEW d \in Delivery, Record(d)
  PROVE  CampaignInv'
<1> USE SplitInv
<1>1. /\ work[d] = "loop" /\ work' = [work EXCEPT ![d] = "done"]
      /\ UNCHANGED <<create, loops, bench, jobs>> /\ UNCHANGED agentVars
  BY DEF Record, Goto
<1>2. d \in loops /\ row \in {"running", "cancelled"} /\ loops = {d}
  BY <1>1 DEF RowInv, ClaimedOnce, AtMostOneLoop
<1>3. \/ /\ outcome = "ok" /\ row' = Final("completed")
         /\ report' = [rec |-> rec, trials |-> trials]
      \/ /\ outcome = "error" /\ row' = Final("failed")
         /\ report' = [report EXCEPT !.trials = trials]
      \/ Fault("db") /\ UNCHANGED <<row, report>>
  BY DEF Record, Complete, Fail
<1>4. AgentInv'
  BY <1>1, AgentStutter
<1>5. report' \in [rec : Recommendation \cup {NoRec}, trials : Seq(Trial)]
  BY <1>3 DEF CampaignTypeOK, AgentInv, AgentTypeOK
<1>6. row' \in {"running", "completed", "failed", "cancelled"}
  BY <1>2, <1>3 DEF Final
<1>7. CampaignTypeOK'
  BY <1>1, <1>5, <1>6 DEF CampaignTypeOK, WorkPC
<1>8. work'[d] = "done" /\ \A e \in Delivery : work'[e] # "loop"
  BY <1>1, <1>2 DEF RowInv, ClaimedOnce, CampaignTypeOK
<1>9. ClaimedOnce'
  BY <1>1, <1>2, <1>6, <1>8 DEF RowInv, ClaimedOnce, AtMostOneLoop
<1>10. CompletedHasReport'
  <2>1. outcome = "ok" => rec # NoRec
    BY DEF Record, AgentInv, SuccessHasRecommendation
  <2>2. row' = "completed" => outcome = "ok" /\ report'.rec = rec
    BY <1>2, <1>3 DEF Final
  <2> QED
    BY <2>1, <2>2 DEF CompletedHasReport
<1>11. loops' = {} => jobs' = 0
  BY <1>1, <1>2
<1>12. JobsAreBudgeted'
  BY <1>1, <1>8 DEF RowInv, JobsAreBudgeted, Running
<1>13. WorkIsRecorded'
  <2>1. ASSUME Faults = {} PROVE report'.trials = trials' /\ Lifecycle!IsTerminal(row')
    <3>1. ~Fault("db")
      BY <2>1 DEF Fault
    <3>2. row' \in {"completed", "failed", "cancelled"}
      BY <1>3, <3>1 DEF Final
    <3>3. report'.trials = trials
      BY <1>3, <3>1 DEF CampaignTypeOK
    <3> QED
      BY <1>1, <3>2, <3>3 DEF Lifecycle!IsTerminal, agentVars
  <2> QED
    BY <2>1, <1>1, <1>2 DEF WorkIsRecorded
<1> QED
  BY <1>4, <1>7, <1>9, <1>10, <1>11, <1>12, <1>13 DEF RowInv

\* A crash gives up the delivery, and with it the loop.
LEMMA CrashPreserves ==
  ASSUME CampaignInv, NEW d \in Delivery, Crash(d)
  PROVE  CampaignInv'
<1> USE SplitInv
<1>1. /\ Fault("crash") /\ work[d] \in {"claim", "loop"}
      /\ work' = [work EXCEPT ![d] = "done"]
      /\ UNCHANGED <<row, report, create, loops, jobs>>
  BY DEF Crash, Goto
<1>2. AgentInv'
  <2>1. AgentTypeOK' /\ LoopState' /\ SuccessHasRecommendation'
    BY DEF Crash, AgentInv, AgentTypeOK, LoopState, SuccessHasRecommendation
  <2>2. UNCHANGED <<trials, rec, spent, current>> /\ (loop' = "benchmark" => loop = "benchmark")
    BY DEF Crash
  <2> QED
    BY <2>1, <2>2, QuietStep
<1>3. CampaignTypeOK'
  BY <1>1 DEF CampaignTypeOK, WorkPC, Crash
<1>4. \A e \in Delivery : work'[e] = IF e = d THEN "done" ELSE work[e]
  BY <1>1 DEF CampaignTypeOK
<1>5. ClaimedOnce'
  BY <1>1, <1>4 DEF RowInv, ClaimedOnce, AtMostOneLoop, CampaignTypeOK
<1>6. CompletedHasReport' /\ (loops' = {} => jobs' = 0)
  BY <1>1 DEF RowInv, CompletedHasReport
<1>7. JobsAreBudgeted'
  <2>1. CASE work[d] = "loop"
    <3>1. ~Running'
      BY <1>4, <2>1 DEF Running, RowInv, ClaimedOnce, AtMostOneLoop
    <3> QED
      BY <1>1, <3>1 DEF RowInv, JobsAreBudgeted
  <2>2. CASE work[d] # "loop"
    <3>1. UNCHANGED <<jobs, bench, spent, loop>> /\ (Running' => Running)
      BY <1>4, <2>2 DEF Running, Crash
    <3> QED
      BY <3>1 DEF RowInv, JobsAreBudgeted
  <2> QED
    BY <2>1, <2>2
<1>8. WorkIsRecorded'
  BY <1>1 DEF WorkIsRecorded, Fault
<1> QED
  BY <1>2, <1>3, <1>5, <1>6, <1>7, <1>8 DEF RowInv

-----------------------------------------------------------------------------
(* The agent loop and its benchmarks.                                      *)

\* Steps inside Run leave the row, the report and the deliveries alone.  What was recorded
\* of a loop that is over stays valid: its variables do not move any more.
LEMMA RunFrame ==
  ASSUME CampaignInv, Running, UNCHANGED <<row, report, create, work, loops>>
  PROVE  /\ ClaimedOnce'
         /\ CompletedHasReport'
         /\ loops' # {}
         /\ WorkIsRecorded'
<1> USE SplitInv
<1>1. PICK d \in Delivery : work[d] = "loop"
  BY DEF Running
<1>2. loops = {d}
  BY <1>1 DEF RowInv, ClaimedOnce, AtMostOneLoop
<1>3. ClaimedOnce' /\ CompletedHasReport' /\ loops' # {}
  BY <1>2 DEF RowInv, ClaimedOnce, AtMostOneLoop, CompletedHasReport
<1>4. WorkIsRecorded'
  BY <1>1, <1>2 DEF WorkIsRecorded
<1> QED
  BY <1>3, <1>4

\* The budget of jobs in words of arithmetic: either nothing moves or a trial ends.
LEMMA TurnSpend ==
  ASSUME TurnStep
  PROVE  UNCHANGED spent /\ (loop = "benchmark" => loop' = "benchmark")
<1>1. ASSUME NEW config \in Config,
             Refuse(config) \/ Reuse(config) \/ StartTrial(config) \/ Recommend(config)
      PROVE  UNCHANGED spent /\ (loop = "benchmark" => loop' = "benchmark")
  BY <1>1 DEF Refuse, Reuse, StartTrial, Recommend, Call
<1>2. ASSUME NEW stop \in StopReason, EndTurn(stop)
      PROVE  UNCHANGED spent /\ (loop = "benchmark" => loop' = "benchmark")
  BY <1>2 DEF EndTurn
<1>3. ASSUME PlannerReplies \/ PlannerFails \/ TurnsUsedUp \/ Conclude \/ Deadline \/ Lookup
      PROVE  UNCHANGED spent /\ (loop = "benchmark" => loop' = "benchmark")
  BY <1>3 DEF PlannerReplies, PlannerFails, TurnsUsedUp, Conclude, Deadline, Lookup, Call
<1> QED
  BY <1>1, <1>2, <1>3 DEF TurnStep, ToolCall

LEMMA AgentStepPreserves ==
  ASSUME CampaignInv, AgentStep
  PROVE  CampaignInv'
<1> USE SplitInv
<1>1. Running /\ TurnStep /\ UNCHANGED <<row, report, create, work, loops, bench, jobs>>
  BY DEF AgentStep, campaignVars
<1>2. AgentInv'
  BY <1>1, TurnStepPreserves
<1>3. CampaignTypeOK'
  BY <1>1 DEF CampaignTypeOK
<1>4. UNCHANGED spent /\ (loop = "benchmark" => loop' = "benchmark")
  BY <1>1, TurnSpend
<1>5. JobsAreBudgeted'
  BY <1>1, <1>4 DEF RowInv, JobsAreBudgeted, CampaignTypeOK, AgentInv, AgentTypeOK
<1> QED
  BY <1>1, <1>2, <1>3, <1>5, RunFrame DEF RowInv

\* A benchmark ends, one way or another.
LEMMA EndBenchmarkPreserves ==
  ASSUME CampaignInv, Running, NEW kind \in {"result", "failed", "cancelled"},
         NEW err \in BOOLEAN, NEW result \in Result, EndTrial(kind, err, result),
         bench' = "none", UNCHANGED <<row, report, create, work, loops, jobs>>
  PROVE  CampaignInv'
<1> USE SplitInv
<1>1. AgentInv'
  BY EndTrialPreserves
<1>2. CampaignTypeOK'
  BY DEF CampaignTypeOK
<1>3. JobsAreBudgeted'
  <2>1. jobs <= spent + 1 /\ jobs \in Nat /\ jobs <= MaxTrials
    BY DEF RowInv, JobsAreBudgeted, CampaignTypeOK, AgentInv, AgentTypeOK
  <2>2. spent' = spent + 1 /\ loop' # "benchmark"
    BY DEF EndTrial
  <2> QED
    BY <2>1, <2>2 DEF JobsAreBudgeted
<1> QED
  BY <1>1, <1>2, <1>3, RunFrame DEF RowInv

LEMMA BenchmarkPreserves ==
  ASSUME CampaignInv, BenchmarkStep
  PROVE  CampaignInv'
<1> USE SplitInv
<1>1. NoResult \in Result
  BY DEF NoResult, Result
<1>2. ASSUME NEW kind \in {"failed", "cancelled"}, Running, BenchmarkFails(kind)
      PROVE  CampaignInv'
  BY <1>1, <1>2, EndBenchmarkPreserves DEF BenchmarkFails
<1>3. CASE NoticeCancelled \/ FailValidation \/ RunBenchmarkFails
  BY <1>2, <1>3 DEF NoticeCancelled, FailValidation, RunBenchmarkFails
<1>4. ASSUME NEW result \in Result, RunBenchmarkReturns(result) PROVE CampaignInv'
  BY <1>4, EndBenchmarkPreserves DEF RunBenchmarkReturns, TrialDone
<1>5. CASE PassChecks \/ EnqueueTrialJob
  <2>1. /\ Running /\ UNCHANGED <<row, report, create, work, loops, jobs>>
        /\ UNCHANGED agentVars
        /\ \/ bench' = "checked" /\ bench = "none"
           \/ bench' = "waiting" /\ bench = "saved"
    BY <1>5 DEF PassChecks, EnqueueTrialJob
  <2>2. AgentInv'
    BY <2>1, AgentStutter
  <2>3. CampaignTypeOK'
    BY <2>1 DEF CampaignTypeOK
  <2>4. JobsAreBudgeted'
    <3>1. UNCHANGED <<spent, loop>>
      BY <2>1 DEF agentVars
    <3> QED
      BY <2>1, <3>1 DEF RowInv, JobsAreBudgeted
  <2> QED
    BY <2>1, <2>2, <2>3, <2>4, RunFrame DEF RowInv
<1>6. CASE SaveTrialJob
  <2>1. /\ Running /\ UNCHANGED <<row, report, create, work, loops>>
        /\ UNCHANGED agentVars
        /\ bench = "checked" /\ bench' = "saved" /\ jobs' = jobs + 1 /\ loop = "benchmark"
    BY <1>6 DEF SaveTrialJob
  <2>2. AgentInv'
    BY <2>1, AgentStutter
  <2>3. jobs <= spent /\ spent + 1 <= MaxTrials /\ spent \in Nat /\ jobs \in Nat
    BY <2>1 DEF RowInv, JobsAreBudgeted, AgentInv, SpendCountsTrials, AgentTypeOK, CampaignTypeOK
  <2>4. CampaignTypeOK'
    BY <2>1, <2>3, AgentAssumption DEF CampaignTypeOK
  <2>5. JobsAreBudgeted'
    <3>1. UNCHANGED <<spent, loop>>
      BY <2>1 DEF agentVars
    <3> QED
      BY <2>1, <2>3, <3>1, AgentAssumption DEF JobsAreBudgeted
  <2> QED
    BY <2>1, <2>2, <2>4, <2>5, RunFrame DEF RowInv
<1> QED
  BY <1>3, <1>4, <1>5, <1>6 DEF BenchmarkStep

-----------------------------------------------------------------------------
\* CampaignInv is an invariant, whatever deliveries overlap and whatever fails.
THEOREM CampaignInvariance == Spec => []CampaignInv
<1>1. Init => CampaignInv
  <2> SUFFICES ASSUME Init PROVE CampaignInv
    OBVIOUS
  <2>1. AgentInv
    BY NewLoop DEF Init
  <2>2. CampaignTypeOK
    BY AgentAssumption DEF Init, CampaignTypeOK, NoReport, WorkPC
  <2>3. ClaimedOnce /\ CompletedHasReport /\ (loops = {} => jobs = 0)
    BY DEF Init, ClaimedOnce, AtMostOneLoop, CompletedHasReport
  <2>4. JobsAreBudgeted /\ WorkIsRecorded
    BY AgentAssumption DEF Init, NewAgent, JobsAreBudgeted, Running, WorkIsRecorded
  <2> QED
    BY <2>1, <2>2, <2>3, <2>4, SplitInv DEF RowInv
<1>2. CampaignInv /\ [Next]_vars => CampaignInv'
  <2> SUFFICES ASSUME CampaignInv, [Next]_vars PROVE CampaignInv'
    OBVIOUS
  <2>1. CASE GatewayStep
    BY <2>1, GatewayPreserves
  <2>2. ASSUME NEW d \in Delivery, WorkStep(d) PROVE CampaignInv'
    BY <2>2, DeliverPreserves, ClaimPreserves, RecordPreserves, CrashPreserves DEF WorkStep
  <2>3. CASE AgentStep
    BY <2>3, AgentStepPreserves
  <2>4. CASE BenchmarkStep
    BY <2>4, BenchmarkPreserves
  <2>5. CASE UNCHANGED vars
    <3>1. AgentInv'
      BY <2>5, AgentStutter, SplitInv DEF vars
    <3>2. UNCHANGED <<row, report, create, work, loops, bench, jobs>> /\ UNCHANGED agentVars
      BY <2>5 DEF vars, campaignVars
    <3>3. CampaignTypeOK'
      BY <3>2, SplitInv DEF CampaignTypeOK
    <3>4. ClaimedOnce' /\ CompletedHasReport' /\ (loops' = {} => jobs' = 0)
      BY <3>2, SplitInv DEF RowInv, ClaimedOnce, AtMostOneLoop, CompletedHasReport
    <3>5. JobsAreBudgeted'
      BY <3>2, SplitInv, BudgetFrame DEF RowInv
    <3>6. WorkIsRecorded'
      BY <3>2, SplitInv DEF RowInv, WorkIsRecorded, agentVars
    <3> QED
      BY <3>1, <3>3, <3>4, <3>5, <3>6, SplitInv DEF RowInv
  <2> QED
    BY <2>1, <2>2, <2>3, <2>4, <2>5 DEF Next
<1> QED
  BY <1>1, <1>2, PTL DEF Spec

\* MarkRunning: one agent loop per campaign, for any number of deliveries.
THEOREM OneLoopPerCampaign == Spec => []AtMostOneLoop
<1>1. CampaignInv => AtMostOneLoop
  BY DEF CampaignInv, ClaimedOnce
<1> QED
  BY <1>1, CampaignInvariance, PTL

\* Complete: a completed campaign has its recommendation.
THEOREM CompletedCampaignsHaveReports == Spec => []CompletedHasReport
<1>1. CampaignInv => CompletedHasReport
  BY DEF CampaignInv
<1> QED
  BY <1>1, CampaignInvariance, PTL

\* RunBenchmark: the jobs of a campaign stay within its trial budget, through crashes.
THEOREM CampaignJobsAreBudgeted == Spec => []JobsAreBudgeted
<1>1. CampaignInv => JobsAreBudgeted
  BY DEF CampaignInv
<1> QED
  BY <1>1, CampaignInvariance, PTL

\* Complete, Fail: no trial of a campaign is lost while statements succeed.
THEOREM CampaignWorkIsRecorded == Spec => []WorkIsRecorded
<1>1. CampaignInv => WorkIsRecorded
  BY DEF CampaignInv
<1> QED
  BY <1>1, CampaignInvariance, PTL

\* The statements of the store implement the lifecycle.
THEOREM CampaignRefinesLifecycle == Spec => RefinesLifecycle
<1>1. Init => Lifecycle!Init
  BY DEF Init, Lifecycle!Init
<1>2. CampaignInv /\ [Next]_vars => [Lifecycle!Next]_row
  <2> SUFFICES ASSUME CampaignInv, [Next]_vars PROVE [Lifecycle!Next]_row
    OBVIOUS
  <2> USE DEF Lifecycle!Next, Lifecycle!Submit, Lifecycle!Claim, Lifecycle!Finish,
              Lifecycle!Cancel
  <2>1. CASE GatewayStep
    <3>1. create = "none" => row = "none"
      BY DEF CampaignInv, ClaimedOnce
    <3> QED
      BY <2>1, <3>1
      DEF GatewayStep, CreateCampaign, EnqueueCampaign, CancelUnqueued, CancelCampaign, Cancel
  <2>2. ASSUME NEW d \in Delivery, Record(d) PROVE [Lifecycle!Next]_row
    <3>1. row \in {"running", "cancelled"}
      BY <2>2 DEF CampaignInv, ClaimedOnce, Record
    <3> QED
      BY <2>2, <3>1 DEF Record, Complete, Fail, Final
  <2>3. ASSUME NEW d \in Delivery, Deliver(d) \/ Claim(d) \/ ClaimFails(d) \/ Crash(d)
        PROVE  [Lifecycle!Next]_row
    BY <2>3 DEF Deliver, Claim, ClaimFails, Crash, MarkRunning
  <2>4. CASE AgentStep
    BY <2>4 DEF AgentStep, campaignVars
  <2>5. CASE BenchmarkStep
    BY <2>5 DEF BenchmarkStep, NoticeCancelled, PassChecks, FailValidation, SaveTrialJob,
                EnqueueTrialJob, RunBenchmarkFails, RunBenchmarkReturns, BenchmarkFails
  <2>6. CASE UNCHANGED vars
    BY <2>6 DEF vars, campaignVars
  <2> QED
    BY <2>1, <2>2, <2>3, <2>4, <2>5, <2>6 DEF Next, WorkStep
<1> QED
  BY <1>1, <1>2, CampaignInvariance, PTL DEF Spec, RefinesLifecycle, Lifecycle!Spec

\* checkCancelled: a cancellation is final for the benchmarks of a campaign, but for the
\* one whose check came before it.
THEOREM CancellationStopsSubmission == Spec => CancelStopsSubmission
<1> DEFINE Stopped == Faults = {} /\ CancelInEffect => CancelInEffect' /\ jobs' = jobs
<1>1. CampaignInv /\ [Next]_vars => [Stopped]_vars
  <2> SUFFICES ASSUME CampaignInv, [Next]_vars, Faults = {}, CancelInEffect
               PROVE  CancelInEffect' /\ jobs' = jobs
    OBVIOUS
  <2> USE DEF CancelInEffect
  <2>1. CASE GatewayStep
    <3>1. UNCHANGED <<bench, jobs>> /\ UNCHANGED agentVars
      BY <2>1 DEF GatewayStep, CreateCampaign, EnqueueCampaign, CancelUnqueued, CancelCampaign
    <3>2. row' = row
      BY <2>1
      DEF GatewayStep, CreateCampaign, EnqueueCampaign, CancelUnqueued, CancelCampaign, Cancel,
          CampaignInv, ClaimedOnce
    <3> QED
      BY <3>1, <3>2 DEF agentVars
  <2>2. ASSUME NEW d \in Delivery, WorkStep(d) PROVE CancelInEffect' /\ jobs' = jobs
    <3>1. ~Claim(d) /\ ~Crash(d)
      BY DEF Claim, MarkRunning, Crash, Fault
    <3>2. UNCHANGED <<bench, jobs>> /\ UNCHANGED agentVars
      BY <2>2, <3>1 DEF WorkStep, Deliver, ClaimFails, Record
    <3>3. row' = row
      BY <2>2, <3>1
      DEF WorkStep, Deliver, ClaimFails, Record, MarkRunning, Complete, Fail, Final, Fault
    <3> QED
      BY <3>2, <3>3 DEF agentVars
  <2>3. CASE AgentStep
    <3>1. Running /\ TurnStep /\ UNCHANGED <<row, bench, jobs>>
      BY <2>3 DEF AgentStep, campaignVars
    <3>2. overdue => overdue'
      <4>1. ASSUME NEW config \in Config,
                   Refuse(config) \/ Reuse(config) \/ StartTrial(config) \/ Recommend(config)
            PROVE  overdue' = overdue
        BY <4>1 DEF Refuse, Reuse, StartTrial, Recommend
      <4>2. ASSUME NEW stop \in StopReason, EndTurn(stop) PROVE overdue' = overdue
        BY <4>2 DEF EndTurn
      <4>3. ASSUME PlannerReplies \/ PlannerFails \/ TurnsUsedUp \/ Conclude \/ Deadline \/ Lookup
            PROVE  overdue => overdue'
        BY <4>3 DEF PlannerReplies, PlannerFails, TurnsUsedUp, Conclude, Deadline, Lookup
      <4> QED
        BY <3>1, <4>1, <4>2, <4>3 DEF TurnStep, ToolCall
    <3> QED
      BY <3>1, <3>2
  <2>4. CASE BenchmarkStep
    <3>1. ASSUME NEW kind, BenchmarkFails(kind) PROVE CancelInEffect' /\ jobs' = jobs
      BY <3>1 DEF BenchmarkFails, EndTrial
    <3>2. ASSUME NEW result \in Result, RunBenchmarkReturns(result)
          PROVE  CancelInEffect' /\ jobs' = jobs
      BY <3>2 DEF RunBenchmarkReturns, TrialDone, EndTrial
    <3>3. CASE PassChecks
      BY <3>3 DEF PassChecks, Fault, agentVars
    <3>4. CASE EnqueueTrialJob
      BY <3>4 DEF EnqueueTrialJob, agentVars
    <3>5. ~SaveTrialJob
      BY DEF SaveTrialJob
    <3> QED
      BY <2>4, <3>1, <3>2, <3>3, <3>4, <3>5
      DEF BenchmarkStep, NoticeCancelled, FailValidation, RunBenchmarkFails
  <2>5. CASE UNCHANGED vars
    BY <2>5 DEF vars, campaignVars, agentVars
  <2> QED
    BY <2>1, <2>2, <2>3, <2>4, <2>5 DEF Next
<1> QED
  BY <1>1, CampaignInvariance, PTL DEF Spec, CancelStopsSubmission
=============================================================================
