----------------------------- MODULE AgentLoop -----------------------------
(***************************************************************************)
(* One optimization campaign's agent loop (internal/agent): planner turns, *)
(* the tool calls of a turn, the budget, the trials and the                *)
(* recommendation.                                                         *)
(*                                                                         *)
(* The planner is a language model: it may answer anything, so every       *)
(* choice it has is a disjunct.  The model, GPU profile and workload are   *)
(* fixed for a campaign, so a TrialSpec is a configuration.  A result is   *)
(* what the loop looks at: its cost per million tokens and whether its     *)
(* error rate is 0.  The worker computes cost 0 exactly when the           *)
(* throughput is 0.  Events are in module CampaignFeed.                    *)
(***************************************************************************)
EXTENDS Naturals, Sequences, FiniteSets

CONSTANTS
  Config,      \* engine configurations the planner may name
  Allowed,     \* those whose engine is a candidate of the campaign
  NoConfig,    \* no configuration
  Costs,       \* positive costs a benchmark can measure
  MaxTrials,   \* Budget.MaxTrials
  MaxTurns,    \* Budget.MaxTurns
  MaxCalls     \* bound: tool calls in one response of the planner

ASSUME AgentAssumption ==
  /\ Allowed \subseteq Config
  /\ NoConfig \notin Config
  /\ Costs \subseteq Nat \ {0}
  /\ MaxTrials \in Nat \ {0}
  /\ MaxTurns \in Nat \ {0}
  /\ MaxCalls \in Nat \ {0}

VARIABLES
  loop,      \* where Run is
  outcome,   \* whether Run returned an error
  turns,     \* spend.turns
  calls,     \* tool calls of the current response dispatched so far
  spent,     \* spend.trials
  trials,    \* Agent.trials
  current,   \* the configuration being benchmarked
  rec,       \* Agent.recommendation
  answer,    \* the last tool result handed back to the planner
  overdue    \* MaxDuration has passed: the context is dead

agentVars == <<loop, outcome, turns, calls, spent, trials, current, rec, answer, overdue>>

\* jobs.Result as compute_result makes it, and the zero Result of a failed trial.
Result   == [cost : Costs \cup {0}, clean : BOOLEAN]
NoResult == [cost |-> 0, clean |-> TRUE]

Trial  == [config : Config, err : BOOLEAN, result : Result, reused : BOOLEAN]

\* No recommendation, or one with the measurement attached to it, if any.
NoRec == [config |-> NoConfig, fallback |-> FALSE, measured |-> NoResult]
Recommendation == [config : Config, fallback : BOOLEAN, measured : Result]

Answer == [kind : {"none", "lookup", "refused", "result", "failed", "cancelled", "done"},
           config : Config \cup {NoConfig}]

AgentTypeOK ==
  /\ loop \in {"off", "planner", "turn", "benchmark", "conclude", "returned"}
  /\ outcome \in {"none", "ok", "error"}
  /\ turns \in 0..MaxTurns
  /\ calls \in 0..MaxCalls
  /\ spent \in 0..MaxTrials
  /\ trials \in Seq(Trial)
  /\ current \in Config \cup {NoConfig}
  /\ rec \in Recommendation \cup {NoRec}
  /\ answer \in Answer
  /\ overdue \in BOOLEAN

\* agent.New: nothing spent, nothing tried.
NewAgent(where) ==
  /\ loop = where
  /\ outcome = "none"
  /\ turns = 0 /\ calls = 0 /\ spent = 0
  /\ trials = << >>
  /\ current = NoConfig
  /\ rec = NoRec
  /\ answer = [kind |-> "none", config |-> NoConfig]
  /\ overdue = FALSE

\* The same for a loop that starts now.
EnterRun ==
  /\ loop' = "planner"
  /\ outcome' = "none"
  /\ turns' = 0 /\ calls' = 0 /\ spent' = 0
  /\ trials' = << >>
  /\ current' = NoConfig
  /\ rec' = NoRec
  /\ answer' = [kind |-> "none", config |-> NoConfig]
  /\ overdue' = FALSE

-----------------------------------------------------------------------------
(* Budget, findTrial, bestTrial.                                           *)

\* Mutant: the cap is compared with > instead of >=.
exhaustedLate == spent > MaxTrials \/ overdue

\* spend.exhausted
exhausted == spent >= MaxTrials \/ overdue

\* Trial.OK
OK(t) == ~t.err /\ t.result.cost > 0

\* Mutant: failed trials are not found, so that they are run again.
SameSpecUnlessFailed(config) == {i \in DOMAIN trials : trials[i].config = config /\ ~trials[i].err}

SameSpec(config) == {i \in DOMAIN trials : trials[i].config = config}

\* findTrial: the earliest trial of the same specification.
findTrial(config) ==
  trials[CHOOSE i \in SameSpec(config) : \A k \in SameSpec(config) : i <= k]

Eligible(t) == OK(t) /\ t.result.clean

\* Mutant: trials with failed requests take part in the choice.
bestTrialAnyErrorRate ==
  LET scan[i \in 0..Len(trials)] ==
        IF i = 0 THEN 0
        ELSE IF /\ OK(trials[i])
                /\ \/ scan[i - 1] = 0
                   \/ trials[i].result.cost < trials[scan[i - 1]].result.cost
             THEN i ELSE scan[i - 1]
  IN  scan[Len(trials)]

\* bestTrial's comparison: what the scan holds after trial i, when it held best before.
Cheaper(best, i) ==
  IF /\ Eligible(trials[i])
     /\ best = 0 \/ trials[i].result.cost < trials[best].result.cost
  THEN i ELSE best

\* bestTrial's scan: the position of the cheapest error-free trial, 0 if there is none.
bestTrial ==
  LET scan[i \in 0..Len(trials)] == IF i = 0 THEN 0 ELSE Cheaper(scan[i - 1], i)
  IN  scan[Len(trials)]

-----------------------------------------------------------------------------
(* Run: the turns.                                                         *)

\* Mutant: turns are not counted.
PlannerRepliesUncounted ==
  /\ loop = "planner" /\ turns < MaxTurns /\ ~overdue
  /\ loop' = "turn" /\ calls' = 0
  /\ UNCHANGED <<outcome, turns, spent, trials, current, rec, answer, overdue>>

\* client.New answers; its tool calls are dispatched one by one.
PlannerReplies ==
  /\ loop = "planner" /\ turns < MaxTurns /\ ~overdue
  /\ turns' = turns + 1
  /\ loop' = "turn" /\ calls' = 0
  /\ UNCHANGED <<outcome, spent, trials, current, rec, answer, overdue>>

\* client.New fails, because of the API or because the context is dead, or the planner
\* declines.  Run returns the error: concludeFromTrials is not called.
PlannerFails ==
  /\ loop = "planner" /\ turns < MaxTurns
  /\ turns' = turns + 1
  /\ loop' = "returned" /\ outcome' = "error"
  /\ UNCHANGED <<calls, spent, trials, current, rec, answer, overdue>>

TurnsUsedUp ==
  /\ loop = "planner" /\ turns = MaxTurns
  /\ loop' = "conclude"
  /\ UNCHANGED <<outcome, turns, calls, spent, trials, current, rec, answer, overdue>>

\* The content of the response has been worked off.  "tool_use" is the stop reason of a
\* response that calls a tool; any response may stop for another reason.
EndTurn(stop) ==
  /\ loop = "turn"
  /\ stop = "tool_use" => calls > 0
  /\ \/ /\ rec # NoRec
        /\ loop' = "returned" /\ outcome' = "ok"
     \/ /\ rec = NoRec
        /\ loop' = IF stop = "tool_use" THEN "planner" ELSE "conclude"
        /\ UNCHANGED outcome
  /\ UNCHANGED <<turns, calls, spent, trials, current, rec, answer, overdue>>

\* The recommendation concludeFromTrials makes of a trial.
Fallback(t) == [config |-> t.config, fallback |-> TRUE, measured |-> t.result]

\* concludeFromTrials
Conclude ==
  /\ loop = "conclude"
  /\ loop' = "returned"
  /\ \/ bestTrial = 0 /\ outcome' = "error" /\ UNCHANGED rec
     \/ \E best \in DOMAIN trials :
          best = bestTrial /\ outcome' = "ok" /\ rec' = Fallback(trials[best])
  /\ UNCHANGED <<turns, calls, spent, trials, current, answer, overdue>>

\* The wall clock budget runs out.
Deadline ==
  /\ loop \notin {"off", "returned"} /\ ~overdue
  /\ overdue' = TRUE
  /\ UNCHANGED <<loop, outcome, turns, calls, spent, trials, current, rec, answer>>

-----------------------------------------------------------------------------
(* dispatchTool                                                            *)

Call(kind, config) ==
  /\ loop = "turn" /\ calls < MaxCalls
  /\ calls' = calls + 1
  /\ answer' = [kind |-> kind, config |-> config]

\* list_workers, classify_workload, historical_results, an unknown tool, and arguments
\* that do not parse.
Lookup ==
  /\ Call("lookup", NoConfig)
  /\ UNCHANGED <<loop, outcome, turns, spent, trials, current, rec, overdue>>

\* run_benchmark on a foreign engine, or with the budget exhausted.
Refuse(config) ==
  /\ Call("refused", config)
  /\ config \notin Allowed \/ exhausted
  /\ UNCHANGED <<loop, outcome, turns, spent, trials, current, rec, overdue>>

\* run_benchmark on a configuration that was tried before, well or not.
Reuse(config) ==
  /\ Call("result", config)
  /\ config \in Allowed /\ ~exhausted
  /\ SameSpec(config) # {}
  /\ trials' = Append(trials, [findTrial(config) EXCEPT !.reused = TRUE])
  /\ UNCHANGED <<loop, outcome, turns, spent, current, rec, overdue>>

\* run_benchmark up to its call of Platform.RunBenchmark.
StartTrial(config) ==
  /\ loop = "turn" /\ calls < MaxCalls
  /\ config \in Allowed /\ ~exhausted
  /\ SameSpec(config) = {}
  /\ calls' = calls + 1
  /\ loop' = "benchmark" /\ current' = config
  /\ UNCHANGED <<outcome, turns, spent, trials, rec, answer, overdue>>

\* Mutant: only successful trials are counted.
EndTrialCountsSuccess(kind, err, result) ==
  /\ loop = "benchmark"
  /\ loop' = "turn" /\ current' = NoConfig
  /\ spent' = IF err THEN spent ELSE spent + 1
  /\ trials' = Append(trials, [config |-> current, err |-> err, result |-> result,
                               reused |-> FALSE])
  /\ answer' = [kind |-> kind, config |-> current]
  /\ UNCHANGED <<outcome, turns, calls, rec, overdue>>

\* run_benchmark from there on.
EndTrial(kind, err, result) ==
  /\ loop = "benchmark"
  /\ loop' = "turn" /\ current' = NoConfig
  /\ spent' = spent + 1
  /\ trials' = Append(trials, [config |-> current, err |-> err, result |-> result,
                               reused |-> FALSE])
  /\ answer' = [kind |-> kind, config |-> current]
  /\ UNCHANGED <<outcome, turns, calls, rec, overdue>>

TrialDone(result) == ~overdue /\ EndTrial("result", FALSE, result)

TrialFails == EndTrial("failed", TRUE, NoResult)

\* Mutant: the measurement of a failed or useless trial is attached as well.
AttachedAny(config) ==
  IF SameSpec(config) # {} THEN findTrial(config).result ELSE NoResult

\* The measurement callRecommend attaches.
Attached(config) ==
  IF SameSpec(config) # {} /\ OK(findTrial(config)) THEN findTrial(config).result ELSE NoResult

\* recommend: any configuration; calls that follow in the same response are still run.
Recommend(config) ==
  /\ Call("done", config)
  /\ rec' = [config |-> config, fallback |-> FALSE, measured |-> Attached(config)]
  /\ UNCHANGED <<loop, outcome, turns, spent, trials, current, overdue>>

-----------------------------------------------------------------------------
StopReason == {"tool_use", "other"}

ToolCall ==
  \/ Lookup
  \/ \E config \in Config :
       Refuse(config) \/ Reuse(config) \/ StartTrial(config) \/ Recommend(config)

TurnStep ==
  \/ PlannerReplies \/ PlannerFails \/ TurnsUsedUp \/ Conclude \/ Deadline
  \/ ToolCall
  \/ \E stop \in StopReason : EndTurn(stop)

\* On its own, the loop runs on a platform whose benchmarks end any way they can.
AgentInit == NewAgent("planner")

AgentNext ==
  \/ TurnStep
  \/ TrialFails
  \/ \E result \in Result : TrialDone(result)

AgentSpec == AgentInit /\ [][AgentNext]_agentVars

\* The planner's call returns, responses are finite, and RunBenchmark returns, if only
\* because of its timeout.
AgentFairSpec == AgentSpec /\ WF_agentVars(AgentNext)

-----------------------------------------------------------------------------
(* What the loop guarantees.                                               *)

\* The trials that were run, as opposed to answered from an earlier one.
Ran == {i \in DOMAIN trials : ~trials[i].reused}

\* "Budgets are hard": spend.trials counts exactly the trials that were run, failed ones
\* included, and stays within the cap with the one in flight counted in.
SpendCountsTrials ==
  /\ spent = Cardinality(Ran)
  /\ spent + (IF loop = "benchmark" THEN 1 ELSE 0) <= MaxTrials

\* No configuration is benchmarked twice in a campaign, not even one that failed, and
\* the one in flight is new.
NoConfigRunTwice ==
  /\ \A i, k \in Ran : trials[i].config = trials[k].config => i = k
  /\ loop = "benchmark" => SameSpec(current) = {}

\* The figures attached to the planner's recommendation are those of a successful trial of
\* the very configuration it recommends, not what the planner says.
MeasurementsComeFromTrials ==
  rec # NoRec /\ ~rec.fallback /\ rec.measured # NoResult =>
    \E i \in Ran :
      OK(trials[i]) /\ trials[i].config = rec.config /\ trials[i].result = rec.measured

\* The mechanical fallback of concludeFromTrials is an error-free trial, none is
\* cheaper, and it is only used when the planner gave no answer.
FallbackIsCheapest ==
  rec.fallback =>
    /\ \E i \in DOMAIN trials :
         Eligible(trials[i]) /\ trials[i].config = rec.config /\ trials[i].result = rec.measured
    /\ \A i \in DOMAIN trials : Eligible(trials[i]) => rec.measured.cost <= trials[i].result.cost
    /\ answer.kind # "done"

\* Run returns success exactly when it has a recommendation to report.
SuccessHasRecommendation == loop = "returned" => (outcome = "ok" <=> rec # NoRec)

\* Run returns, whatever the planner does.
LoopTerminates == <>(loop = "returned")

-----------------------------------------------------------------------------
(* The inductive invariants behind the theorems of CampaignsProofs.        *)

\* A reused trial repeats one that was run.
CopiesHaveOriginals ==
  \A i \in DOMAIN trials :
    \E k \in Ran : /\ trials[k].config = trials[i].config
                   /\ trials[k].err = trials[i].err /\ trials[k].result = trials[i].result

\* Run goes on only while there is no recommendation, and benchmarks a configuration.
LoopState ==
  /\ loop \in {"planner", "conclude"} => rec = NoRec
  /\ loop = "benchmark" => current \in Config

AgentInv ==
  /\ AgentTypeOK
  /\ LoopState
  /\ CopiesHaveOriginals
  /\ SpendCountsTrials
  /\ NoConfigRunTwice
  /\ MeasurementsComeFromTrials
  /\ SuccessHasRecommendation

\* The fallback is the last thing Run does, and the answer "done" comes with a recommendation.
FallbackInv ==
  /\ FallbackIsCheapest
  /\ rec.fallback => loop = "returned"
  /\ answer.kind = "done" => rec # NoRec
=============================================================================
