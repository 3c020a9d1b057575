----------------------------- MODULE Campaigns -----------------------------
(***************************************************************************)
(* A campaign from POST /v1/campaigns to its final row: the gateway        *)
(* handlers, the statements of internal/campaigns/store.go, Worker.Work    *)
(* for every delivery of the River job, the agent loop of module AgentLoop *)
(* and the Platform that runs its benchmarks as ordinary jobs.             *)
(*                                                                         *)
(* Deliveries of the River job may overlap: nothing but the claim          *)
(* (MarkRunning) keeps a second agent loop from starting.  The agent       *)
(* variables belong to the delivery that is inside Run.                    *)
(***************************************************************************)
EXTENDS AgentLoop

CONSTANTS
  Delivery,      \* deliveries of the River job: retries, rescues, duplicates
  ValidConfig,   \* configurations ValidateEngines and ValidateEngineConfig accept
  Faults         \* the faults the environment may inject

\* db:    a SQL statement fails, before or after its commit
\* crash: the orchestrator dies in the middle of a delivery, or shuts down, which
\*        leaves Work with a dead context
FaultKinds == {"db", "crash"}

ASSUME CampaignAssumption ==
  /\ ValidConfig \subseteq Config
  /\ Faults \subseteq FaultKinds

VARIABLES
  row,        \* state of the row in public.campaigns, "none" before Create
  report,     \* the report the row holds: recommendation and trials, if any
  create,     \* progress of the CreateCampaign request
  work,       \* work[d]: where delivery d is inside Worker.Work
  loops,      \* the deliveries that have started an agent loop (history)
  bench,      \* where Platform.RunBenchmark is
  jobs        \* benchmark jobs the campaign has saved (history)

storeVars == <<row, report>>
campaignVars == <<row, report, create, work, loops, bench, jobs>>
vars == <<campaignVars, agentVars>>

NoReport == [rec |-> NoRec, trials |-> << >>]

WorkPC == {"idle", "claim", "loop", "done"}

TypeOK ==
  /\ AgentTypeOK
  /\ row \in {"none", "pending", "running", "completed", "failed", "cancelled"}
  /\ report \in [rec : Recommendation \cup {NoRec}, trials : Seq(Trial)]
  /\ create \in {"none", "saved", "enqueued", "unqueued", "done"}
  /\ work \in [Delivery -> WorkPC]
  /\ loops \subseteq Delivery
  /\ bench \in {"none", "checked", "saved", "waiting"}
  /\ jobs \in 0..MaxTrials

Init ==
  /\ NewAgent("off")
  /\ row = "none"
  /\ report = NoReport
  /\ create = "none"
  /\ work = [d \in Delivery |-> "idle"]
  /\ loops = {}
  /\ bench = "none"
  /\ jobs = 0

Fault(f) == f \in Faults

-----------------------------------------------------------------------------
(* The statements of Store, each one atomic.                               *)

\* Mutant: MarkRunning claims every row that is not terminal.
MarkRunningNotTerminal ==
  /\ row \in {"pending", "running"}
  /\ row' = "running"

\* MarkRunning: the conditional UPDATE, when it affects the row.
MarkRunning ==
  /\ row = "pending"
  /\ row' = "running"

\* Mutant: Complete and Fail overwrite the state.
FinalOverwriting(state) == state

\* The CASE expression of Complete and Fail.
Final(state) == IF row = "cancelled" THEN "cancelled" ELSE state

\* Mutant: Complete only stores the report of a campaign that was not cancelled.
CompleteUnlessCancelled ==
  /\ row' = Final("completed")
  /\ report' = IF row = "cancelled" THEN report ELSE [rec |-> rec, trials |-> trials]

\* Complete: the recommendation and the trials of the report Run returned.
Complete ==
  /\ row' = Final("completed")
  /\ report' = [rec |-> rec, trials |-> trials]

\* Fail: the trials only.
Fail ==
  /\ row' = Final("failed")
  /\ report' = [report EXCEPT !.trials = trials]

\* Cancel: the conditional UPDATE.
Cancel == row' = IF row \in {"pending", "running"} THEN "cancelled" ELSE row

-----------------------------------------------------------------------------
(* Gateway                                                                 *)

\* CreateCampaign, its INSERT.
CreateCampaign ==
  /\ create = "none"
  /\ create' = "saved" /\ row' = "pending"
  /\ UNCHANGED <<report, work, loops, bench, jobs, agentVars>>

\* CreateCampaign, its River insert.
EnqueueCampaign ==
  /\ create = "saved"
  /\ \/ create' = "enqueued"
     \/ Fault("db") /\ create' = "unqueued"
  /\ UNCHANGED <<row, report, work, loops, bench, jobs, agentVars>>

\* CreateCampaign cancels the row it could not enqueue; an error of that is ignored.
CancelUnqueued ==
  /\ create = "unqueued"
  /\ create' = "done"
  /\ Cancel \/ (Fault("db") /\ UNCHANGED row)
  /\ UNCHANGED <<report, work, loops, bench, jobs, agentVars>>

\* CancelCampaign
CancelCampaign ==
  /\ row \in {"pending", "running"}
  /\ Cancel
  /\ UNCHANGED <<report, create, work, loops, bench, jobs, agentVars>>

-----------------------------------------------------------------------------
(* Worker.Work                                                             *)

Goto(d, label) == work' = [work EXCEPT ![d] = label]

\* River delivers the job, and Work loads the row.  (It exists: it is saved before the
\* job is enqueued and never deleted.)
Deliver(d) ==
  /\ create = "enqueued"
  /\ work[d] = "idle"
  /\ Goto(d, "claim") \/ (Fault("db") /\ Goto(d, "done"))
  /\ UNCHANGED <<row, report, create, loops, bench, jobs, agentVars>>

\* Work claims the row and enters Run.  (A factory that fails has the effect of a Run
\* that fails on its first turn.)
Claim(d) ==
  /\ work[d] = "claim"
  /\ MarkRunning
  /\ Goto(d, "loop")
  /\ loops' = loops \cup {d}
  /\ EnterRun
  /\ bench' = "none"
  /\ UNCHANGED <<report, create, jobs>>

\* The claim is refused, or its statement fails.
ClaimFails(d) ==
  /\ work[d] = "claim"
  /\ \/ row # "pending" /\ UNCHANGED row
     \/ Fault("db") /\ (MarkRunning \/ UNCHANGED row)
  /\ Goto(d, "done")
  /\ UNCHANGED <<report, create, loops, bench, jobs, agentVars>>

\* Mutant: a failed run is left to River, which does not retry it.
RecordSuccessOnly(d) ==
  /\ work[d] = "loop" /\ loop = "returned"
  /\ \/ outcome = "ok" /\ Complete
     \/ outcome = "error" /\ UNCHANGED <<row, report>>
  /\ Goto(d, "done")
  /\ UNCHANGED <<create, loops, bench, jobs, agentVars>>

\* Run has returned and Work records the outcome.
Record(d) ==
  /\ work[d] = "loop" /\ loop = "returned"
  /\ \/ outcome = "ok" /\ Complete
     \/ outcome = "error" /\ Fail
     \/ Fault("db") /\ UNCHANGED <<row, report>>
  /\ Goto(d, "done")
  /\ UNCHANGED <<create, loops, bench, jobs, agentVars>>

\* The process of delivery d dies, or its context does.
Crash(d) ==
  /\ Fault("crash")
  /\ work[d] \in {"claim", "loop"}
  /\ Goto(d, "done")
  /\ loop' = IF work[d] = "loop" THEN "off" ELSE loop
  /\ bench' = IF work[d] = "loop" THEN "none" ELSE bench
  /\ UNCHANGED <<row, report, create, loops, jobs,
                 outcome, turns, calls, spent, trials, current, rec, answer, overdue>>

-----------------------------------------------------------------------------
(* Run, and Platform.RunBenchmark for its trials.                          *)

Running == \E d \in Delivery : work[d] = "loop"

AgentStep ==
  /\ Running
  /\ TurnStep
  /\ UNCHANGED campaignVars

\* A failed trial: RunBenchmark returned an error of this kind.
BenchmarkFails(kind) ==
  /\ EndTrial(kind, TRUE, NoResult)
  /\ bench' = "none"
  /\ UNCHANGED <<row, report, create, work, loops, jobs>>

\* checkCancelled on a cancelled campaign.  callRunBenchmark hands the error to the
\* planner like any other.
NoticeCancelled ==
  /\ Running /\ loop = "benchmark" /\ bench = "none"
  /\ row = "cancelled" /\ ~overdue
  /\ BenchmarkFails("cancelled")

\* Mutant: the campaign's state is not checked before a trial.
PassChecksUncancelled ==
  /\ Running /\ loop = "benchmark" /\ bench = "none"
  /\ current \in ValidConfig
  /\ bench' = "checked"
  /\ UNCHANGED <<row, report, create, work, loops, jobs, agentVars>>

\* checkCancelled on a live campaign or with a failing read, then the validation.
PassChecks ==
  /\ Running /\ loop = "benchmark" /\ bench = "none"
  /\ row # "cancelled" \/ overdue \/ Fault("db")
  /\ current \in ValidConfig
  /\ bench' = "checked"
  /\ UNCHANGED <<row, report, create, work, loops, jobs, agentVars>>

FailValidation ==
  /\ Running /\ loop = "benchmark" /\ bench = "none"
  /\ row # "cancelled" \/ overdue \/ Fault("db")
  /\ current \notin ValidConfig
  /\ BenchmarkFails("failed")

SaveTrialJob ==
  /\ Running /\ loop = "benchmark" /\ bench = "checked" /\ ~overdue
  /\ bench' = "saved" /\ jobs' = jobs + 1
  /\ UNCHANGED <<row, report, create, work, loops, agentVars>>

EnqueueTrialJob ==
  /\ Running /\ loop = "benchmark" /\ bench = "saved" /\ ~overdue
  /\ bench' = "waiting"
  /\ UNCHANGED <<row, report, create, work, loops, jobs, agentVars>>

\* A statement of RunBenchmark fails, because of the database or the dead context; or
\* the job ends badly, without a result, or not within the hour.  (A statement that commits and
\* still reports an error is SaveTrialJob, or EnqueueTrialJob, and then this step.)
RunBenchmarkFails ==
  /\ Running /\ loop = "benchmark"
  /\ \/ bench \in {"checked", "saved"} /\ (overdue \/ Fault("db"))
     \/ bench = "waiting"
  /\ BenchmarkFails("failed")

\* waitForJob saw "completed" and QueryByJob found the engine's result.
RunBenchmarkReturns(result) ==
  /\ Running /\ bench = "waiting"
  /\ TrialDone(result)
  /\ bench' = "none"
  /\ UNCHANGED <<row, report, create, work, loops, jobs>>

-----------------------------------------------------------------------------
BenchmarkStep ==
  \/ NoticeCancelled \/ PassChecks \/ FailValidation
  \/ SaveTrialJob \/ EnqueueTrialJob \/ RunBenchmarkFails
  \/ \E result \in Result : RunBenchmarkReturns(result)

WorkStep(d) == Deliver(d) \/ Claim(d) \/ ClaimFails(d) \/ Record(d) \/ Crash(d)

GatewayStep == CreateCampaign \/ EnqueueCampaign \/ CancelUnqueued \/ CancelCampaign

Next ==
  \/ GatewayStep
  \/ \E d \in Delivery : WorkStep(d)
  \/ AgentStep
  \/ BenchmarkStep

Spec == Init /\ [][Next]_vars

\* River delivers, Work goes on, the planner's calls return, responses are finite and
\* benchmarks end, if only because of their timeout.  Users owe nothing.
Fairness ==
  /\ WF_vars(EnqueueCampaign) /\ WF_vars(CancelUnqueued)
  /\ WF_vars(\E d \in Delivery : Deliver(d) \/ Claim(d) \/ ClaimFails(d) \/ Record(d))
  /\ WF_vars(AgentStep \/ BenchmarkStep)

FairSpec == Spec /\ Fairness

-----------------------------------------------------------------------------
(* What the campaign service guarantees.                                   *)

\* "River retries cannot double-run one": whatever deliveries overlap, crash or repeat,
\* one agent loop is started for a campaign, because of the claim.
AtMostOneLoop == \A d, e \in loops : d = e

Lifecycle == INSTANCE CampaignLifecycle WITH state <- row

\* A client sees the lifecycle of CampaignLifecycle and nothing else, although Complete
\* and Fail write without a condition: a campaign that has ended stays as it ended.
RefinesLifecycle == Lifecycle!Spec

\* A completed campaign has a recommendation in its row.
CompletedHasReport == row = "completed" => report.rec # NoRec

\* "Keeping whatever partial work was done": once the delivery that ran the loop is over,
\* the row has all its trials, also if the campaign was cancelled or failed; only a failed
\* statement or a crash loses them.
WorkIsRecorded ==
  Faults = {} =>
    \A d \in loops : work[d] = "done" => report.trials = trials /\ Lifecycle!IsTerminal(row)

\* The campaign is cancelled, and no check that came before the cancellation is pending.
CancelInEffect == row = "cancelled" /\ (bench # "checked" \/ overdue)

\* A cancelled campaign submits no further benchmark, except the one whose check had
\* already passed; checkCancelled lets a trial through when it cannot read the row.
CancelStopsSubmission ==
  [][Faults = {} /\ CancelInEffect => CancelInEffect' /\ jobs' = jobs]_vars

\* The jobs a campaign submits are covered by its trial budget: each is a trial that is
\* accounted for or in flight, and a crash does not lead to more of them.
JobsAreBudgeted ==
  /\ jobs <= MaxTrials
  /\ Running => jobs <= spent + (IF loop = "benchmark" /\ bench \in {"saved", "waiting"}
                                 THEN 1 ELSE 0)

\* An accepted campaign ends, in the absence of crashes and failing statements.
CampaignEnds == row = "pending" ~> Lifecycle!IsTerminal(row)

-----------------------------------------------------------------------------
(* The inductive invariant behind the theorems of CampaignsProofs.          *)

\* The claim is what starts a loop: a row with a loop is past "pending", and only the
\* delivery inside Run can end it.
ClaimedOnce ==
  /\ AtMostOneLoop
  /\ create = "none" => row = "none"
  /\ loops # {} => row \notin {"none", "pending"}
  /\ \A d \in loops : work[d] \in {"loop", "done"}
  /\ \A d \in Delivery : work[d] = "loop" => d \in loops /\ row \in {"running", "cancelled"}

CampaignInv ==
  /\ TypeOK
  /\ AgentInv
  /\ ClaimedOnce
  /\ CompletedHasReport
  /\ loops = {} => jobs = 0
  /\ JobsAreBudgeted
  /\ WorkIsRecorded

=============================================================================
