# A TLA+ model of inferbolt

inferbolt benchmarks LLM inference engines on GPU workers and can let a planner
(a language model) search for a good configuration. This directory models the parts
of it where several processes share state: the life of a benchmark job, the agent
loop, the campaign service around it and the feed a client follows; drift detection,
the Kubernetes operator, the router, the gateway's authentication and rate limit, and
the commands that bring a local stack up. TLC checks the models on small instances;
TLAPS proves their safety properties for every instance.

Paths below are relative to the repository root. `PROJECT.json` maps each definition
to its source lines and lists the runs, mutants, hazards and theorems.

## 1. Inventory

| Component | State it keeps | Operations | Talks to |
|---|---|---|---|
| gateway (`internal/gateway`) | none; rows in `public.jobs`, `public.campaigns` | CreateJob, CancelJob, CreateCampaign, CancelCampaign, GetCampaignEvents, reads | Postgres, River |
| River queues (`internal/queue`) | `river_job` | Enqueue, EnqueueCampaign; retry, discard, rescue | calls `Work` |
| benchmark pipeline (`internal/jobs/worker.go`) | the row, the held worker | Work: running, select, dispatch, collecting, poll | registry, Python worker, Postgres |
| worker registry (`internal/workers`) | id → status, job, last seen | Register, Heartbeat, MarkBusy, MarkIdle, SelectWorker, EvictStale | in memory, one mutex |
| orchestrator HTTP (`cmd/orchestrator`) | none | `/internal/results`, `/internal/workers/*` | Postgres, registry |
| Python worker (`worker/main.py`) | `_runs` | register, run, status, background task | orchestrator |
| agent loop (`internal/agent`) | turns, spend, trials, recommendation | Run, the five tools | planner API, Platform |
| campaign service (`internal/campaigns`) | row, report, events | claim, complete, fail, cancel, RunBenchmark | Postgres, River, agent |
| follower (`cmd/inferbolt/campaigns.go`) | cursor | followCampaign | gateway |
| drift (`internal/drift`, `cmd/collector`) | baselines, alert channel | runCheck, dispatcher and webhook, reset, shutdown | Postgres, webhook |
| router (`internal/router`, `cmd/router`) | selection cache | classify, fetch workers, select | orchestrator's registry |
| request gate (`internal/auth`) | claims cache, counters per tenant and minute | Verify, rate limit, scopes, Issue | Postgres for new keys |
| operator (`cmd/operator`) | status of a custom resource | Reconcile | Kubernetes API, orchestrator |
| dev key (`cmd/gateway`) | token file, `api_keys` | bootstrapDevKey | Postgres, file system |
| CLI (`internal/cli`, `cmd/inferbolt`) | config file, child process | ensureStack, run, agent | gateway, orchestrator, docker |

What is hard here:

* *Concurrency.* The row of a job is written by three parties without a transaction
  and, except for the campaign's statements, without a condition on the old state.
  SelectWorker and MarkBusy are two critical sections.
* *Failure.* River retries attempts; the orchestrator loses its registry and its
  attempts in a crash but not its rows; a Python worker loses its runs; a result is
  posted once; statements fail before or after their commit.
* *Stale copies.* The operator computes a status from an informer's cache; the router
  answers from a list fetched earlier or from its own cache; the gateway accepts claims
  it verified minutes ago; a command uses a key it saved weeks ago.
* *Time.* Eviction of silent workers, the 45 minute poll limit, the wall clock of a
  campaign, the minute of a rate limit read twice, keys that expire, deadlines of loops.
* *An unreliable planner.* It may call any tool in any order, repeat itself, stop
  without an answer.

What makes each part correct: jobs are not benchmarked twice, finished jobs stay
finished, workers are not leaked, completed jobs have results; budgets hold, figures
are measured; one loop per campaign, cancellations survive, work is recorded; clients
see every event once and in order; everything that was accepted ends. Alerts are about
something measured and drift goes on being reported; a resource shows only legal phases
and no edit is lost; a request gets a worker of its profile; a limit is a limit and an
expired key fades; a command ends and leaves nothing running behind.

## 2. Modules

| Module | Models |
|---|---|
| `JobStates` | `internal/jobs/state.go`: states, `validTransitions`, `IsTerminal` |
| `WorkerRegistry` | `internal/workers/registry.go`, one operator per method |
| `JobPipeline` | CreateJob, CancelJob, River, `BenchmarkWorker.Work`, `/internal/results`, the Python processes |
| `MCJobPipeline` | instances of it for TLC |
| `JobPipelineProofs` | its theorems |
| `AgentLoop` | `internal/agent`: `Run`, `dispatchTool`, budget, `findTrial`, `bestTrial` |
| `CampaignLifecycle` | abstract specification: what a client may see of a campaign's state |
| `Campaigns` | extends `AgentLoop`: gateway, store, `Worker.Work`, `Platform.RunBenchmark` |
| `CampaignsProofs` | the theorems of `AgentLoop` and `Campaigns`, and that the latter implements `CampaignLifecycle` |
| `CampaignFeed` | events, `GetCampaignEvents`, `followCampaign`; the row moves as `CampaignLifecycle` says |
| `CampaignFeedProofs` | its theorems |
| `DriftStats` | `internal/drift`: median, percentiles, `ComputeFromResults`, `checkMetric` as functions |
| `Drift`, `MCDrift` | detector, baseline store, alert channel, dispatcher and webhook, shutdown of the collector |
| `DriftProofs` | the theorems of `DriftStats` and `Drift` |
| `InferencePhases` | abstract specification: what a user may see of a resource's phase and benchmark job |
| `Operator` | Reconcile, the API server's versions, informer caches, resync, restart |
| `OperatorProofs` | its theorems, and that it implements `InferencePhases` |
| `RequestGate`, `MCRequestGate` | `internal/auth`: Verify and its cache, rate limit, scopes, issue of keys |
| `RequestGateProofs` | its theorems |
| `Router`, `MCRouter` | extends `WorkerRegistry`: classifier, fetch of the worker list, selector and its cache |
| `RouterProofs` | its theorems |
| `LocalRun`, `MCLocalRun` | `ensureStack`, `run`, `agent`, the child process, the gateway's dev key |
| `LocalRunProofs` | its theorems |

### JobPipeline

One step is one SQL statement, one HTTP exchange or one critical section, so every
order of them is explored. `updateJobState` is two steps, `Read…` (SELECT and
`ValidTransition`) and `Write…` (the UPDATE, which does not repeat the check);
`pc[j]` says between which steps an attempt is. CancelJob is two steps as well. The
results handler is `ResultsWrite` (the measurement, an error ends it) and
`ResultsComplete` (row and recommendation, errors only logged).

`run[j][a]` is the entry of `_runs` that attempt `a` created. Run ids are never reused,
so this loses nothing. A process is `new`, `starting` (registered, not yet serving, as
`lifespan` orders it), `up` or `dead`; a restarted worker is a fresh id at the same
`URL`, as `WORKER_ID` is drawn anew. `Heartbeating` is FALSE for the workers of this
repository, which do not send any; TRUE shows what the registry does if they did.

`Faults` selects what may go wrong: failing SQL (before or after the commit), a lost dispatch or
its answer, an answer that is not a run, a lost or late post, a raising engine, a dying worker, a
crashing orchestrator.

Abstracted: engines are numbered in the order of the job's list; `LastSeen` is the set
of workers that are stale at a tick, and any set may be; the data of a result. `POST /run`
ends in one of three ways, as the code checks no status: `Dispatch` (the answer has a run
id), `DispatchFails` (no answer, or one that does not decode) and `DispatchMisread` (one
that decodes and names no run, such as a 422: the job goes on to collect a run nobody has).

### AgentLoop

The planner's answer is a free choice of tool calls (at most `MaxCalls` per response)
and a stop reason. `StartTrial`/`EndTrial` are the two halves of `callRunBenchmark`
around the benchmark. A configuration stands for a `TrialSpec`, since model, GPU profile
and workload are fixed in a campaign; a result is its cost and whether its error rate is
0, which is all the loop looks at. `compute_result` gives cost 0 exactly when
throughput is 0, so `OK` is `cost > 0`. `overdue` is the dead context after
`MaxDuration`.

### Campaigns

`EXTENDS AgentLoop` and puts it inside deliveries of the River job, which may overlap
(retry, rescue, duplicate). The statements of `store.go` are atomic; `MarkRunning` and
`Cancel` carry their WHERE clause, `Final` is the CASE of Complete and Fail. The steps
of `RunBenchmark` (check, validate, save, enqueue, wait) are separate, since a
cancellation may come between any two. The job's fate is left open here: it may end in
every way `JobPipeline` allows. A statement that commits and reports an error all the same is
two steps here: `SaveTrialJob` or `EnqueueTrialJob`, then `RunBenchmarkFails`.

### CampaignFeed

The row is read in one step and the events in a second, as the handler does. Events are
their sequence numbers.

### Drift

A pair is an engine and a model. The results of a pair within the lookback are counts
per level of quality, since order does not matter to the statistics; rationals are kept
as numerator and denominator. A check reads the results, the baseline and, if there is
none, upserts one, each a statement that may fail; other users insert results, let them
leave the lookback and reset baselines in between. The alert channel has a capacity and
the detector's send drops when it is full. The dispatcher takes an alert and calls the
webhook, which succeeds, fails or times out. Severity and direction of a metric are those
of `checkMetric`.

### Operator

The object in the API server has a version; a write from an older one conflicts, a write
that changes nothing makes no event. `cache` and `dcache` are the informers' copies and
lag behind. `mem` is the copy a reconciliation holds; `pc` says which call it is at, and
every call of the code is a step that may fail. As the resource has a status subresource,
`Update` writes the spec only, `Status().Update` the status only, and each puts the
server's answer over the copy in memory. `again` tells a requeue from a return without.

The server behind `ORCHESTRATOR_URL` is left open: it answers a submission with an id, with a
body that has none (`job = 0`) or with a refusal, and the question after a job with any state.
The repository's own servers only ever refuse: the orchestrator serves no `/v1/jobs`
(`cmd/orchestrator/main.go:107-187`), and the gateway wants a token, answers 202 and says
`job_id` (`internal/gateway/handlers.go:183`), where the operator takes 200 or 201 and `id`.
The phases of `InferencePhases` beyond Pending, Failed and Running of a plain resource are
therefore reached with another server only; nothing that is checked assumes one, and
`NoResourceStaysPending` covers the one that refuses.

### RequestGate

A request is at one of the steps of the middleware chain; the two readings of the clock in the
rate limiter are two steps, and `KeyManager.Verify` is three: the lookup in the cache, the parse,
which compares the expiry with the clock, and the store, which counts the TTL from a later reading
of it. `lag` is the longest time that has passed between the last two. A lookup may miss what was
stored, as ristretto may drop it. `passed` counts the requests by the minute the clock shows when
they are let through, which need not be the minute they are counted in.

### Router

The registry moves by its own operators. A handler classifies, fetches the idle workers,
and selects: the lookup in the cache is one step and what a miss leads to, with the store,
another. The selection cache is keyed by tenant and profile, its entries age in ticks, and a
lookup may miss what is there. The engine of a worker is what `inferEngineFromWorker` takes from its id.

### LocalRun

One command after another in a slot, next to a gateway that starts, stops and dies. A
deadline is a flag that is FALSE when a loop is entered and becomes TRUE at some time. The
channel of `startManagedProcess` is in `proc`: the process is alive, is dead with a child of
its own holding the output pipe (`held`, as Python may under `uv run`), has exited, its exit
is in the channel (`sent`) or was received (`taken`). What the orchestrator says about
idle workers and the gateway about the job is a free choice at every request. `PollJob` has a
deadline, `followCampaign` has none: its only way out is the page that says done.

A token is accepted until its `exp`: `Verify` does not look at `api_keys`, and
`devKeyStillValid` looks at nothing but the row. Its `expires_at` is computed after `exp`, so a
token in `expired` but not in `lapsed` is one the bootstrap keeps and a request refuses.
`Token` are the tokens of one `JWT_SECRET`. A command may have an `--api-key`, which replaces
the key it read but does not spare it the wait for the token file.

## 3. Runs

| Run | Instance | Distinct states | Shows |
|---|---|---|---|
| `pipeline_races` | 2 jobs of 2 engines, 1 worker, 2 attempts, lost and misread dispatches | 949 135 | types, no leaked worker, one run per job, a completed run has all its results stored, early cancellations stick |
| `pipeline_faults` | 1 job, 2 processes at one address, 2 attempts, every fault | 305 132 | completed jobs have results, finished jobs stay finished |
| `pipeline_live` | 1 job, 3 attempts, 2 processes, heartbeats, engine faults, restarts, crashes | 88 742 | River finalizes every job |
| `agent_loop` | 3 allowed configurations and a foreign one, 2 trials, 2 turns, 3 calls | 423 658 | budget, no repetition, figures are measured, fallback is the cheapest, Run returns |
| `campaigns` | 3 configurations of which 2 valid, 2 deliveries, no faults | 455 680 | work is recorded, cancellation stops submission, an accepted campaign ends |
| `campaigns_faults` | the same with failing SQL and crashes | 942 762 | one loop, budgeted jobs, refinement of `CampaignLifecycle` |
| `campaign_feed` | pages of 2, up to 5 events | 1 114 | events in order and complete; the follower ends |
| `drift` | 2 pairs, windows of 2 results, a channel of 1, failing SQL | 97 840 | statistics against their definition for up to 12 results; alerts have a witness, baselines stick, the detector never blocks, drift keeps being reported |
| `operator` | 2 edits, 2 answered submissions, 1 restart, failing HTTP and API calls | 88 292 | refinement of `InferencePhases`, no edit lost, Running is what was asked for, no resource stays Pending |
| `request_gate` | 2 requests, 2 tenants, minutes of 2 ticks, limit 1 | 620 915 | the limit under concurrency, expired tokens fade, retry_after suffices |
| `router` | 1 request, 3 workers of 2 profiles, TTL 2 | 598 768 | answers fit the profile, fallback is the last resort, a worker that is gone is forgotten |
| `local_run` | 1 slot for commands, 2 tokens, `run` with and without `--api-key`, `agent`, `agent --detach --keep-worker` | 557 648 | no process outlives its command, commands end but in the two places named, the bootstrapped key works |

*Bounds.* Two jobs are what it takes to race for a worker, two attempts for a retry
(three where the last one must be discarded); two processes for a worker that is replaced
at its address. Three configurations against two trials make the budget bite, and two
trials give the fallback a choice. Two deliveries overlap. Five events are two full pages
and a short one. The `MaxCalls` and `MaxEvents` bounds have no counterpart in the code;
the proofs hold for every value. `JobSymmetry` and `WorkerSymmetry` are only used in runs
without liveness, and the constants are the same for all jobs and workers there.

In `drift` two results mix good and bad, a channel of one is full at the second alert, and 12
results have a 95th percentile between two of them. In `operator` two edits surround one write,
and two jobs are an orphan and its successor. In `request_gate` the clock covers two minutes, so
that a request can be counted in one and pass in the next; a token lives a tick and its claims
two, so that one can be parsed, expire, be stored and be hit again. Two requests do not exhaust
the bound `Limit + |Request|` there: two pass in a minute, three would be allowed. `router` has
one request slot, as with two the instance is too large. Handlers share nothing but the cache, and
between the fetch and the selection of one request the registry may go anywhere. `AnswerIsRight`
is proved for any number of slots; `GoneWorkerIsForgotten` is not, and two misses that overlap
could keep a worker that is gone for a TTL longer, though not for ever, as each stores once. In
`local_run` two tokens are one that has expired and its replacement; a second concurrent command
would share only the config file and the gateway with the first, both of which any sequence of
commands changes. `Tick`, `MaxTime`, `MaxEdits`, `MaxJobs` and `MaxRestarts` are bounds of the
models.

*Deadlock* is checked in the pipeline runs, where the eviction tick never stops, and in
`operator`, `request_gate`, `router` and `local_run`. A campaign, an agent loop, a follower
and a collector that was stopped end, so their configurations switch it off.

*Fairness.* Weak fairness for what a running process does by itself: goroutines, River's
producer and rescuer, the event loop of a worker that serves. The end of a poll rests on
its 45 minute timer, not on the benchmark; nothing is assumed of users, faults and the
eviction tick. In `CampaignFeed`, requests that are repeated for ever do not fail for
ever (strong fairness of the two reads). `Drift` assumes the ticker, the goroutines and the
HTTP client's timeout, and that statements tried for ever do not fail for ever. `Operator`
assumes that watches and resyncs come, that every call ends, and that status updates made for
ever from the current version do not fail for ever; nothing is assumed of users and of the
server behind `ORCHESTRATOR_URL`. In `Router` time
passes and handlers run. In `LocalRun` a command takes its steps, but an answer that a loop
waits for is never guaranteed: only its deadline is. `followCampaign` has none, so nothing is
assumed of a command that follows, nor that a held pipe is ever closed; `CommandsEnd` names
both as the places where a command may stay.

### Disagreements between documentation and code

The models have what the code does. Where a document or a comment says otherwise, the
property it would be does not hold of the model:

* README.md:211 says that results "land in TimescaleDB and the job is marked complete". A
  result that arrives between the read and the write of `updateJobState`
  (`internal/jobs/worker.go:112`) is overwritten, and nothing writes `completed` again: the
  run is done, its results are stored, the job says `collecting` for ever. And a job of
  several engines is marked complete at the first result.
* README.md:213 says that a job without an idle worker fails. River discards it, its row
  stays `running`.
* README.md:213 says that workers heartbeat. They register once, are put offline after 30
  seconds and stay there until a job that held them releases them. With
  `Heartbeating = TRUE` the model has the workers the document describes.
* `internal/campaigns/platform.go:16` says that `ErrCampaignCancelled` stops a run. It is
  handed to the planner as a tool result and the loop goes on until its budget is spent.
* `k8s/crds/optimized_inference_types.go:33` says that the phase "moves through Pending,
  Benchmarking, Deploying, Ready and Failed". Reconcile writes Optimizing and Running where the
  comment has Benchmarking and Ready, and `InferencePhases` has the names of the code: a client
  that waits for `Ready` waits for ever.
* `k8s/crds/optimized_inference_types.go:10` says that with AutoOptimize "the controller benchmarks
  before deploying", and the chart (`k8s/helm/templates/operator-deployment.yaml:22`) points it at
  a server. None of the repository's accepts its submission (section 2, Operator): the resource
  becomes Failed and is submitted again, for ever.
* The same line, for a server that accepts: after a completed benchmark `Update` puts the stored
  status over the `Deploying` set in memory, which is then never saved: an optimised resource
  stays `Optimizing` and is not deployed.
* README.md:225 says that "re-requesting a configuration already measured in the campaign returns
  the earlier result without spending a trial". With the budget spent `callRunBenchmark` refuses
  before it looks for the earlier trial. README.md:229 says that a failed trial is handed back
  "as an error"; asked for again it comes back as a success with zero figures.
* README.md:225 says that "if the planner ends without concluding, the campaign still reports the
  cheapest error-free trial". An error of the planner and the wall clock end Run without it.
* `cmd/inferbolt/campaigns.go:106` says that `campaigns follow` "replays everything that has
  happened so far, then follows until the campaign finishes". When the page that says done is full
  it stops there and leaves out the rest.
* `cmd/inferbolt/main.go:296` says that `run` does "stop a worker it spawned itself". What it
  kills is the process it started: if that was `uv run`, a Python child that holds the output
  lives on, and the command waits for it (`held` in `LocalRun`).
* `internal/jobs/state.go:75` says that `validTransitions` "defines the allowed state machine
  edges". `updateJobState` can write another, as its check and its write are two statements, and
  CancelJob and the results handler overwrite whatever is there.
* `internal/auth/middleware.go:96` says that minute-keyed buckets have a natural TTL. No
  bucket is ever removed.
* `cmd/inferbolt/agent.go:136` says that Ctrl-C detaches the follower. No signal is handled,
  so Ctrl-C ends the process without its deferred cleanup.

Others, which no sentence of the repository denies: CancelJob overwrites a job that completed
after its check; the router's cache answers a workload with the engine
recommended for another; a Create that meets an existing Deployment the cache has not seen
marks the resource `Failed` for good; an edit of a `Running` resource is not deployed; a
cancelled benchmark leaves the resource `Optimizing`; a token file that is empty when the
time is up gives an empty key without an error; a saved dev key is never renewed; with the
gateway gone for good, or its key expired, `inferbolt agent` follows for ever.

### Mutants

For every property of a passing run there is a mutant, an operator defined just before
the one it replaces and marked "Mutant:" in the module: a dropped guard, an off-by-one, a
missing release. With it TLC finds the property violated.

The type invariants of the modules, but for that of `JobPipeline`, are in no run, and neither
are `QueuedJobHasRow`, `SettledIsNeverDispatched`, `SuccessHasRecommendation` and
`CompletedHasReport`: they say less than the properties that rest on them. They are parts of the
inductive invariants and proved with them.

## 4. Proofs

All proofs are checked by TLAPS from the `ASSUME`s on the constants (sets disjoint from
their "none" values, numbers positive); they do not depend on the bounds above.

*JobPipeline.* `PipelineInv` is inductive. `CompletedHasResult` needs `PostsComeFromRuns`
(a request past its first statement is stored). `FinishedNeverReruns` needs
`PendingIsUndispatched`: the write of "running" rests on a read of "pending" that may be
stale, and only a cancellation can have overtaken it. `AtMostOneRun` needs
`DispatchSettles`: without SQL errors and crashes an attempt that dispatched leaves a row
that the next attempt refuses. `BusyWorkerIsHeldByItsJob` is inductive with the types.
`TypeOK` itself needs `AttemptsLeft`. The action properties follow from the invariant and
one step. The frame of a step is proved once (`StepEffect`), so that the parts of the
invariant only look at what a step can disturb.

*AgentLoop.* `AgentInv` is inductive. Counting trials (`SpendCountsTrials`) is a
cardinality argument on the appended sequence; that `findTrial` returns what it promises
rests on the least element of a non-empty set of naturals; `CopiesHaveOriginals` carries
`MeasurementsComeFromTrials` through reused trials.

*Campaigns.* `CampaignInv` takes `AgentInv` from the agent's lemmas, step by step.
`ClaimedOnce` says that a row with a loop is past "pending", which only the conditional
update leaves, hence `AtMostOneLoop`. The refinement maps `state` to `row`; every step is
a step of `CampaignLifecycle` or leaves the row alone.

*JobPipeline, the collector.* `CompletedRunHasAllResults` needs `PostedIsStored`: as long as
no post, statement or orchestrator fails, what a run has posted is in the table or in a
request on its way. The two are `CollectingInv`, proved on top of `PipelineInv`.

*AgentLoop, the fallback.* `bestTrial` scans the trials, in the model by the recursive
function `scan`. That what it returns is a cheapest error-free trial, whatever the trials, is
proved by least counterexample: the naturals at which the claim about `scan` fails, were there
any, would have a least one, and it is neither 0 nor a successor. `FallbackInv` carries this
to every later state: a fallback is only chosen as the loop returns.

*CampaignFeed.* `FeedInv` says what the order of the two reads is good for: a loop that is
still running has a row that is not final, or a cancelled one (`LoopMeansOpen`), and a final
row stays as it was read (`FinalStays`), so that no event comes after it; the page read then is
the last.

*RequestGate.* `LimitPerMinute` needs `OvershootIsLate`: what has passed in this minute beyond its
bucket, plus the requests that will still be counted in a minute that is over, is at most the
number of requests there can be. A new minute makes every waiting request late and resets what has
passed; a late request that passes moves from one side to the other. The bound `Limit + |Request|`
is what the code gives, as it reads the clock before it counts. `ExpiredTokensFade` rests on
`ParsedInTime` (what a request is about to store was valid when it was parsed) and `CacheFades`
(claims in the cache were valid at most `lag` before they were put there); `lag` is the time a
request has spent between the two readings of the clock, which the code does not bound.
`RetryAfterSuffices` on `RetryCoversMinute` (the second reading of the clock is not before the
first).

*Router.* `CacheFits`: a cached selection has the profile of its key. With it the answers are
right for any registry. `RouterAssumption` asks for a tenant and a worker to exist.

*LocalRun.* `ProcessHasItsCommand` lists the labels at which a command may have a process: all
of them lead to the cleanup, and past it only a command that still waits has a held pipe.
`DevTokenWorks` needs that a token is stored before it is written
(`IssuedIsStored`), `BootstrappedKeyWorks` that the file stays good while a command waits for
it, whatever the gateway does then (`AwaitedTokenWorks`). A token `Works` that is accepted, has
lapsed since the gateway came up, or is between its `exp` and its row's `expires_at`.

*Operator.* The argument is that of optimistic concurrency. A version stands for one object
(`CopiesAreVersions`), so a copy that carries the current version is the object itself, but
for what this reconciliation has done to it (`CurrentCopyIsSound`); a write from any other
copy meets a conflict. What remains is to follow one reconciliation from where it started
(`StepIsDue`, `MayBecome`). From `OperatorInv` follow `NoEditIsLost`, `RunningIsWhatWasAsked`
and the refinement of `InferencePhases`.

*Drift.* The statistics rest on sums over the kinds of result, for which the library has a
recursive function on subsets and no theorem. `SmallestSet` (a non-empty family of finite sets
has a member none of whose one-smaller subsets belongs to it) is the induction used: with it the
recursion has a solution (`SumExists`) and only one, a sum does not depend on the order
(`TotalSplit`), is monotone and linear, and kinds without results do not matter. Hence the k-th
smallest figure exists and was measured (`SortedIsAFigure`), the mean lies between two figures
(`MeanIsBetween`), and `StatisticsSound` holds for lists of any length; TLC's
`StatisticsSoundTo12` is an instance. A statistic that is worse than the baseline by a threshold
lies on the good side of some measured figure, which then is worse too (`WorseIsMeasured`, by
cross-multiplication): with `DriftInv`, that a check compares at least one result it has read
with a row that is there, `AlertHasWitness` follows. `BaselineIsSticky` rests on `SetFillsAGap`:
between Get and Set nobody else fills the row that was missing, a reset only removes rows, and a
check that follows starts with its own Get.

*Only model-checked.* Liveness under fairness, which the prover does not do:
`EveryQueuedJobIsFinalized`, `LoopTerminates`, `CampaignEnds`, `FollowEnds`,
`DetectorNeverBlocks`, `DriftKeepsBeingReported`, `NoResourceStaysPending`,
`GoneWorkerIsForgotten`, `CommandsEnd`. Every other property of a run is
stated by a theorem.

## 5. Not modelled

The audit log, CORS, request ids, logging, the read-only endpoints and the CLI's tables do
not interact with the modelled state. The numeric bounds of request validation are one
choice, valid or not. Engine adapters are subprocess and HTTP I/O.
`internal/cli/agentplatform.go` and `worker/search` are called by no process. UI, migrations
and deployment files keep no state of their own.

Outside the modules but worth knowing: a worker on another host is behind `ssh`, and whether
it dies with the `ssh` that `stop` kills is sshd's affair; so is a child of the worker that does
not hold its output. A dev key signed with a `JWT_SECRET` that has changed since is still valid
to `devKeyStillValid`, so that `DevTokenWorks` is about one secret.
Without `DEV_TOKEN_FILE` a single row of the dev tenant, even an expired one, stops the
bootstrap for good.

## 6. Plan

1. Done: all components of section 2, model-checked, and the proofs of section 4.
2. Proofs: the safety part of the liveness properties, where there is one (what a loop that has
   not ended still has to do).
3. Composition: campaign trials as jobs of `JobPipeline`, to see what a stuck row costs a
   campaign.
4. `Validation`: numeric bounds at their edges; the budget defaults of CreateCampaign.
