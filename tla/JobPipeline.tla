---------------------------- MODULE JobPipeline ----------------------------
(***************************************************************************)
(* The life of benchmark jobs, across the processes that share them:       *)
(*                                                                         *)
(*   gateway       CreateJob and CancelJob on the row in public.jobs       *)
(*   River         the queue entry: attempts, retries, rescue (external)   *)
(*   orchestrator  BenchmarkWorker.Work for each attempt, the handler of   *)
(*                 /internal/results, the worker registry                  *)
(*   worker/       the Python processes: registration and the runs         *)
(*                                                                         *)
(* The row is the shared variable.  Work reads it, checks the edge and     *)
(* then writes it in two SQL statements; CancelJob reads and then writes;  *)
(* the results handler writes without reading.  Each statement is a step   *)
(* of its own here, so every interleaving of them is explored.             *)
(***************************************************************************)
EXTENDS Naturals, FiniteSets, JobStates, WorkerRegistry

CONSTANTS
  NoWorker,     \* "Work holds no worker"
  GPUProfile,   \* GPUProfile[j]: the profile job j asks for
  URL,          \* URL[w]: the address process w serves at
  NumEngines,   \* how many engines every job asks for
  MaxAttempts,  \* InsertOpts.MaxAttempts of the benchmarks queue
  MaxWorkers,   \* QueueConfig.MaxWorkers of the benchmarks queue
  Heartbeating, \* whether the workers send heartbeats
  Faults        \* the faults the environment may inject

\* db:       a SQL statement fails
\* dispatch: POST /run or its answer is lost, or the answer is not about a run
\* post:     POST /internal/results is lost or not answered within 30s
\* engine:   an engine raises               restart:  a Python process dies
\* crash:    the orchestrator dies and restarts
FaultKinds == {"db", "dispatch", "post", "engine", "restart", "crash"}

ASSUME ConstantsAssumption ==
  /\ NoWorker \notin WorkerID
  /\ NumEngines \in Nat \ {0}
  /\ MaxAttempts \in Nat \ {0}
  /\ MaxWorkers \in Nat \ {0}
  /\ Heartbeating \in BOOLEAN
  /\ Faults \subseteq FaultKinds

Attempt == 1..MaxAttempts
Engine  == 1..NumEngines

VARIABLES
  row,      \* row[j]: state of the row in public.jobs, "none" before SaveJob
  create,   \* create[j]: progress of the CreateJob request
  cancel,   \* cancel[j]: "checked" while CancelJob is between its read and its write
  river,    \* river[j]: the River job
  attempt,  \* attempt[j]: attempts River has started
  pc,       \* pc[j]: where the current attempt is inside Work
  held,     \* held[j]: the worker SelectWorker returned to it
  proc,     \* proc[w]: Python process w
  run,      \* run[j][a]: _runs entry that attempt a of j created
  runAt,    \* runAt[j][a]: the process that has it
  done,     \* done[j][a]: engines of that run that have posted
  posts,    \* /internal/results requests in flight
  results,  \* results[j]: engines with a row in metrics.bench_results
  recs      \* recs[j]: engines with a row in public.recommendations

gatewayVars == <<create, cancel>>
riverVars   == <<river, attempt>>
workVars    == <<pc, held>>
pyVars      == <<proc, run, runAt, done>>
resultVars  == <<posts, results, recs>>
vars == <<row, gatewayVars, riverVars, workVars, registryVars, pyVars, resultVars>>

WorkPC == {"idle", "readRunning", "writeRunning", "select", "markBusy", "dispatch",
           "readFailed", "writeFailed", "readCollecting", "writeCollecting", "poll",
           "returnOk", "returnErr"}

Post == [job : Job, att : Attempt, eng : Engine, stage : {"write", "complete"}]

TypeOK ==
  /\ RegistryTypeOK
  /\ row \in [Job -> JobState \cup {"none"}]
  /\ create \in [Job -> {"none", "saved", "done"}]
  /\ cancel \in [Job -> {"idle", "checked"}]
  /\ river \in [Job -> {"none", "available", "running", "completed", "discarded"}]
  /\ attempt \in [Job -> 0..MaxAttempts]
  /\ pc \in [Job -> WorkPC]
  /\ held \in [Job -> WorkerID \cup {NoWorker}]
  /\ proc \in [WorkerID -> {"new", "starting", "up", "dead"}]
  /\ run \in [Job -> [Attempt -> {"none", "running", "completed", "failed", "lost"}]]
  /\ runAt \in [Job -> [Attempt -> WorkerID \cup {NoWorker}]]
  /\ done \in [Job -> [Attempt -> 0..NumEngines]]
  /\ posts \subseteq Post
  /\ results \in [Job -> SUBSET Engine]
  /\ recs \in [Job -> SUBSET Engine]

Init ==
  /\ NewWorkerRegistry
  /\ row = [j \in Job |-> "none"]
  /\ create = [j \in Job |-> "none"]
  /\ cancel = [j \in Job |-> "idle"]
  /\ river = [j \in Job |-> "none"]
  /\ attempt = [j \in Job |-> 0]
  /\ pc = [j \in Job |-> "idle"]
  /\ held = [j \in Job |-> NoWorker]
  /\ proc = [w \in WorkerID |-> "new"]
  /\ run = [j \in Job |-> [a \in Attempt |-> "none"]]
  /\ runAt = [j \in Job |-> [a \in Attempt |-> NoWorker]]
  /\ done = [j \in Job |-> [a \in Attempt |-> 0]]
  /\ posts = {}
  /\ results = [j \in Job |-> {}]
  /\ recs = [j \in Job |-> {}]

Fault(f) == f \in Faults

-----------------------------------------------------------------------------
(* Gateway: POST /v1/jobs and DELETE /v1/jobs/{id}.                        *)

\* CreateJob, its INSERT.  (A failed INSERT answers 500 and changes nothing.)
SaveJob(j) ==
  /\ create[j] = "none"
  /\ create' = [create EXCEPT ![j] = "saved"]
  /\ row' = [row EXCEPT ![j] = "pending"]
  /\ UNCHANGED <<cancel, riverVars, workVars, registryVars, pyVars, resultVars>>

\* CreateJob, its River insert.  When that fails the client gets a 500 and the
\* row stays: nothing deletes or fails it.
Enqueue(j) ==
  /\ create[j] = "saved"
  /\ create' = [create EXCEPT ![j] = "done"]
  /\ \/ river' = [river EXCEPT ![j] = "available"]
     \/ Fault("db") /\ UNCHANGED river
  /\ UNCHANGED <<row, cancel, attempt, workVars, registryVars, pyVars, resultVars>>

\* CancelJob, GetJob and the IsTerminal check; a terminal job answers 409.
CancelRead(j) ==
  /\ row[j] # "none"
  /\ ~IsTerminal(row[j])
  /\ cancel[j] = "idle"
  /\ cancel' = [cancel EXCEPT ![j] = "checked"]
  /\ UNCHANGED <<row, create, riverVars, workVars, registryVars, pyVars, resultVars>>

\* CancelJob, UpdateJobState.  The notification that follows is a POST to a route
\* the orchestrator does not serve, so it has no effect.
CancelWrite(j) ==
  /\ cancel[j] = "checked"
  /\ cancel' = [cancel EXCEPT ![j] = "idle"]
  /\ \/ row' = [row EXCEPT ![j] = "cancelled"]
     \/ Fault("db") /\ UNCHANGED row
  /\ UNCHANGED <<create, riverVars, workVars, registryVars, pyVars, resultVars>>

-----------------------------------------------------------------------------
(* River, as configured by internal/queue/client.go (external).            *)

\* A free slot of the benchmarks queue picks up an available job.
WorkStart(j) ==
  /\ river[j] = "available"
  /\ Cardinality({k \in Job : pc[k] # "idle"}) < MaxWorkers
  /\ river' = [river EXCEPT ![j] = "running"]
  /\ attempt' = [attempt EXCEPT ![j] = @ + 1]
  /\ pc' = [pc EXCEPT ![j] = "readRunning"]
  /\ UNCHANGED <<row, gatewayVars, held, registryVars, pyVars, resultVars>>

\* Mutant: one retry too many.
RetryOnceMore(j) ==
  river' = [river EXCEPT ![j] = IF attempt[j] <= MaxAttempts THEN "available" ELSE "discarded"]

\* What River does with an attempt that ended in an error.
RetryOrDiscard(j) ==
  river' = [river EXCEPT ![j] = IF attempt[j] < MaxAttempts THEN "available" ELSE "discarded"]

\* Mutant: MarkIdle at the end of Work instead of in a defer.
ReleaseOnSuccess(j) ==
  IF held[j] = NoWorker \/ pc[j] = "returnErr" THEN UNCHANGED registryVars ELSE MarkIdle(held[j])

\* Work's deferred MarkIdle, which runs on every return once it has a worker.
Release(j) ==
  IF held[j] = NoWorker THEN UNCHANGED registryVars ELSE MarkIdle(held[j])

\* Work returned, and River records the outcome.
Return(j) ==
  /\ pc[j] \in {"returnOk", "returnErr"}
  /\ Release(j)
  /\ IF pc[j] = "returnOk"
     THEN river' = [river EXCEPT ![j] = "completed"]
     ELSE RetryOrDiscard(j)
  /\ pc' = [pc EXCEPT ![j] = "idle"]
  /\ held' = [held EXCEPT ![j] = NoWorker]
  /\ UNCHANGED <<row, gatewayVars, attempt, pyVars, resultVars>>

\* River's rescuer finds a job that a dead client left in "running".
Rescue(j) ==
  /\ river[j] = "running"
  /\ pc[j] = "idle"
  /\ RetryOrDiscard(j)
  /\ UNCHANGED <<row, gatewayVars, attempt, workVars, registryVars, pyVars, resultVars>>

-----------------------------------------------------------------------------
(* BenchmarkWorker.Work                                                    *)

Goto(j, label) == pc' = [pc EXCEPT ![j] = label]

\* updateJobState up to its check: the SELECT, and ValidTransition on what it saw.
CheckTransition(j, newState, valid, invalid) ==
  /\ \/ Goto(j, IF ValidTransition(row[j], newState) THEN valid ELSE invalid)
     \/ Fault("db") /\ Goto(j, "returnErr")
  /\ UNCHANGED <<row, gatewayVars, riverVars, held, registryVars, pyVars, resultVars>>

\* updateJobState's UPDATE.  It does not repeat the check.  A statement that returns an
\* error may have been committed.
WriteState(j, newState, next) ==
  /\ \/ row' = [row EXCEPT ![j] = newState] /\ Goto(j, next)
     \/ /\ Fault("db")
        /\ row' = [row EXCEPT ![j] = newState] \/ UNCHANGED row
        /\ Goto(j, "returnErr")
  /\ UNCHANGED <<gatewayVars, riverVars, held, registryVars, pyVars, resultVars>>

\* Mutant: step 1 tolerates every invalid edge.
ReadRunningTolerant(j) ==
  /\ pc[j] = "readRunning"
  /\ CheckTransition(j, "running", "writeRunning", "select")

\* Step 1.  "running -> running" is the one invalid edge that is tolerated.
ReadRunning(j) ==
  /\ pc[j] = "readRunning"
  /\ CheckTransition(j, "running", "writeRunning",
                     IF row[j] = "running" THEN "select" ELSE "returnErr")

WriteRunning(j) ==
  /\ pc[j] = "writeRunning"
  /\ WriteState(j, "running", "select")

\* Step 2.  Without an idle worker the attempt ends; the row is not touched.
Select(j) ==
  /\ pc[j] = "select"
  /\ \/ \E w \in SelectWorker(GPUProfile[j]) :
          held' = [held EXCEPT ![j] = w] /\ Goto(j, "markBusy")
     \/ /\ SelectWorker(GPUProfile[j]) = {}
        /\ Goto(j, "returnErr")
        /\ UNCHANGED held
  /\ UNCHANGED <<row, gatewayVars, riverVars, registryVars, pyVars, resultVars>>

\* Step 3.
SetBusy(j) ==
  /\ pc[j] = "markBusy"
  /\ MarkBusy(held[j], j)
  /\ Goto(j, "dispatch")
  /\ UNCHANGED <<row, gatewayVars, riverVars, held, pyVars, resultVars>>

\* The process that answers at the address worker w registered.
Serving(w) == {v \in WorkerID : proc[v] = "up" /\ URL[v] = URL[w]}

\* Step 4, and post_run at the other end: the request reaches the process that
\* serves the address, which creates the run and starts it in the background.
\* The answer may get lost.
Dispatch(j) ==
  /\ pc[j] = "dispatch"
  /\ \E v \in Serving(held[j]) :
       /\ run' = [run EXCEPT ![j][attempt[j]] = "running"]
       /\ runAt' = [runAt EXCEPT ![j][attempt[j]] = v]
  /\ \/ Goto(j, "readCollecting")
     \/ Fault("dispatch") /\ Goto(j, "readFailed")
  /\ UNCHANGED <<row, gatewayVars, riverVars, held, registryVars, proc, done, resultVars>>

\* Step 4 when nobody serves the address or the request is lost.
DispatchFails(j) ==
  /\ pc[j] = "dispatch"
  /\ Serving(held[j]) = {} \/ Fault("dispatch")
  /\ Goto(j, "readFailed")
  /\ UNCHANGED <<row, gatewayVars, riverVars, held, registryVars, pyVars, resultVars>>

\* Step 4 when the worker answers without starting a run, with a 422 for instance: the status is
\* not looked at, and an answer that decodes is a run without an id, which no poll will find.
DispatchMisread(j) ==
  /\ pc[j] = "dispatch"
  /\ Serving(held[j]) # {} /\ Fault("dispatch")
  /\ Goto(j, "readCollecting")
  /\ UNCHANGED <<row, gatewayVars, riverVars, held, registryVars, pyVars, resultVars>>

\* Mutant: a failed dispatch does not mark the job failed.
ReadFailedUnmarked(j) ==
  /\ pc[j] = "readFailed"
  /\ CheckTransition(j, "failed", "returnErr", "returnErr")

\* The dispatch error path; its own error is ignored, the attempt fails anyway.
ReadFailed(j) ==
  /\ pc[j] = "readFailed"
  /\ CheckTransition(j, "failed", "writeFailed", "returnErr")

\* Mutant: a failed dispatch hands the row back for the retry.
WriteFailedRequeues(j) ==
  /\ pc[j] = "writeFailed"
  /\ WriteState(j, "pending", "returnErr")

WriteFailed(j) ==
  /\ pc[j] = "writeFailed"
  /\ WriteState(j, "failed", "returnErr")

\* Step 5.
ReadCollecting(j) ==
  /\ pc[j] = "readCollecting"
  /\ CheckTransition(j, "collecting", "writeCollecting", "returnErr")

WriteCollecting(j) ==
  /\ pc[j] = "writeCollecting"
  /\ WriteState(j, "collecting", "poll")

\* Step 6: a poll that gets a final status.  A status that is still "running", a
\* 404 from a restarted worker and a network error all leave it polling.
Poll(j) ==
  /\ pc[j] = "poll"
  /\ \/ run[j][attempt[j]] = "completed" /\ Goto(j, "returnOk")
     \/ run[j][attempt[j]] = "failed" /\ Goto(j, "returnErr")
  /\ UNCHANGED <<row, gatewayVars, riverVars, held, registryVars, pyVars, resultVars>>

\* Mutant: the loop has no timer and no deadline.
PollForever(j) ==
  /\ pc[j] = "poll"
  /\ UNCHANGED vars

\* Step 6: the 45 minute timer, or the 60 minute context of River.
PollTimeout(j) ==
  /\ pc[j] = "poll"
  /\ Goto(j, "returnErr")
  /\ UNCHANGED <<row, gatewayVars, riverVars, held, registryVars, pyVars, resultVars>>

-----------------------------------------------------------------------------
(* Orchestrator: POST /internal/results.                                   *)

\* The request once its measurement is stored.
Stored(p) == [job |-> p.job, att |-> p.att, eng |-> p.eng, stage |-> "complete"]

\* Mutant: the handler goes on after a failed WriteBenchResultBatch.
ResultsWriteUnchecked(p) ==
  /\ p.stage = "write"
  /\ posts' = (posts \ {p}) \cup {Stored(p)}
  /\ \/ results' = [results EXCEPT ![p.job] = @ \cup {p.eng}]
     \/ Fault("db") /\ UNCHANGED results
  /\ UNCHANGED <<row, gatewayVars, riverVars, workVars, registryVars, pyVars, recs>>

\* WriteBenchResultBatch; when it fails the handler answers 500 and stops.
ResultsWrite(p) ==
  /\ p.stage = "write"
  /\ \/ /\ results' = [results EXCEPT ![p.job] = @ \cup {p.eng}]
        /\ posts' = (posts \ {p}) \cup {Stored(p)}
     \/ /\ Fault("db")
        /\ results' = [results EXCEPT ![p.job] = @ \cup {p.eng}] \/ UNCHANGED results
        /\ posts' = posts \ {p}
  /\ UNCHANGED <<row, gatewayVars, riverVars, workVars, registryVars, pyVars, recs>>

\* UpdateJobState(completed) whatever the row says, then SaveRecommendation; an
\* error of either is only logged.  (The audit log entry that ends the handler is
\* left out.)
ResultsComplete(p) ==
  /\ p.stage = "complete"
  /\ posts' = posts \ {p}
  /\ \/ row' = [row EXCEPT ![p.job] = "completed"]
     \/ Fault("db") /\ UNCHANGED row
  /\ \/ recs' = [recs EXCEPT ![p.job] = @ \cup {p.eng}]
     \/ Fault("db") /\ UNCHANGED recs
  /\ UNCHANGED <<gatewayVars, riverVars, workVars, registryVars, pyVars, results>>

-----------------------------------------------------------------------------
(* worker/main.py: the process and its runs.                               *)

\* lifespan: the process registers before uvicorn accepts connections.  After five
\* failed tries it serves unregistered.
StartProcess(w) ==
  /\ proc[w] = "new"
  /\ \A v \in WorkerID : URL[v] = URL[w] => proc[v] \notin {"starting", "up"}
  /\ proc' = [proc EXCEPT ![w] = "starting"]
  /\ \/ Register(w)
     \/ Fault("post") /\ UNCHANGED registryVars
  /\ UNCHANGED <<row, gatewayVars, riverVars, workVars, run, runAt, done, resultVars>>

\* _register_with_orchestrator again, because the answer to an earlier try got lost.
RetryRegister(w) ==
  /\ Fault("post")
  /\ proc[w] = "starting"
  /\ Register(w)
  /\ UNCHANGED <<row, gatewayVars, riverVars, workVars, pyVars, resultVars>>

\* lifespan has yielded: uvicorn accepts connections.
Serve(w) ==
  /\ proc[w] = "starting"
  /\ proc' = [proc EXCEPT ![w] = "up"]
  /\ UNCHANGED <<row, gatewayVars, riverVars, workVars, registryVars, run, runAt, done,
                 resultVars>>

\* The process dies, and _runs with it.
Die(w) ==
  /\ Fault("restart")
  /\ proc[w] \in {"starting", "up"}
  /\ proc' = [proc EXCEPT ![w] = "dead"]
  /\ run' = [j \in Job |-> [a \in Attempt |->
                IF run[j][a] # "none" /\ runAt[j][a] = w THEN "lost" ELSE run[j][a]]]
  /\ UNCHANGED <<row, gatewayVars, riverVars, workVars, registryVars, runAt, done, resultVars>>

\* POST /internal/workers/heartbeat.
SendHeartbeat(w) ==
  /\ Heartbeating
  /\ proc[w] = "up"
  /\ Heartbeat(w)
  /\ UNCHANGED <<row, gatewayVars, riverVars, workVars, pyVars, resultVars>>

\* StartHeartbeatEviction's tick.
Evict ==
  /\ \E stale \in SUBSET WorkerID : EvictStale(stale)
  /\ UNCHANGED <<row, gatewayVars, riverVars, workVars, pyVars, resultVars>>

Posting(j, a) == \E p \in posts : p.job = j /\ p.att = a

\* Mutant: the task does not await the answer to its post.
AtEngineBoundaryNoAwait(j, a) == run[j][a] = "running"

\* The background task between two engines: the POST of the previous result has been
\* answered, or has run into its 30 second timeout.
AtEngineBoundary(j, a) ==
  /\ run[j][a] = "running"
  /\ ~Posting(j, a) \/ Fault("post")

\* _execute_benchmark, one engine: benchmark it and post the result.  A post that does
\* not arrive is logged and forgotten.
RunEngine(j, a) ==
  /\ AtEngineBoundary(j, a)
  /\ done[j][a] < NumEngines
  /\ done' = [done EXCEPT ![j][a] = @ + 1]
  /\ \/ posts' = posts \cup {[job |-> j, att |-> a, eng |-> done[j][a] + 1, stage |-> "write"]}
     \/ Fault("post") /\ UNCHANGED posts
  /\ UNCHANGED <<row, gatewayVars, riverVars, workVars, registryVars, proc, run, runAt,
                 results, recs>>

\* _execute_benchmark after its last engine.
RunCompletes(j, a) ==
  /\ AtEngineBoundary(j, a)
  /\ done[j][a] = NumEngines
  /\ run' = [run EXCEPT ![j][a] = "completed"]
  /\ UNCHANGED <<row, gatewayVars, riverVars, workVars, registryVars, proc, runAt, done,
                 resultVars>>

\* _execute_benchmark when get_engine, start, benchmark, compute_result or teardown
\* raises; the teardown of the last engine comes after its post.
RunFails(j, a) ==
  /\ Fault("engine")
  /\ AtEngineBoundary(j, a)
  /\ run' = [run EXCEPT ![j][a] = "failed"]
  /\ UNCHANGED <<row, gatewayVars, riverVars, workVars, registryVars, proc, runAt, done,
                 resultVars>>

-----------------------------------------------------------------------------
\* The orchestrator dies (or shuts down, which cancels the context of every attempt)
\* and starts again: the registry is empty and requests in flight are gone.  The rows,
\* River's table and the Python processes are not affected.
Crash ==
  /\ Fault("crash")
  /\ pc' = [j \in Job |-> "idle"]
  /\ held' = [j \in Job |-> NoWorker]
  /\ status' = [w \in WorkerID |-> "absent"]
  /\ currentJob' = [w \in WorkerID |-> NoJob]
  /\ posts' = {}
  /\ UNCHANGED <<row, gatewayVars, riverVars, pyVars, results, recs>>

-----------------------------------------------------------------------------
GatewayStep(j) == SaveJob(j) \/ Enqueue(j) \/ CancelRead(j) \/ CancelWrite(j)

WorkStep(j) ==
  \/ ReadRunning(j) \/ WriteRunning(j) \/ Select(j) \/ SetBusy(j)
  \/ Dispatch(j) \/ DispatchFails(j) \/ DispatchMisread(j) \/ ReadFailed(j) \/ WriteFailed(j)
  \/ ReadCollecting(j) \/ WriteCollecting(j) \/ Poll(j) \/ PollTimeout(j)

RiverStep(j) == WorkStart(j) \/ Return(j) \/ Rescue(j)

RunStep(j, a) == RunEngine(j, a) \/ RunCompletes(j, a) \/ RunFails(j, a)

ResultsStep(p) == ResultsWrite(p) \/ ResultsComplete(p)

ProcessStep(w) ==
  StartProcess(w) \/ RetryRegister(w) \/ Serve(w) \/ Die(w) \/ SendHeartbeat(w)

Next ==
  \/ \E j \in Job : GatewayStep(j) \/ RiverStep(j) \/ WorkStep(j)
  \/ \E j \in Job, a \in Attempt : RunStep(j, a)
  \/ \E p \in posts : ResultsStep(p)
  \/ \E w \in WorkerID : ProcessStep(w)
  \/ Evict
  \/ Crash

Spec == Init /\ [][Next]_vars

-----------------------------------------------------------------------------
(* Fairness: goroutines, River's loops and the Python event loop keep       *)
(* going.  Users, faults and the clock of the eviction owe nothing.  That a *)
(* poll ends rests on its 45 minute timer, not on the benchmark ending.     *)

Fairness ==
  /\ \A j \in Job :
       /\ WF_vars(Enqueue(j)) /\ WF_vars(CancelWrite(j))
       /\ WF_vars(WorkStart(j)) /\ WF_vars(Return(j)) /\ WF_vars(Rescue(j))
       /\ WF_vars(WorkStep(j))
  /\ \A p \in Post : WF_vars(p \in posts /\ ResultsStep(p))
  /\ \A w \in WorkerID : WF_vars(Serve(w)) /\ WF_vars(SendHeartbeat(w))

FairSpec == Spec /\ Fairness

-----------------------------------------------------------------------------
(* What the pipeline guarantees.                                           *)

Dispatched(j) == \E a \in Attempt : run[j][a] # "none"

\* An attempt never finds its row missing: CreateJob saves before it enqueues, so
\* whatever River hands to Work exists in public.jobs.
QueuedJobHasRow == \A j \in Job : river[j] # "none" => row[j] # "none"

\* A client that sees "completed" finds at least one result: the handler of
\* /internal/results stores the measurement before it touches the row, and nobody
\* else writes "completed", whatever crashes, retries and failed statements happen.
CompletedHasResult == \A j \in Job : row[j] = "completed" => results[j] # {}

\* No worker is left busy: an entry marked busy with a job is held by the attempt of
\* that very job, which will release it, even when two attempts raced for the worker
\* between SelectWorker and MarkBusy, or the worker re-registered meanwhile.
BusyWorkerIsHeldByItsJob ==
  \A w \in WorkerID : status[w] = "busy" =>
    /\ currentJob[w] \in Job
    /\ held[currentJob[w]] = w
    /\ pc[currentJob[w]] \notin {"idle", "readRunning", "writeRunning", "select"}

\* As long as SQL statements succeed and the orchestrator stays up, retries never
\* benchmark a job twice: an attempt that dispatched leaves the row in a state the
\* next attempt refuses, even if the answer to the dispatch was lost.
AtMostOneRun ==
  Faults \cap {"db", "crash"} = {} =>
    \A j \in Job : \A a, b \in Attempt :
      run[j][a] # "none" /\ run[j][b] # "none" => a = b

\* When no result is lost, a run the worker reports as completed has all its results
\* stored: the worker waits for the answer to each post before it goes on.
CompletedRunHasAllResults ==
  Faults \cap {"db", "post", "crash"} = {} =>
    \A j \in Job, a \in Attempt : run[j][a] = "completed" => results[j] = Engine

\* A job that has been collected from, completed or failed is never put back to
\* "running": the write of "running" rests on a read of "pending" that may be stale,
\* but only a cancellation can have come in between.
FinishedNeverReruns ==
  [][\A j \in Job :
       row[j] \in {"collecting", "completed", "failed"}
         => row'[j] \notin {"none", "pending", "running"}]_vars

Settled(j) ==
  /\ row[j] \notin {"none", "pending", "running"}
  /\ pc[j] \in {"idle", "readRunning", "returnOk", "returnErr"}

\* Between attempts, a row that is past "running" is final for dispatching: whatever
\* attempts River still has, none of them creates a run.
SettledIsNeverDispatched ==
  [][\A j \in Job :
       Settled(j) => /\ Settled(j)'
                     /\ \A a \in Attempt : run[j][a] = "none" => run'[j][a] = "none"]_vars

CancelledEarly(j) == row[j] = "cancelled" /\ Settled(j) /\ ~Dispatched(j)

\* A cancellation that lands before the job was dispatched, and not inside an attempt,
\* is final: no retry gets past its first step and no late result brings the job back.
EarlyCancelSticks == [][\A j \in Job : CancelledEarly(j) => CancelledEarly(j)']_vars

\* River is done with every job it was given: no attempt hangs for ever, though runs
\* may be lost with their process and the orchestrator may crash again and again.
EveryQueuedJobIsFinalized ==
  \A j \in Job : river[j] = "available" ~> river[j] \in {"completed", "discarded"}

-----------------------------------------------------------------------------
(* The inductive invariant behind the theorems of JobPipelineProofs.       *)

\* River only offers a job that has an attempt left.
AttemptsLeft ==
  \A j \in Job : river[j] \in {"none", "available"} => attempt[j] < MaxAttempts

\* An attempt inside Work is one River counts as running.
ActiveAttempt ==
  \A j \in Job : pc[j] # "idle" => river[j] = "running" /\ attempt[j] \in Attempt

\* The row, the CreateJob request, the River job and a cancellation come in that order.
RowComesFirst ==
  \A j \in Job :
    /\ row[j] = "none" <=> create[j] = "none"
    /\ river[j] # "none" => create[j] = "done"
    /\ cancel[j] = "checked" => row[j] # "none"

\* A row that is still pending has never been dispatched, and the read of "pending" that
\* a write of "running" rests on can only have been overtaken by a cancellation.
PendingIsUndispatched ==
  \A j \in Job :
    /\ row[j] \in {"none", "pending"} => ~Dispatched(j)
    /\ pc[j] = "writeRunning" => row[j] \in {"pending", "cancelled"} /\ ~Dispatched(j)
    /\ pc[j] \notin {"idle", "readRunning", "writeRunning", "returnErr"}
         => row[j] \notin {"none", "pending"}

\* A result in flight comes from a run; past its first statement it is stored.
PostsComeFromRuns ==
  \A p \in posts :
    /\ run[p.job][p.att] # "none"
    /\ p.stage = "complete" => p.eng \in results[p.job]

\* Without SQL errors and crashes, an attempt that dispatched ends with a row that no
\* later attempt accepts.
DispatchSettles ==
  Faults \cap {"db", "crash"} = {} =>
    \A j \in Job : Dispatched(j) =>
      \/ Settled(j)
      \/ pc[j] \in {"readFailed", "writeFailed", "readCollecting", "writeCollecting"}
      \/ pc[j] = "poll" /\ row[j] \notin {"none", "pending", "running"}

PipelineInv ==
  /\ TypeOK
  /\ AttemptsLeft
  /\ ActiveAttempt
  /\ RowComesFirst
  /\ PendingIsUndispatched
  /\ PostsComeFromRuns
  /\ CompletedHasResult
  /\ BusyWorkerIsHeldByItsJob
  /\ DispatchSettles
  /\ AtMostOneRun

\* What a run has posted is stored or about to be, as long as no post and no statement fails.
PostedIsStored ==
  Faults \cap {"db", "post", "crash"} = {} =>
    \A j \in Job, a \in Attempt : \A e \in 1..done[j][a] :
      e \in results[j] \/ \E p \in posts : p.job = j /\ p.att = a /\ p.eng = e

CollectingInv == PostedIsStored /\ CompletedRunHasAllResults

=============================================================================
