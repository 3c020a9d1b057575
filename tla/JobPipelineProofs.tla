-------------------------- MODULE JobPipelineProofs --------------------------
(* Proofs, for every set of jobs and workers, every number of engines and   *)
(* attempts and every combination of faults, of the guarantees stated in    *)
(* JobPipeline.                                                             *)
EXTENDS JobPipeline, TLAPS

USE DEF registryVars, gatewayVars, riverVars, workVars, pyVars, resultVars

-----------------------------------------------------------------------------
\* The constants and the initial state satisfy the invariant.
LEMMA InitInv == Init => PipelineInv
<1> SUFFICES ASSUME Init PROVE PipelineInv
  OBVIOUS
<1>1. TypeOK
  BY ConstantsAssumption
     DEF Init, NewWorkerRegistry, TypeOK, RegistryTypeOK, WorkerStatus, JobState, WorkPC
<1>2. \A j \in Job : ~Dispatched(j)
  BY DEF Init, Dispatched
<1>3. QED
  BY <1>1, <1>2, ConstantsAssumption
     DEF Init, NewWorkerRegistry, PipelineInv, AttemptsLeft, ActiveAttempt, RowComesFirst,
         PendingIsUndispatched, PostsComeFromRuns, CompletedHasResult,
         BusyWorkerIsHeldByItsJob, DispatchSettles, AtMostOneRun

-----------------------------------------------------------------------------
(* Type correctness.                                                        *)

\* A function of functions keeps its type when one entry gets a value of the range.
LEMMA NestedExcept ==
  ASSUME NEW S, NEW T, NEW V, NEW f \in [S -> [T -> V]], NEW s \in S, NEW t \in T, NEW v \in V
  PROVE  [f EXCEPT ![s][t] = v] \in [S -> [T -> V]]
OBVIOUS

\* So does a function of sets when one of its sets grows within the universe.
LEMMA GrowExcept ==
  ASSUME NEW S, NEW U, NEW f \in [S -> SUBSET U], NEW s \in S, NEW u \in U
  PROVE  [f EXCEPT ![s] = @ \cup {u}] \in [S -> SUBSET U]
<1>1. f[s] \cup {u} \in SUBSET U
  OBVIOUS
<1>2. QED BY <1>1

\* A step of Work to one of its labels keeps the type of pc.
LEMMA GotoType ==
  ASSUME TypeOK, NEW j \in Job, NEW label \in WorkPC, Goto(j, label)
  PROVE  pc' \in [Job -> WorkPC]
BY DEF TypeOK, Goto

\* The read half of updateJobState keeps the types.
LEMMA CheckTransitionType ==
  ASSUME TypeOK, NEW j \in Job, NEW newState, NEW valid \in WorkPC, NEW invalid \in WorkPC,
         CheckTransition(j, newState, valid, invalid)
  PROVE  TypeOK'
<1>1. "returnErr" \in WorkPC
  BY DEF WorkPC
<1>2. pc' \in [Job -> WorkPC]
  BY <1>1, GotoType DEF CheckTransition
<1>3. QED
  BY <1>2 DEF CheckTransition, TypeOK, RegistryTypeOK

\* The write half of updateJobState keeps the types.
LEMMA WriteStateType ==
  ASSUME TypeOK, NEW j \in Job, NEW newState \in JobState, NEW next \in WorkPC,
         WriteState(j, newState, next)
  PROVE  TypeOK'
<1>1. "returnErr" \in WorkPC
  BY DEF WorkPC
<1>2. pc' \in [Job -> WorkPC]
  BY <1>1, GotoType DEF WriteState
<1>3. row' \in [Job -> JobState \cup {"none"}]
  BY DEF WriteState, TypeOK
<1>4. QED
  BY <1>2, <1>3 DEF WriteState, TypeOK, RegistryTypeOK

\* Every step of Work keeps the types.
LEMMA WorkStepType ==
  ASSUME TypeOK, ActiveAttempt, NEW j \in Job, WorkStep(j)
  PROVE  TypeOK'
<1>1. /\ WorkPC = WorkPC \cup {"writeRunning", "select", "markBusy", "dispatch", "readFailed",
                               "writeFailed", "readCollecting", "writeCollecting", "poll",
                               "returnOk", "returnErr"}
      /\ {"running", "failed", "collecting"} \subseteq JobState
  BY DEF WorkPC, JobState
<1>2. CASE ReadRunning(j)
  BY <1>1, <1>2, CheckTransitionType DEF ReadRunning
<1>3. CASE ReadFailed(j) \/ ReadCollecting(j)
  BY <1>1, <1>3, CheckTransitionType DEF ReadFailed, ReadCollecting
<1>4. CASE WriteRunning(j) \/ WriteFailed(j) \/ WriteCollecting(j)
  BY <1>1, <1>4, WriteStateType DEF WriteRunning, WriteFailed, WriteCollecting
<1>5. CASE Select(j)
  <2>1. pc' \in [Job -> WorkPC]
    BY <1>1, <1>5, GotoType DEF Select
  <2>2. held' \in [Job -> WorkerID \cup {NoWorker}]
    BY <1>5 DEF Select, TypeOK, SelectWorker
  <2>3. QED BY <1>5, <2>1, <2>2 DEF Select, TypeOK, RegistryTypeOK
<1>6. CASE SetBusy(j)
  <2>1. pc' \in [Job -> WorkPC]
    BY <1>1, <1>6, GotoType DEF SetBusy
  <2>2. RegistryTypeOK'
    <3>1. MarkBusy(held[j], j) /\ RegistryTypeOK
      BY <1>6 DEF SetBusy, TypeOK
    <3>2. QED BY <3>1 DEF MarkBusy, RegistryTypeOK, WorkerStatus
  <2>3. QED BY <1>6, <2>1, <2>2 DEF SetBusy, TypeOK
<1>7. CASE Dispatch(j)
  <2>1. attempt[j] \in Attempt
    BY <1>7 DEF Dispatch, ActiveAttempt
  <2>2. pc' \in [Job -> WorkPC]
    BY <1>1, <1>7, GotoType DEF Dispatch
  <2>3. run' \in [Job -> [Attempt -> {"none", "running", "completed", "failed", "lost"}]]
    BY <1>7, <2>1, NestedExcept DEF Dispatch, TypeOK
  <2>4. runAt' \in [Job -> [Attempt -> WorkerID \cup {NoWorker}]]
    BY <1>7, <2>1, NestedExcept DEF Dispatch, Serving, TypeOK
  <2>5. QED BY <1>7, <2>2, <2>3, <2>4 DEF Dispatch, TypeOK, RegistryTypeOK
<1>8. CASE DispatchFails(j) \/ DispatchMisread(j) \/ Poll(j) \/ PollTimeout(j)
  <2>1. pc' \in [Job -> WorkPC]
    BY <1>1, <1>8, GotoType DEF DispatchFails, DispatchMisread, Poll, PollTimeout
  <2>2. QED BY <1>8, <2>1 DEF DispatchFails, DispatchMisread, Poll, PollTimeout, TypeOK,
                               RegistryTypeOK
<1>9. QED
  BY <1>2, <1>3, <1>4, <1>5, <1>6, <1>7, <1>8 DEF WorkStep

\* Every step of River keeps the types.  That attempt stays within its bound needs
\* AttemptsLeft.
LEMMA RiverStepType ==
  ASSUME TypeOK, AttemptsLeft, NEW j \in Job, RiverStep(j)
  PROVE  TypeOK'
<1>1. CASE WorkStart(j)
  <2>1. attempt' \in [Job -> 0..MaxAttempts]
    BY <1>1, ConstantsAssumption DEF WorkStart, AttemptsLeft, TypeOK
  <2>2. pc' \in [Job -> WorkPC]
    BY <1>1 DEF WorkStart, TypeOK, WorkPC
  <2>3. QED BY <1>1, <2>1, <2>2 DEF WorkStart, TypeOK, RegistryTypeOK
<1>2. CASE Return(j)
  <2>1. RegistryTypeOK'
    BY <1>2 DEF Return, Release, MarkIdle, TypeOK, RegistryTypeOK, WorkerStatus
  <2>2. pc' \in [Job -> WorkPC]
    BY <1>2 DEF Return, TypeOK, WorkPC
  <2>3. held' \in [Job -> WorkerID \cup {NoWorker}]
    BY <1>2 DEF Return, TypeOK
  <2>4. river' \in [Job -> {"none", "available", "running", "completed", "discarded"}]
    BY <1>2 DEF Return, RetryOrDiscard, TypeOK
  <2>5. QED BY <1>2, <2>1, <2>2, <2>3, <2>4 DEF Return, TypeOK
<1>3. CASE Rescue(j)
  <2>1. river' \in [Job -> {"none", "available", "running", "completed", "discarded"}]
    BY <1>3 DEF Rescue, RetryOrDiscard, TypeOK
  <2>2. QED BY <1>3, <2>1 DEF Rescue, TypeOK, RegistryTypeOK
<1>4. QED
  BY <1>1, <1>2, <1>3 DEF RiverStep

\* Every step of the gateway keeps the types.
LEMMA GatewayStepType ==
  ASSUME TypeOK, NEW j \in Job, GatewayStep(j)
  PROVE  TypeOK'
<1> USE DEF TypeOK, RegistryTypeOK, JobState
<1>1. CASE SaveJob(j)      BY <1>1 DEF SaveJob
<1>2. CASE Enqueue(j)      BY <1>2 DEF Enqueue
<1>3. CASE CancelRead(j)   BY <1>3 DEF CancelRead
<1>4. CASE CancelWrite(j)  BY <1>4 DEF CancelWrite
<1>5. QED
  BY <1>1, <1>2, <1>3, <1>4 DEF GatewayStep

\* Every step of a run and every statement of the results handler keeps the types.
LEMMA ResultStepType ==
  ASSUME TypeOK,
         \/ \E j \in Job, a \in Attempt : RunStep(j, a)
         \/ \E p \in posts : ResultsStep(p)
  PROVE  TypeOK'
<1>1. ASSUME NEW j \in Job, NEW a \in Attempt, RunEngine(j, a)
      PROVE  TypeOK'
  <2>1. done[j][a] + 1 \in Engine /\ done[j][a] + 1 \in 0..NumEngines
    BY <1>1, ConstantsAssumption DEF RunEngine, TypeOK, Engine
  <2>2. posts' \subseteq Post
    BY <1>1, <2>1 DEF RunEngine, TypeOK, Post
  <2>3. done' \in [Job -> [Attempt -> 0..NumEngines]]
    BY <1>1, <2>1, NestedExcept DEF RunEngine, TypeOK
  <2>4. QED BY <1>1, <2>2, <2>3 DEF RunEngine, TypeOK, RegistryTypeOK
<1>2. ASSUME NEW j \in Job, NEW a \in Attempt, RunCompletes(j, a) \/ RunFails(j, a)
      PROVE  TypeOK'
  <2>1. run' \in [Job -> [Attempt -> {"none", "running", "completed", "failed", "lost"}]]
    <3>1. CASE RunCompletes(j, a)
      BY <3>1, NestedExcept DEF RunCompletes, TypeOK
    <3>2. CASE RunFails(j, a)
      BY <3>2, NestedExcept DEF RunFails, TypeOK
    <3>3. QED BY <1>2, <3>1, <3>2
  <2>2. QED BY <1>2, <2>1 DEF RunCompletes, RunFails, TypeOK, RegistryTypeOK
<1>3. ASSUME NEW p \in posts, ResultsStep(p)
      PROVE  TypeOK'
  <2>1. p \in Post
    BY DEF TypeOK
  <2>2. p.job \in Job /\ p.eng \in Engine /\ Stored(p) \in Post
    BY <2>1 DEF Post, Stored
  <2>3. CASE ResultsWrite(p)
    <3>1. posts' \subseteq Post
      BY <2>2, <2>3 DEF ResultsWrite, TypeOK
    <3>2. results' \in [Job -> SUBSET Engine]
      <4>1. [results EXCEPT ![p.job] = @ \cup {p.eng}] \in [Job -> SUBSET Engine]
        BY <2>2, GrowExcept DEF TypeOK
      <4>2. QED BY <2>3, <4>1 DEF ResultsWrite, TypeOK
    <3>3. QED BY <2>3, <3>1, <3>2 DEF ResultsWrite, TypeOK, RegistryTypeOK
  <2>4. CASE ResultsComplete(p)
    <3>1. row' \in [Job -> JobState \cup {"none"}]
      BY <2>2, <2>4 DEF ResultsComplete, TypeOK, JobState
    <3>2. recs' \in [Job -> SUBSET Engine]
      <4>1. [recs EXCEPT ![p.job] = @ \cup {p.eng}] \in [Job -> SUBSET Engine]
        BY <2>2, GrowExcept DEF TypeOK
      <4>2. QED BY <2>4, <4>1 DEF ResultsComplete, TypeOK
    <3>3. posts' \subseteq Post
      BY <2>4 DEF ResultsComplete, TypeOK
    <3>4. QED BY <2>4, <3>1, <3>2, <3>3 DEF ResultsComplete, TypeOK, RegistryTypeOK
  <2>5. QED BY <1>3, <2>3, <2>4 DEF ResultsStep
<1>4. QED
  BY <1>1, <1>2, <1>3 DEF RunStep

\* Every step of a Python process, of the eviction and a crash keep the types.
LEMMA ProcessStepType ==
  ASSUME TypeOK, (\E w \in WorkerID : ProcessStep(w)) \/ Evict \/ Crash
  PROVE  TypeOK'
<1>1. ASSUME NEW w \in WorkerID, StartProcess(w) PROVE TypeOK'
  <2>1. RegistryTypeOK'
    BY <1>1 DEF StartProcess, Register, TypeOK, RegistryTypeOK, WorkerStatus
  <2>2. QED BY <1>1, <2>1 DEF StartProcess, TypeOK
<1>2. ASSUME NEW w \in WorkerID, RetryRegister(w) PROVE TypeOK'
  BY <1>2 DEF RetryRegister, Register, TypeOK, RegistryTypeOK, WorkerStatus
<1>3. ASSUME NEW w \in WorkerID, Serve(w) PROVE TypeOK'
  BY <1>3 DEF Serve, TypeOK, RegistryTypeOK
<1>4. ASSUME NEW w \in WorkerID, Die(w) PROVE TypeOK'
  <2>1. run' \in [Job -> [Attempt -> {"none", "running", "completed", "failed", "lost"}]]
    BY <1>4 DEF Die, TypeOK
  <2>2. QED BY <1>4, <2>1 DEF Die, TypeOK, RegistryTypeOK
<1>5. ASSUME NEW w \in WorkerID, SendHeartbeat(w) PROVE TypeOK'
  BY <1>5 DEF SendHeartbeat, Heartbeat, TypeOK, RegistryTypeOK, WorkerStatus
<1>6. CASE Evict
  BY <1>6 DEF Evict, EvictStale, TypeOK, RegistryTypeOK, WorkerStatus
<1>7. CASE Crash
  BY <1>7 DEF Crash, TypeOK, RegistryTypeOK, WorkerStatus, WorkPC
<1>8. QED
  BY <1>1, <1>2, <1>3, <1>4, <1>5, <1>6, <1>7 DEF ProcessStep

\* Every variable keeps its type in every step.
LEMMA TypeStep == TypeOK /\ AttemptsLeft /\ ActiveAttempt /\ [Next]_vars => TypeOK'
<1> SUFFICES ASSUME TypeOK, AttemptsLeft, ActiveAttempt, [Next]_vars PROVE TypeOK'
  OBVIOUS
<1>1. CASE UNCHANGED vars
  BY <1>1 DEF vars, TypeOK, RegistryTypeOK
<1>2. QED
  BY <1>1, GatewayStepType, RiverStepType, WorkStepType, ResultStepType, ProcessStepType
     DEF Next

-----------------------------------------------------------------------------
(* What a step can do to one job: to its row, its runs and its attempt.     *)

SameRuns(j) == \A a \in Attempt : run'[j][a] = "none" <=> run[j][a] = "none"

RowEffect(j) ==
  \/ row'[j] = row[j]
  \/ create[j] = "none" /\ row'[j] = "pending"
  \/ cancel[j] = "checked" /\ row'[j] = "cancelled"
  \/ pc[j] = "writeRunning" /\ row'[j] = "running" /\ pc'[j] \in {"select", "returnErr"}
  \/ pc[j] = "writeFailed" /\ row'[j] = "failed" /\ pc'[j] = "returnErr"
  \/ pc[j] = "writeCollecting" /\ row'[j] = "collecting" /\ pc'[j] \in {"poll", "returnErr"}
  \/ row'[j] = "completed" /\ \E p \in posts : p.job = j /\ p.stage = "complete"

RunEffect(j) ==
  \/ SameRuns(j)
  \/ /\ pc[j] = "dispatch" /\ pc'[j] \in {"readCollecting", "readFailed"}
     /\ row'[j] = row[j]
     /\ \A a \in Attempt : run'[j][a] = IF a = attempt[j] THEN "running" ELSE run[j][a]

\* The steps of Work that leave the row and the runs of the job alone.
QuietMove(j) ==
  \/ pc[j] = "idle" /\ pc'[j] = "readRunning"
  \/ pc[j] = "readRunning" /\ row[j] = "pending" /\ pc'[j] = "writeRunning"
  \/ pc[j] = "readRunning" /\ row[j] = "running" /\ pc'[j] = "select"
  \/ /\ pc[j] = "readRunning" /\ pc'[j] = "returnErr"
     /\ Fault("db") \/ row[j] \notin {"pending", "running"}
  \/ pc[j] = "select" /\ pc'[j] \in {"markBusy", "returnErr"}
  \/ pc[j] = "markBusy" /\ pc'[j] = "dispatch"
  \/ pc[j] = "dispatch" /\ pc'[j] = "readFailed"
  \/ pc[j] = "readFailed" /\ pc'[j] = "writeFailed"
  \/ /\ pc[j] = "readFailed" /\ pc'[j] = "returnErr"
     /\ Fault("db") \/ row[j] \notin {"running", "collecting", "analyzing"}
  \/ pc[j] = "readCollecting" /\ pc'[j] = "writeCollecting"
  \/ /\ pc[j] = "readCollecting" /\ pc'[j] = "returnErr"
     /\ Fault("db") \/ row[j] # "running"
  \/ pc[j] = "poll" /\ pc'[j] \in {"returnOk", "returnErr"}
  \/ pc'[j] = "idle" /\ (pc[j] \in {"returnOk", "returnErr"} \/ Fault("crash"))

\* The steps of Work that write the row.
WriteMove(j) ==
  \/ pc[j] = "writeRunning" /\ pc'[j] = "select" /\ row'[j] = "running"
  \/ pc[j] = "writeFailed" /\ pc'[j] = "returnErr" /\ row'[j] = "failed"
  \/ pc[j] = "writeCollecting" /\ pc'[j] = "poll" /\ row'[j] = "collecting"
  \/ /\ pc[j] \in {"writeRunning", "writeFailed", "writeCollecting"}
     /\ pc'[j] = "returnErr" /\ Fault("db")

AttemptEffect(j) ==
  \/ pc'[j] = pc[j]
  \/ row'[j] = row[j] /\ SameRuns(j) /\ QuietMove(j)
  \/ SameRuns(j) /\ WriteMove(j)
  \/ pc[j] = "dispatch" /\ pc'[j] \in {"readCollecting", "readFailed"} /\ row'[j] = row[j]

Effect(j) == RowEffect(j) /\ RunEffect(j) /\ AttemptEffect(j)

\* The edges that end in the three states Work writes.
LEMMA Edges ==
  /\ \A s : ValidTransition(s, "running") <=> s = "pending"
  /\ \A s : ValidTransition(s, "failed") <=> s \in {"running", "collecting", "analyzing"}
  /\ \A s : ValidTransition(s, "collecting") <=> s = "running"
BY DEF ValidTransition, validTransitions

\* Every step of the system has one of these effects on every job.
LEMMA StepEffect ==
  ASSUME PipelineInv, [Next]_vars, NEW k \in Job
  PROVE  Effect(k)
<1> USE DEF PipelineInv, TypeOK
<1> USE DEF Effect, RowEffect, RunEffect, AttemptEffect, SameRuns
<1>1. ASSUME NEW j \in Job, GatewayStep(j) PROVE Effect(k)
  BY <1>1 DEF GatewayStep, SaveJob, Enqueue, CancelRead, CancelWrite
<1>2. ASSUME NEW j \in Job, RiverStep(j) PROVE Effect(k)
  <2>1. CASE WorkStart(j)
    <3>1. pc[j] = "idle"
      BY <2>1 DEF WorkStart, ActiveAttempt
    <3>2. QED BY <2>1, <3>1 DEF WorkStart, QuietMove
  <2>2. CASE Return(j)
    BY <2>2 DEF Return, QuietMove
  <2>3. CASE Rescue(j)
    BY <2>3 DEF Rescue
  <2>4. QED BY <1>2, <2>1, <2>2, <2>3 DEF RiverStep
<1>3. ASSUME NEW j \in Job, WorkStep(j) PROVE Effect(k)
  <2> USE DEF Goto
  <2>1. CASE ReadRunning(j)
    BY <2>1, Edges DEF ReadRunning, CheckTransition, QuietMove
  <2>2. CASE ReadFailed(j)
    BY <2>2, Edges DEF ReadFailed, CheckTransition, QuietMove
  <2>3. CASE ReadCollecting(j)
    BY <2>3, Edges DEF ReadCollecting, CheckTransition, QuietMove
  <2>4. CASE WriteRunning(j)
    BY <2>4 DEF WriteRunning, WriteState, WriteMove
  <2>5. CASE WriteFailed(j)
    BY <2>5 DEF WriteFailed, WriteState, WriteMove
  <2>6. CASE WriteCollecting(j)
    BY <2>6 DEF WriteCollecting, WriteState, WriteMove
  <2>7. CASE Select(j) \/ SetBusy(j)
    BY <2>7 DEF Select, SetBusy, QuietMove
  <2>8. CASE DispatchFails(j) \/ DispatchMisread(j) \/ Poll(j) \/ PollTimeout(j)
    BY <2>8 DEF DispatchFails, DispatchMisread, Poll, PollTimeout, QuietMove
  <2>9. CASE Dispatch(j)
    BY <2>9 DEF Dispatch
  <2>10. QED
    BY <1>3, <2>1, <2>2, <2>3, <2>4, <2>5, <2>6, <2>7, <2>8, <2>9 DEF WorkStep
<1>4. ASSUME NEW j \in Job, NEW a \in Attempt, RunStep(j, a) PROVE Effect(k)
  <2>1. run[j][a] = "running"
    BY <1>4 DEF RunStep, RunEngine, RunCompletes, RunFails, AtEngineBoundary
  <2>2. QED BY <1>4, <2>1 DEF RunStep, RunEngine, RunCompletes, RunFails
<1>5. ASSUME NEW p \in posts, ResultsStep(p) PROVE Effect(k)
  <2>1. p.job \in Job
    BY DEF Post
  <2>2. QED BY <1>5, <2>1 DEF ResultsStep, ResultsWrite, ResultsComplete
<1>6. ASSUME NEW w \in WorkerID, ProcessStep(w) PROVE Effect(k)
  BY <1>6 DEF ProcessStep, StartProcess, RetryRegister, Serve, Die, SendHeartbeat
<1>7. CASE Evict
  BY <1>7 DEF Evict
<1>8. CASE Crash
  BY <1>8 DEF Crash, QuietMove
<1>9. CASE UNCHANGED vars
  BY <1>9 DEF vars
<1>10. QED
  BY <1>1, <1>2, <1>3, <1>4, <1>5, <1>6, <1>7, <1>8, <1>9 DEF Next

-----------------------------------------------------------------------------
(* Each conjunct of the invariant is kept by every step.                    *)

\* A result in flight belongs to a job that was dispatched, so its row exists.
LEMMA PostOfJob ==
  ASSUME PipelineInv, NEW p \in posts
  PROVE  /\ p.job \in Job /\ p.att \in Attempt /\ p.eng \in Engine
         /\ Dispatched(p.job)
         /\ row[p.job] \notin {"none", "pending"}
<1>1. p.job \in Job /\ p.att \in Attempt /\ p.eng \in Engine
  BY DEF PipelineInv, TypeOK, Post
<1>2. Dispatched(p.job)
  BY <1>1 DEF PipelineInv, PostsComeFromRuns, Dispatched
<1>3. QED BY <1>1, <1>2 DEF PipelineInv, PendingIsUndispatched

\* CreateJob, River and the attempts are in step with each other.
LEMMA BookkeepingStep ==
  ASSUME PipelineInv, [Next]_vars
  PROVE  AttemptsLeft' /\ ActiveAttempt' /\ RowComesFirst'
<1> USE ConstantsAssumption
    DEF PipelineInv, TypeOK, AttemptsLeft, ActiveAttempt, RowComesFirst, Attempt
<1> DEFINE Goal == AttemptsLeft' /\ ActiveAttempt' /\ RowComesFirst'
<1>1. ASSUME NEW j \in Job, GatewayStep(j) PROVE Goal
  <2>1. CASE SaveJob(j)      BY <2>1 DEF SaveJob
  <2>2. CASE Enqueue(j)      BY <2>2 DEF Enqueue
  <2>3. CASE CancelRead(j)   BY <2>3 DEF CancelRead
  <2>4. CASE CancelWrite(j)  BY <2>4 DEF CancelWrite
  <2>5. QED BY <1>1, <2>1, <2>2, <2>3, <2>4 DEF GatewayStep
<1>2. ASSUME NEW j \in Job, RiverStep(j) PROVE Goal
  <2>1. CASE WorkStart(j)    BY <2>1 DEF WorkStart
  <2>2. CASE Return(j)
    <3>1. river[j] = "running" /\ attempt[j] \in Attempt /\ create[j] = "done"
      BY <2>2 DEF Return
    <3>2. /\ UNCHANGED <<row, create, cancel, attempt>>
          /\ pc' = [pc EXCEPT ![j] = "idle"]
      BY <2>2 DEF Return
    <3>3. \E s \in {"completed", "available", "discarded"} :
            /\ river' = [river EXCEPT ![j] = s]
            /\ s = "available" => attempt[j] < MaxAttempts
      BY <2>2 DEF Return, RetryOrDiscard
    <3>4. QED BY <3>1, <3>2, <3>3
  <2>3. CASE Rescue(j)       BY <2>3 DEF Rescue, RetryOrDiscard
  <2>4. QED BY <1>2, <2>1, <2>2, <2>3 DEF RiverStep
<1>3. ASSUME NEW j \in Job, WorkStep(j) PROVE Goal
  <2>1. /\ UNCHANGED <<river, attempt, create, cancel>>
        /\ pc[j] # "idle" /\ \A k \in Job \ {j} : pc'[k] = pc[k]
    BY <1>3 DEF WorkStep, ReadRunning, WriteRunning, Select, SetBusy, Dispatch,
                DispatchFails, DispatchMisread,
                ReadFailed, WriteFailed, ReadCollecting, WriteCollecting, Poll, PollTimeout,
                CheckTransition, WriteState, Goto
  <2>2. \A k \in Job : row'[k] = "none" <=> row[k] = "none"
    <3>1. UNCHANGED row \/ WriteRunning(j) \/ WriteFailed(j) \/ WriteCollecting(j)
      BY <1>3 DEF WorkStep, ReadRunning, Select, SetBusy, Dispatch, DispatchFails, DispatchMisread,
                  ReadFailed, ReadCollecting, Poll, PollTimeout, CheckTransition
    <3>2. row[j] # "none"
      BY <2>1
    <3>3. QED BY <3>1, <3>2 DEF WriteRunning, WriteFailed, WriteCollecting, WriteState
  <2>3. QED BY <2>1, <2>2
<1>4. ASSUME NEW j \in Job, NEW a \in Attempt, RunStep(j, a) PROVE Goal
  BY <1>4 DEF RunStep, RunEngine, RunCompletes, RunFails
<1>5. ASSUME NEW p \in posts, ResultsStep(p) PROVE Goal
  <2>1. p.job \in Job /\ row[p.job] # "none"
    BY PostOfJob
  <2>2. QED BY <1>5, <2>1 DEF ResultsStep, ResultsWrite, ResultsComplete
<1>6. ASSUME NEW w \in WorkerID, ProcessStep(w) PROVE Goal
  BY <1>6 DEF ProcessStep, StartProcess, RetryRegister, Serve, Die, SendHeartbeat
<1>7. CASE Evict
  BY <1>7 DEF Evict
<1>8. CASE Crash
  BY <1>8 DEF Crash
<1>9. CASE UNCHANGED vars
  BY <1>9 DEF vars
<1>10. QED
  BY <1>1, <1>2, <1>3, <1>4, <1>5, <1>6, <1>7, <1>8, <1>9 DEF Next

\* A job is dispatched by its first step out of "pending" and not before.
LEMMA PendingStep ==
  ASSUME PipelineInv, [Next]_vars
  PROVE  PendingIsUndispatched'
<1> SUFFICES ASSUME NEW j \in Job
             PROVE  /\ row'[j] \in {"none", "pending"} => ~Dispatched(j)'
                    /\ pc'[j] = "writeRunning"
                         => row'[j] \in {"pending", "cancelled"} /\ ~Dispatched(j)'
                    /\ pc'[j] \notin {"idle", "readRunning", "writeRunning", "returnErr"}
                         => row'[j] \notin {"none", "pending"}
  BY DEF PendingIsUndispatched
<1>1. Effect(j)
  BY StepEffect
<1>2. /\ row[j] \in {"none", "pending"} => ~Dispatched(j)
      /\ pc[j] = "writeRunning" => row[j] \in {"pending", "cancelled"} /\ ~Dispatched(j)
      /\ pc[j] \notin {"idle", "readRunning", "writeRunning", "returnErr"}
           => row[j] \notin {"none", "pending"}
      /\ row[j] = "none" <=> create[j] = "none"
      /\ cancel[j] = "checked" => row[j] # "none"
      /\ pc[j] # "idle" => row[j] # "none"
  BY DEF PipelineInv, PendingIsUndispatched, RowComesFirst, ActiveAttempt
<1>3. (\E p \in posts : p.job = j) => Dispatched(j)
  BY PostOfJob
<1>4. SameRuns(j) => (Dispatched(j)' <=> Dispatched(j))
  BY DEF SameRuns, Dispatched
<1>5. CASE SameRuns(j)
  <2>1. CASE row'[j] = row[j]
    BY <1>1, <1>2, <1>4, <1>5, <2>1 DEF Effect, AttemptEffect, QuietMove, WriteMove
  <2>2. CASE row'[j] # row[j]
    BY <1>1, <1>2, <1>3, <1>4, <1>5, <2>2 DEF Effect, RowEffect, AttemptEffect, WriteMove
  <2>3. QED BY <2>1, <2>2
<1>6. CASE ~SameRuns(j)
  BY <1>1, <1>2, <1>6 DEF Effect, RunEffect
<1>7. QED BY <1>5, <1>6

\* A result in flight keeps its run, and past the first statement of the handler its
\* measurement stays stored.
LEMMA PostsStep ==
  ASSUME PipelineInv, [Next]_vars
  PROVE  PostsComeFromRuns' /\ \A j \in Job : results[j] \subseteq results'[j]
<1> DEFINE Goal == PostsComeFromRuns' /\ \A j \in Job : results[j] \subseteq results'[j]
<1> USE DEF PostsComeFromRuns
<1>1. \A j \in Job, a \in Attempt : run[j][a] # "none" => run'[j][a] # "none"
  <2> SUFFICES ASSUME NEW j \in Job, NEW a \in Attempt, run[j][a] # "none"
               PROVE  run'[j][a] # "none"
    OBVIOUS
  <2>1. CASE SameRuns(j)
    BY <2>1 DEF SameRuns
  <2>2. CASE ~SameRuns(j)
    BY <2>2, StepEffect DEF Effect, RunEffect
  <2>3. QED BY <2>1, <2>2
<1>2. \A p \in posts : p.job \in Job /\ p.att \in Attempt /\ p.eng \in Engine
  BY PostOfJob
<1>3. CASE UNCHANGED <<posts, results>>
  BY <1>1, <1>2, <1>3 DEF PipelineInv
<1>4. ASSUME NEW j \in Job, NEW a \in Attempt, RunEngine(j, a) PROVE Goal
  <2> DEFINE new == [job |-> j, att |-> a, eng |-> done[j][a] + 1, stage |-> "write"]
  <2>1. run[j][a] = "running" /\ UNCHANGED <<run, results>>
    BY <1>4 DEF RunEngine, AtEngineBoundary
  <2>2. posts' \subseteq posts \cup {new}
    BY <1>4 DEF RunEngine
  <2>3. new.job = j /\ new.att = a /\ new.stage = "write"
    OBVIOUS
  <2>4. \A p \in posts' : p \in posts \/ p = new
    BY <2>2
  <2>5. QED BY <1>1, <1>2, <2>1, <2>3, <2>4 DEF PipelineInv
<1>5. ASSUME NEW q \in posts, ResultsStep(q) PROVE Goal
  <2>1. /\ Stored(q).job = q.job /\ Stored(q).att = q.att
        /\ Stored(q).eng = q.eng /\ Stored(q).stage = "complete"
    BY DEF Stored
  <2>2. UNCHANGED run
    BY <1>5 DEF ResultsStep, ResultsWrite, ResultsComplete
  <2>3. \A p \in posts' : p \in posts \/ (p = Stored(q) /\ q.eng \in results'[q.job])
    BY <1>2, <1>5 DEF ResultsStep, ResultsWrite, ResultsComplete, PipelineInv, TypeOK
  <2>4. \A j \in Job : results[j] \subseteq results'[j]
    BY <1>2, <1>5 DEF ResultsStep, ResultsWrite, ResultsComplete, PipelineInv, TypeOK
  <2>5. ASSUME NEW p \in posts'
        PROVE  run'[p.job][p.att] # "none" /\ (p.stage = "complete" => p.eng \in results'[p.job])
    <3>1. CASE p \in posts
      BY <1>2, <2>2, <2>4, <3>1 DEF PipelineInv
    <3>2. CASE p = Stored(q) /\ q.eng \in results'[q.job]
      BY <2>1, <2>2, <3>2 DEF PipelineInv
    <3>3. QED BY <2>3, <3>1, <3>2
  <2>6. QED BY <2>4, <2>5
<1>6. CASE Crash
  BY <1>6 DEF Crash
<1>7. QED
  BY <1>3, <1>4, <1>5, <1>6
     DEF Next, vars, GatewayStep, SaveJob, Enqueue, CancelRead, CancelWrite,
         RiverStep, WorkStart, Return, Rescue, WorkStep, ReadRunning, WriteRunning, Select,
         SetBusy, Dispatch, DispatchFails, DispatchMisread, ReadFailed, WriteFailed, ReadCollecting,
         WriteCollecting, Poll, PollTimeout, CheckTransition, WriteState, RunStep,
         RunCompletes, RunFails, ProcessStep, StartProcess, RetryRegister, Serve, Die, SendHeartbeat,
         Evict

\* The row says "completed" only once a result is stored.
LEMMA CompletedStep ==
  ASSUME PipelineInv, [Next]_vars
  PROVE  CompletedHasResult'
<1> SUFFICES ASSUME NEW j \in Job, row'[j] = "completed" PROVE results'[j] # {}
  BY DEF CompletedHasResult
<1>1. results[j] # {}
  <2>1. RowEffect(j)
    BY StepEffect DEF Effect
  <2>2. CASE row[j] = "completed"
    BY <2>2 DEF PipelineInv, CompletedHasResult
  <2>3. CASE \E p \in posts : p.job = j /\ p.stage = "complete"
    BY <2>3 DEF PipelineInv, PostsComeFromRuns
  <2>4. QED BY <2>1, <2>2, <2>3 DEF RowEffect
<1>2. QED BY <1>1, PostsStep

\* The registry and the attempts agree on who holds a busy worker.
LEMMA BusyStep ==
  ASSUME PipelineInv, [Next]_vars
  PROVE  BusyWorkerIsHeldByItsJob'
<1> USE ConstantsAssumption, NoJobAssumption
    DEF PipelineInv, TypeOK, RegistryTypeOK, BusyWorkerIsHeldByItsJob
<1>1. CASE UNCHANGED <<status, currentJob, held, pc>>
  BY <1>1
<1>2. ASSUME NEW j \in Job, WorkStart(j) PROVE BusyWorkerIsHeldByItsJob'
  BY <1>2 DEF WorkStart, ActiveAttempt
<1>3. ASSUME NEW j \in Job, Return(j) PROVE BusyWorkerIsHeldByItsJob'
  BY <1>3 DEF Return, Release, MarkIdle
<1>4. ASSUME NEW j \in Job, SetBusy(j) PROVE BusyWorkerIsHeldByItsJob'
  BY <1>4 DEF SetBusy, MarkBusy, Goto
<1>5. ASSUME NEW j \in Job, Select(j) PROVE BusyWorkerIsHeldByItsJob'
  BY <1>5 DEF Select, Goto
<1>6. ASSUME NEW j \in Job, ReadRunning(j) \/ WriteRunning(j) PROVE BusyWorkerIsHeldByItsJob'
  BY <1>6 DEF ReadRunning, WriteRunning, CheckTransition, WriteState, Goto
<1>7. ASSUME NEW j \in Job,
             \/ ReadFailed(j) \/ WriteFailed(j) \/ ReadCollecting(j) \/ WriteCollecting(j)
             \/ Dispatch(j) \/ DispatchFails(j) \/ DispatchMisread(j) \/ Poll(j) \/ PollTimeout(j)
      PROVE  BusyWorkerIsHeldByItsJob'
  <2>1. /\ UNCHANGED <<status, currentJob, held>>
        /\ pc[j] \notin {"idle", "readRunning", "writeRunning", "select"}
        /\ \E label \in {"writeFailed", "returnErr", "writeCollecting", "poll", "readFailed",
                         "readCollecting", "returnOk"} : pc' = [pc EXCEPT ![j] = label]
    BY <1>7 DEF ReadFailed, WriteFailed, ReadCollecting, WriteCollecting, Dispatch,
                DispatchFails, DispatchMisread, Poll, PollTimeout, CheckTransition, WriteState, Goto
  <2>2. QED BY <2>1
<1>8. ASSUME NEW w \in WorkerID, ProcessStep(w) PROVE BusyWorkerIsHeldByItsJob'
  <2>1. UNCHANGED <<held, pc>>
    BY <1>8 DEF ProcessStep, StartProcess, RetryRegister, Serve, Die, SendHeartbeat
  <2>2. \A v \in WorkerID :
          status'[v] = "busy" => status[v] = "busy" /\ currentJob'[v] = currentJob[v]
    BY <1>8 DEF ProcessStep, StartProcess, RetryRegister, Serve, Die, SendHeartbeat,
                Register, Heartbeat
  <2>3. QED BY <2>1, <2>2
<1>9. CASE Evict
  BY <1>9 DEF Evict, EvictStale
<1>10. CASE Crash
  BY <1>10 DEF Crash
<1>11. QED
  BY <1>1, <1>2, <1>3, <1>4, <1>5, <1>6, <1>7, <1>8, <1>9, <1>10
     DEF Next, vars, GatewayStep, SaveJob, Enqueue, CancelRead, CancelWrite, RiverStep, Rescue,
         WorkStep, RunStep, RunEngine, RunCompletes, RunFails, ResultsStep, ResultsWrite,
         ResultsComplete

\* Between attempts a row past "running" stays past "running", and nothing is dispatched.
LEMMA SettledStep ==
  ASSUME PipelineInv, [Next]_vars, NEW j \in Job, Settled(j)
  PROVE  Settled(j)' /\ SameRuns(j)
<1>1. Effect(j)
  BY StepEffect
<1>2. /\ row[j] \notin {"none", "pending", "running"}
      /\ pc[j] \in {"idle", "readRunning", "returnOk", "returnErr"}
      /\ create[j] # "none"
  BY DEF Settled, PipelineInv, RowComesFirst
<1>3. SameRuns(j)
  BY <1>1, <1>2 DEF Effect, RunEffect
<1>4. row'[j] \notin {"none", "pending", "running"}
  BY <1>1, <1>2 DEF Effect, RowEffect
<1>5. pc'[j] \in {"idle", "readRunning", "returnOk", "returnErr"}
  BY <1>1, <1>2 DEF Effect, AttemptEffect, QuietMove, WriteMove
<1>6. QED BY <1>3, <1>4, <1>5 DEF Settled

\* Without SQL errors and crashes, a dispatched job ends up settled, so that it is
\* dispatched once.
LEMMA SettlesStep ==
  ASSUME PipelineInv, [Next]_vars
  PROVE  DispatchSettles' /\ AtMostOneRun'
<1> SUFFICES ASSUME Faults \cap {"db", "crash"} = {}, NEW j \in Job
             PROVE  /\ Dispatched(j)' =>
                         \/ Settled(j)'
                         \/ pc'[j] \in {"readFailed", "writeFailed", "readCollecting",
                                        "writeCollecting"}
                         \/ pc'[j] = "poll" /\ row'[j] \notin {"none", "pending", "running"}
                    /\ \A a, b \in Attempt :
                         run'[j][a] # "none" /\ run'[j][b] # "none" => a = b
  BY DEF DispatchSettles, AtMostOneRun
<1>1. Effect(j) /\ ~Fault("db") /\ ~Fault("crash")
  BY StepEffect DEF Fault
<1>2. Dispatched(j) =>
        \/ Settled(j)
        \/ pc[j] \in {"readFailed", "writeFailed", "readCollecting", "writeCollecting"}
        \/ pc[j] = "poll" /\ row[j] \notin {"none", "pending", "running"}
  BY DEF PipelineInv, DispatchSettles
<1>3. \A a, b \in Attempt : run[j][a] # "none" /\ run[j][b] # "none" => a = b
  BY DEF PipelineInv, AtMostOneRun
<1>4. CASE ~SameRuns(j)
  <2>1. /\ pc[j] = "dispatch" /\ pc'[j] \in {"readCollecting", "readFailed"}
        /\ \A a \in Attempt : run'[j][a] = IF a = attempt[j] THEN "running" ELSE run[j][a]
    BY <1>1, <1>4 DEF Effect, RunEffect
  <2>2. \A a \in Attempt : run[j][a] = "none"
    BY <1>2, <2>1 DEF Settled, Dispatched
  <2>3. QED BY <2>1, <2>2
<1>5. CASE SameRuns(j)
  <2>1. Dispatched(j)' <=> Dispatched(j)
    BY <1>5 DEF SameRuns, Dispatched
  <2>2. \A a, b \in Attempt : run'[j][a] # "none" /\ run'[j][b] # "none" => a = b
    BY <1>3, <1>5 DEF SameRuns
  <2>3. /\ create[j] # "none" \/ ~Dispatched(j)
        /\ pc[j] \in {"readFailed", "writeFailed", "readCollecting", "writeCollecting"}
             => row[j] \notin {"none", "pending"}
    BY DEF PipelineInv, RowComesFirst, PendingIsUndispatched
  <2>4. row'[j] = row[j] \/ row'[j] \in {"cancelled", "completed", "failed", "collecting"}
          \/ ~Dispatched(j)
    BY <1>1, <2>3 DEF Effect, RowEffect, PipelineInv, PendingIsUndispatched
  <2>5. CASE Dispatched(j) /\ ~Settled(j)
    <3>1. CASE pc'[j] = pc[j]
      BY <1>2, <2>2, <2>4, <2>5, <3>1
    <3>2. CASE pc'[j] # pc[j]
      <4>1. CASE pc[j] = "poll"
        BY <1>1, <1>2, <2>2, <2>5, <3>2, <4>1
           DEF Effect, AttemptEffect, QuietMove, WriteMove, Settled
      <4>2. CASE pc[j] \in {"writeFailed", "writeCollecting"}
        BY <1>1, <2>2, <3>2, <4>2 DEF Effect, AttemptEffect, QuietMove, WriteMove, Settled
      <4>3. CASE pc[j] \in {"readFailed", "readCollecting"}
        BY <1>1, <2>2, <2>3, <3>2, <4>3
           DEF Effect, AttemptEffect, QuietMove, WriteMove, Settled
      <4>4. QED BY <1>2, <2>5, <4>1, <4>2, <4>3
    <3>3. QED BY <3>1, <3>2
  <2>6. QED BY <2>1, <2>2, <2>5, SettledStep
<1>6. QED BY <1>4, <1>5

\* Every step of the system keeps the invariant.
LEMMA InvStep == PipelineInv /\ [Next]_vars => PipelineInv'
<1> SUFFICES ASSUME PipelineInv, [Next]_vars PROVE PipelineInv'
  OBVIOUS
<1>1. TypeOK'
  BY TypeStep DEF PipelineInv
<1>2. QED
  BY <1>1, BookkeepingStep, PendingStep, PostsStep, CompletedStep, BusyStep, SettlesStep
     DEF PipelineInv

-----------------------------------------------------------------------------
(* The results of a run.                                                    *)

\* Nothing but the worker's posts and the handler's statements touches what a run has
\* posted, and only a run past its last engine becomes completed.
LEMMA CollectingFrame ==
  ASSUME PipelineInv, [Next]_vars, ~Crash
  PROVE  \/ UNCHANGED <<done, posts, results>>
         \/ \E j \in Job, a \in Attempt : RunEngine(j, a)
         \/ \E p \in posts : ResultsStep(p)
BY DEF Next, vars, GatewayStep, SaveJob, Enqueue, CancelRead, CancelWrite,
       RiverStep, WorkStart, Return, Rescue, WorkStep, ReadRunning, WriteRunning, Select,
       SetBusy, Dispatch, DispatchFails, DispatchMisread, ReadFailed, WriteFailed, ReadCollecting,
       WriteCollecting, Poll, PollTimeout, CheckTransition, WriteState, RunStep,
       RunCompletes, RunFails, ProcessStep, StartProcess, RetryRegister, Serve, Die, SendHeartbeat,
       Evict

\* A run becomes completed in RunCompletes alone.
LEMMA CompletionFrame ==
  ASSUME PipelineInv, [Next]_vars, NEW j \in Job, NEW a \in Attempt, run'[j][a] = "completed"
  PROVE  run[j][a] = "completed" \/ RunCompletes(j, a)
<1> USE DEF PipelineInv, TypeOK
<1>1. CASE UNCHANGED run
  BY <1>1
<1>2. ASSUME NEW i \in Job, Dispatch(i) PROVE run[j][a] = "completed"
  <2>1. run' = [run EXCEPT ![i][attempt[i]] = "running"] /\ attempt[i] \in Attempt
    BY <1>2 DEF Dispatch, ActiveAttempt
  <2>2. QED BY <2>1
<1>3. ASSUME NEW i \in Job, NEW b \in Attempt, RunFails(i, b) PROVE run[j][a] = "completed"
  BY <1>3 DEF RunFails
<1>4. ASSUME NEW i \in Job, NEW b \in Attempt, RunCompletes(i, b)
      PROVE  run[j][a] = "completed" \/ RunCompletes(j, a)
  <2>1. CASE i = j /\ b = a
    BY <1>4, <2>1
  <2>2. CASE ~(i = j /\ b = a)
    <3>1. run' = [run EXCEPT ![i][b] = "completed"]
      BY <1>4 DEF RunCompletes
    <3>2. QED BY <2>2, <3>1
  <2>3. QED BY <2>1, <2>2
<1>5. ASSUME NEW w \in WorkerID, Die(w) PROVE run[j][a] = "completed"
  BY <1>5 DEF Die
<1>6. QED
  BY <1>1, <1>2, <1>3, <1>4, <1>5
     DEF Next, vars, GatewayStep, SaveJob, Enqueue, CancelRead, CancelWrite,
         RiverStep, WorkStart, Return, Rescue, WorkStep, ReadRunning, WriteRunning, Select,
         SetBusy, DispatchFails, DispatchMisread, ReadFailed, WriteFailed, ReadCollecting,
         WriteCollecting, Poll, PollTimeout, CheckTransition, WriteState, RunStep, RunEngine,
         ResultsStep, ResultsWrite, ResultsComplete,
         ProcessStep, StartProcess, RetryRegister, Serve, SendHeartbeat, Evict, Crash

\* The post of engine e by attempt a of job j is in the set ps.
InFlight(ps, j, a, e) == \E p \in ps : p.job = j /\ p.att = a /\ p.eng = e

\* What has been posted is stored once the post is gone, and a run that completes has no
\* post left.
LEMMA CollectingStep ==
  ASSUME PipelineInv, CollectingInv, [Next]_vars
  PROVE  CollectingInv'
<1> SUFFICES ASSUME Faults \cap {"db", "post", "crash"} = {}, NEW j \in Job, NEW a \in Attempt
             PROVE  /\ \A e \in 1..done'[j][a] : e \in results'[j] \/ InFlight(posts', j, a, e)
                    /\ run'[j][a] = "completed" => results'[j] = Engine
  BY DEF CollectingInv, PostedIsStored, CompletedRunHasAllResults, InFlight
<1>1. ~Fault("db") /\ ~Fault("post") /\ ~Fault("crash") /\ ~Crash
  BY DEF Fault, Crash
<1>2. \A e \in 1..done[j][a] : e \in results[j] \/ InFlight(posts, j, a, e)
  BY DEF CollectingInv, PostedIsStored, InFlight
<1>3. results[j] \subseteq results'[j]
  BY PostsStep
<1>4. done \in [Job -> [Attempt -> 0..NumEngines]] /\ results \in [Job -> SUBSET Engine]
  BY DEF PipelineInv, TypeOK
<1>5. \A e \in 1..done'[j][a] : e \in results'[j] \/ InFlight(posts', j, a, e)
  <2>1. CASE UNCHANGED <<done, posts, results>>
    BY <1>2, <2>1
  <2>2. ASSUME NEW i \in Job, NEW b \in Attempt, RunEngine(i, b),
               NEW e \in 1..done'[j][a]
        PROVE  e \in results'[j] \/ InFlight(posts', j, a, e)
    <3> DEFINE new == [job |-> i, att |-> b, eng |-> done[i][b] + 1, stage |-> "write"]
    <3>1. /\ done' = [done EXCEPT ![i][b] = done[i][b] + 1] /\ posts' = posts \cup {new}
          /\ UNCHANGED results
      BY <1>1, <2>2 DEF RunEngine
    <3>2. new.job = i /\ new.att = b /\ new.eng = done[i][b] + 1 /\ new \in posts'
      BY <3>1
    <3>3. done[j][a] \in Nat /\ (e \in 1..done[j][a] \/ (i = j /\ b = a /\ e = done[j][a] + 1))
      <4>1. done'[j][a] = IF i = j /\ b = a THEN done[j][a] + 1 ELSE done[j][a]
        BY <1>4, <3>1
      <4>2. done[j][a] \in Nat
        BY <1>4, ConstantsAssumption
      <4>3. QED BY <4>1, <4>2
    <3> HIDE DEF new
    <3>4. CASE e \in 1..done[j][a]
      BY <1>2, <3>1, <3>4 DEF InFlight
    <3>5. CASE i = j /\ b = a /\ e = done[j][a] + 1
      BY <3>2, <3>5 DEF InFlight
    <3>6. QED BY <3>3, <3>4, <3>5
  <2>3. ASSUME NEW q \in posts, ResultsStep(q), NEW e \in 1..done'[j][a]
        PROVE  e \in results'[j] \/ InFlight(posts', j, a, e)
    <3>1. UNCHANGED done
      BY <2>3 DEF ResultsStep, ResultsWrite, ResultsComplete
    <3>2. e \in results[j] \/ InFlight(posts, j, a, e)
      BY <1>2, <3>1
    <3>3. posts \subseteq posts' \cup {q}
      BY <2>3 DEF ResultsStep, ResultsWrite, ResultsComplete
    <3>4. q.job \in Job /\ q.eng \in results'[q.job]
      <4>1. q.job \in Job
        BY PostOfJob
      <4>2. CASE ResultsWrite(q)
        BY <1>1, <1>4, <4>1, <4>2 DEF ResultsWrite
      <4>3. CASE ResultsComplete(q)
        BY <4>1, <4>3 DEF ResultsComplete, PipelineInv, PostsComeFromRuns
      <4>4. QED BY <2>3, <4>1, <4>2, <4>3 DEF ResultsStep
    <3>5. QED BY <1>3, <3>2, <3>3, <3>4 DEF InFlight
  <2>4. QED BY <1>1, <2>1, <2>2, <2>3, CollectingFrame
<1>6. ASSUME run'[j][a] = "completed" PROVE results'[j] = Engine
  <2>1. results[j] = Engine
    <3>1. CASE run[j][a] = "completed"
      BY <3>1 DEF CollectingInv, CompletedRunHasAllResults
    <3>2. CASE RunCompletes(j, a)
      <4>1. done[j][a] = NumEngines /\ \A e : ~InFlight(posts, j, a, e)
        BY <1>1, <3>2 DEF RunCompletes, AtEngineBoundary, Posting, InFlight
      <4>2. Engine \subseteq results[j]
        BY <1>2, <4>1 DEF Engine
      <4>3. QED BY <1>4, <4>2
    <3>3. QED BY <1>6, <3>1, <3>2, CompletionFrame
  <2>2. results'[j] \subseteq Engine
    <3>1. TypeOK'
      BY InvStep DEF PipelineInv
    <3>2. QED BY <3>1 DEF TypeOK
  <2>3. QED BY <1>3, <2>1, <2>2
<1>7. QED BY <1>5, <1>6

-----------------------------------------------------------------------------
(* The theorems.                                                            *)

\* The invariant holds in every reachable state of the gateway, River, the orchestrator
\* and the Python workers together.
THEOREM Invariance == Spec => []PipelineInv
<1>1. Init => PipelineInv
  BY InitInv
<1>2. PipelineInv /\ [Next]_vars => PipelineInv'
  BY InvStep
<1>3. QED BY <1>1, <1>2, PTL DEF Spec

\* Every variable of the pipeline keeps its type; in particular River never starts more
\* than MaxAttempts attempts of a job.
THEOREM TypeCorrect == Spec => []TypeOK
<1>1. PipelineInv => TypeOK
  BY DEF PipelineInv
<1>2. QED BY <1>1, Invariance, PTL

\* Whatever River hands to Work has a row: CreateJob saves before it enqueues.
THEOREM QueuedJobsAreSaved == Spec => []QueuedJobHasRow
<1>1. PipelineInv => QueuedJobHasRow
  BY DEF PipelineInv, RowComesFirst, QueuedJobHasRow
<1>2. QED BY <1>1, Invariance, PTL

\* A job that reads "completed" has a stored result, under every combination of faults.
THEOREM CompletedJobsHaveResults == Spec => []CompletedHasResult
<1>1. PipelineInv => CompletedHasResult
  BY DEF PipelineInv
<1>2. QED BY <1>1, Invariance, PTL

\* A busy registry entry belongs to the attempt that will release it, although
\* SelectWorker and MarkBusy are two critical sections.
THEOREM NoWorkerIsLeaked == Spec => []BusyWorkerIsHeldByItsJob
<1>1. PipelineInv => BusyWorkerIsHeldByItsJob
  BY DEF PipelineInv
<1>2. QED BY <1>1, Invariance, PTL

\* Without SQL errors and crashes River's retries never benchmark a job twice.
THEOREM RetriesRunOnce == Spec => []AtMostOneRun
<1>1. PipelineInv => AtMostOneRun
  BY DEF PipelineInv
<1>2. QED BY <1>1, Invariance, PTL

\* No step puts a collected, completed or failed job back to "running", stale reads of
\* updateJobState included.
THEOREM FinishedJobsStayFinished == Spec => FinishedNeverReruns
<1> DEFINE Stays == \A j \in Job :
                      row[j] \in {"collecting", "completed", "failed"}
                        => row'[j] \notin {"none", "pending", "running"}
<1>1. ASSUME PipelineInv, [Next]_vars PROVE Stays
  <2> SUFFICES ASSUME NEW j \in Job, row[j] \in {"collecting", "completed", "failed"}
               PROVE  row'[j] \notin {"none", "pending", "running"}
    OBVIOUS
  <2>1. RowEffect(j)
    BY <1>1, StepEffect DEF Effect
  <2>2. create[j] # "none" /\ pc[j] # "writeRunning"
    BY <1>1 DEF PipelineInv, RowComesFirst, PendingIsUndispatched
  <2>3. QED BY <2>1, <2>2 DEF RowEffect
<1>2. QED BY <1>1, Invariance, PTL DEF Spec, FinishedNeverReruns

\* Between attempts, a job whose row is past "running" is never dispatched again,
\* whatever attempts River still has for it.
THEOREM SettledJobsAreNotDispatched == Spec => SettledIsNeverDispatched
<1> DEFINE Stays == \A j \in Job :
                      Settled(j) => /\ Settled(j)'
                                    /\ \A a \in Attempt :
                                         run[j][a] = "none" => run'[j][a] = "none"
<1>1. ASSUME PipelineInv, [Next]_vars PROVE Stays
  BY <1>1, SettledStep DEF SameRuns
<1>2. QED BY <1>1, Invariance, PTL DEF Spec, SettledIsNeverDispatched

\* A cancellation that lands before any dispatch and outside an attempt is final.
THEOREM EarlyCancellationsStick == Spec => EarlyCancelSticks
<1>1. ASSUME PipelineInv, [Next]_vars
      PROVE  \A j \in Job : CancelledEarly(j) => CancelledEarly(j)'
  <2> SUFFICES ASSUME NEW j \in Job, row[j] = "cancelled", Settled(j), ~Dispatched(j)
               PROVE  row'[j] = "cancelled" /\ Settled(j)' /\ ~Dispatched(j)'
    BY DEF CancelledEarly
  <2>1. RowEffect(j)
    BY <1>1, StepEffect DEF Effect
  <2>2. create[j] # "none" /\ pc[j] \in {"idle", "readRunning", "returnOk", "returnErr"}
    BY <1>1 DEF PipelineInv, RowComesFirst, Settled
  <2>3. ~ \E p \in posts : p.job = j
    BY <1>1, PostOfJob
  <2>4. row'[j] = "cancelled"
    BY <2>1, <2>2, <2>3 DEF RowEffect
  <2>5. Settled(j)' /\ SameRuns(j)
    BY <1>1, SettledStep
  <2>6. QED BY <2>4, <2>5 DEF SameRuns, Dispatched
<1>2. QED BY <1>1, Invariance, PTL DEF Spec, EarlyCancelSticks

\* When no post, no statement and no orchestrator fails, a run that is reported completed has
\* every result in the database: the worker awaits the answer to each post.
THEOREM CompletedRunsAreCollected == Spec => []CompletedRunHasAllResults
<1>1. Init => CollectingInv
  <2> SUFFICES ASSUME Init PROVE CollectingInv
    OBVIOUS
  <2>1. \A j \in Job, a \in Attempt : 1..done[j][a] = {} /\ run[j][a] # "completed"
    BY DEF Init
  <2>2. QED BY <2>1 DEF CollectingInv, PostedIsStored, CompletedRunHasAllResults
<1>2. PipelineInv /\ CollectingInv /\ [Next]_vars => CollectingInv'
  BY CollectingStep
<1>3. CollectingInv => CompletedRunHasAllResults
  BY DEF CollectingInv
<1>4. QED BY <1>1, <1>2, <1>3, Invariance, PTL DEF Spec
=============================================================================
