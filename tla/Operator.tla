------------------------------ MODULE Operator ------------------------------
(***************************************************************************)
(* The Kubernetes operator (cmd/operator) and one OptimizedInference:      *)
(* Reconcile call by call, between the API server with its resource        *)
(* versions, the informer cache it reads from, the work queue and a user   *)
(* who edits the resource.  One step is one call to a server.              *)
(*                                                                         *)
(* The server behind ORCHESTRATOR_URL is nobody's in particular: it        *)
(* answers a submission with an id, without one or with a refusal, and a   *)
(* question after a job with any state.  The repository's own servers      *)
(* refuse every submission: the orchestrator serves no /v1/jobs, and the   *)
(* gateway wants a token, answers 202 and says job_id.                     *)
(***************************************************************************)
EXTENDS Naturals, Sequences

CONSTANTS
  MaxEdits,   \* bound: edits of the spec
  MaxJobs,    \* bound: submissions answered with a job
  MaxRestarts \* bound: restarts of the operator

ASSUME OperatorAssumption == MaxEdits \in Nat /\ MaxJobs \in Nat /\ MaxRestarts \in Nat

VARIABLES
  obj,         \* the resource in the API server
  feed,        \* its versions the watch has still to deliver
  cache,       \* its version in the informer cache
  queued,      \* the work queue holds the resource
  pc,          \* the next call of Reconcile
  mem,         \* oi, the copy Reconcile works on
  again,       \* whether Reconcile returns an error or a requeue after its status update
  jobs,        \* submissions answered with a job so far
  deployment,  \* what the Deployment was rendered from
  dcache,      \* the Deployment in the informer cache
  restarts     \* restarts so far

serverVars    == <<obj, feed>>
reconcileVars == <<pc, mem, again>>
vars == <<serverVars, cache, queued, reconcileVars, jobs, deployment, dcache, restarts>>

None == [none |-> TRUE]

Phase == {"", "Pending", "Optimizing", "Deploying", "Running", "Failed"}

\* job = 0: status.benchmarkJobID is empty.  edition counts the user's edits, tuned says
\* that an optimization was applied to the spec.
Object == [phase : Phase, job : 0..jobs, edition : 0..MaxEdits, auto : BOOLEAN,
           tuned : BOOLEAN, rv : Nat]

Deployment == [edition : 0..MaxEdits, tuned : BOOLEAN]

TypeOK ==
  /\ obj \in Object /\ cache \in Object /\ mem \in Object \cup {None}
  /\ feed \in Seq(Object)
  /\ queued \in BOOLEAN
  /\ pc \in {"idle", "submit", "check", "results", "update", "deploy", "status"}
  /\ (pc = "idle") <=> (mem = None)
  /\ again \in {"always", "onError", "never"}
  /\ jobs \in 0..MaxJobs
  /\ deployment \in Deployment \cup {None} /\ dcache \in Deployment \cup {None}
  /\ restarts \in 0..MaxRestarts

Init ==
  /\ \E a \in BOOLEAN :
       obj = [phase |-> "", job |-> 0, edition |-> 0, auto |-> a, tuned |-> FALSE, rv |-> 0]
  /\ feed = << >> /\ cache = obj /\ queued = TRUE
  /\ pc = "idle" /\ mem = None /\ again = "always"
  /\ jobs = 0 /\ deployment = None /\ dcache = None /\ restarts = 0

-----------------------------------------------------------------------------
(* The API server, the watches and the user.                               *)

\* A write of o: one that changes nothing makes no new version.
Apply(o) ==
  IF o = obj THEN UNCHANGED serverVars
  ELSE /\ obj' = [o EXCEPT !.rv = @ + 1]
       /\ feed' = Append(feed, obj')

Edit(a) ==
  /\ obj.edition < MaxEdits
  /\ Apply([obj EXCEPT !.edition = @ + 1, !.auto = a])
  /\ UNCHANGED <<cache, queued, reconcileVars, jobs, deployment, dcache, restarts>>

Watch ==
  /\ feed # << >>
  /\ cache' = Head(feed) /\ feed' = Tail(feed) /\ queued' = TRUE
  /\ UNCHANGED <<obj, reconcileVars, jobs, deployment, dcache, restarts>>

\* Owns(Deployment): its events enqueue the resource.
WatchDeployment ==
  /\ dcache # deployment
  /\ dcache' = deployment /\ queued' = TRUE
  /\ UNCHANGED <<serverVars, cache, reconcileVars, jobs, deployment, restarts>>

\* Every ten hours the informers hand out everything again.
Resync ==
  /\ ~queued /\ queued' = TRUE
  /\ UNCHANGED <<serverVars, cache, reconcileVars, jobs, deployment, dcache, restarts>>

-----------------------------------------------------------------------------
(* Reconcile.                                                              *)

Return(requeue) ==
  /\ pc' = "idle" /\ mem' = None /\ again' = "always"
  /\ queued' = (queued \/ requeue)

\* Reconcile goes on to its status update, with o as oi.
ThenStatus(o, a) == pc' = "status" /\ mem' = o /\ again' = a

\* Mutant: a resource that failed is deployed as well.
StepDeployingFailed(o) ==
  IF o.phase = "" THEN "init"
  ELSE IF o.auto /\ o.job = 0 THEN "submit"
  ELSE IF o.phase = "Optimizing" THEN "check"
  ELSE IF o.phase \in {"Deploying", "Pending", "Failed"} THEN "deploy" ELSE "done"

\* The step the conditions of Reconcile select.
Step(o) ==
  IF o.phase = "" THEN "init"
  ELSE IF o.auto /\ o.job = 0 THEN "submit"
  ELSE IF o.phase = "Optimizing" THEN "check"
  ELSE IF o.phase \in {"Deploying", "Pending"} THEN "deploy" ELSE "done"

\* The resource is taken from the queue, and read from the cache.
Get ==
  /\ pc = "idle" /\ queued
  /\ queued' = FALSE
  /\ LET step == Step(cache) IN
     CASE step = "init" -> ThenStatus([cache EXCEPT !.phase = "Pending"], "always")
       [] step = "done" -> UNCHANGED reconcileVars
       [] OTHER         -> pc' = step /\ mem' = cache /\ UNCHANGED again
  /\ UNCHANGED <<serverVars, cache, jobs, deployment, dcache, restarts>>

\* submitBenchmarkJob: the answer is a job, whose id may be missing.
Submit ==
  /\ pc = "submit" /\ jobs < MaxJobs /\ jobs' = jobs + 1
  /\ \E id \in {0, jobs + 1} :
       ThenStatus([mem EXCEPT !.phase = "Optimizing", !.job = id], "always")
  /\ UNCHANGED <<serverVars, cache, queued, deployment, dcache, restarts>>

\* Mutant: the refusal is logged, and the resource queued again.
SubmitFailsSilently ==
  /\ pc = "submit"
  /\ Return(TRUE)
  /\ UNCHANGED <<serverVars, cache, jobs, deployment, dcache, restarts>>

\* It is refused, or fails.  If the server has taken it all the same, nobody learns the id.
SubmitFails ==
  /\ pc = "submit"
  /\ ThenStatus([mem EXCEPT !.phase = "Failed"], "always")
  /\ UNCHANGED <<serverVars, cache, queued, jobs, deployment, dcache, restarts>>

\* checkBenchmarkJob, and the switch over its answer: completed, failed, or anything else, an error
\* included.
Check ==
  /\ pc = "check"
  /\ \/ pc' = "results" /\ UNCHANGED <<queued, mem, again>>
     \/ ThenStatus([mem EXCEPT !.phase = "Failed"], "never") /\ UNCHANGED queued
     \/ Return(TRUE)
  /\ UNCHANGED <<serverVars, cache, jobs, deployment, dcache, restarts>>

\* applyOptimization, which may fail.
ApplyOptimization ==
  /\ pc = "results"
  /\ \/ mem' = [mem EXCEPT !.phase = "Deploying", !.tuned = TRUE]
     \/ mem' = [mem EXCEPT !.phase = "Failed"]
  /\ pc' = "update"
  /\ UNCHANGED <<serverVars, cache, queued, again, jobs, deployment, dcache, restarts>>

\* Mutant: the write does not carry the version it is based on.
UpdateForced ==
  /\ pc = "update"
  /\ Apply([obj EXCEPT !.edition = mem.edition, !.auto = mem.auto, !.tuned = mem.tuned])
  /\ ThenStatus(obj', "always")
  /\ UNCHANGED <<cache, queued, jobs, deployment, dcache, restarts>>

\* r.Update: the status is a subresource, so only the spec is written, and the answer is decoded
\* into oi, whose phase is then the stored one again.
Update ==
  /\ pc = "update" /\ mem.rv = obj.rv
  /\ Apply([obj EXCEPT !.edition = mem.edition, !.auto = mem.auto, !.tuned = mem.tuned])
  /\ ThenStatus(obj', "always")
  /\ UNCHANGED <<cache, queued, jobs, deployment, dcache, restarts>>

\* It fails: a conflict, or an error before or after the commit.
UpdateFails ==
  /\ pc = "update"
  /\ \/ UNCHANGED serverVars
     \/ mem.rv = obj.rv /\ Apply([obj EXCEPT !.tuned = mem.tuned])
  /\ Return(TRUE)
  /\ UNCHANGED <<cache, jobs, deployment, dcache, restarts>>

\* The Deployment for the spec of o: container image, arguments, resources.
Rendered(o) == [edition |-> o.edition, tuned |-> o.tuned]

\* reconcileDeployment: CreateOrUpdate, from the Deployment in the cache.
Deploy ==
  /\ pc = "deploy" /\ dcache = deployment
  /\ deployment' = Rendered(mem)
  /\ ThenStatus([mem EXCEPT !.phase = "Running"], "onError")
  /\ UNCHANGED <<serverVars, cache, queued, jobs, dcache, restarts>>

\* It fails: the Deployment exists although the cache has none, a conflict, or an error before
\* or after the commit.
DeployFails ==
  /\ pc = "deploy"
  /\ \/ UNCHANGED deployment
     \/ dcache = deployment /\ deployment' = Rendered(mem)
  /\ ThenStatus([mem EXCEPT !.phase = "Failed"], "always")
  /\ UNCHANGED <<serverVars, cache, queued, jobs, dcache, restarts>>

WithStatus(o, m) == [o EXCEPT !.phase = m.phase, !.job = m.job]

\* Mutant: the write does not carry the version it is based on.
StatusUpdateForced ==
  /\ pc = "status"
  /\ Apply(WithStatus(obj, mem))
  /\ Return(again = "always")
  /\ UNCHANGED <<cache, jobs, deployment, dcache, restarts>>

\* Status().Update
StatusUpdate ==
  /\ pc = "status" /\ mem.rv = obj.rv
  /\ Apply(WithStatus(obj, mem))
  /\ Return(again = "always")
  /\ UNCHANGED <<cache, jobs, deployment, dcache, restarts>>

\* It fails: a conflict, or an error before or after the commit.
StatusUpdateFails ==
  /\ pc = "status"
  /\ \/ UNCHANGED serverVars
     \/ mem.rv = obj.rv /\ Apply(WithStatus(obj, mem))
  /\ Return(again # "never")
  /\ UNCHANGED <<cache, jobs, deployment, dcache, restarts>>

\* The operator is started again: the informers list everything.
Restart ==
  /\ restarts < MaxRestarts /\ restarts' = restarts + 1
  /\ pc' = "idle" /\ mem' = None /\ again' = "always"
  /\ cache' = obj /\ feed' = << >> /\ dcache' = deployment /\ queued' = TRUE
  /\ UNCHANGED <<obj, jobs, deployment>>

-----------------------------------------------------------------------------
Next ==
  \/ \E a \in BOOLEAN : Edit(a)
  \/ Watch \/ WatchDeployment \/ Resync
  \/ Get \/ Submit \/ SubmitFails \/ Check \/ ApplyOptimization
  \/ Update \/ UpdateFails \/ Deploy \/ DeployFails \/ StatusUpdate \/ StatusUpdateFails
  \/ Restart

Spec == Init /\ [][Next]_vars

\* Watches and resyncs come, the worker of the queue runs, and every call ends (those to the
\* orchestrator at the client's timeout).  Status updates that are tried for ever on the current
\* version do not fail for ever; of the orchestrator nothing of the kind is assumed.
Fairness ==
  /\ WF_vars(Watch) /\ WF_vars(WatchDeployment) /\ WF_vars(Resync) /\ WF_vars(Get)
  /\ WF_vars(Submit \/ SubmitFails) /\ WF_vars(Check) /\ WF_vars(ApplyOptimization)
  /\ WF_vars(Update \/ UpdateFails) /\ WF_vars(Deploy \/ DeployFails)
  /\ WF_vars(StatusUpdateFails) /\ SF_vars(StatusUpdate)

FairSpec == Spec /\ Fairness

-----------------------------------------------------------------------------
\* The status, as users see it, only takes the steps of InferencePhases, although every status is
\* computed from a copy that may be outdated: it records one benchmark job and never another one,
\* is not moved on by the job of an earlier attempt, and a Running resource does not become Failed
\* because a late reconciliation says so.  The phases are those Reconcile writes; the comment on
\* OptimizedInferenceStatus names others (see InferencePhases).
Phases == INSTANCE InferencePhases WITH phase <- obj.phase, job <- obj.job
RefinesPhases == Phases!Spec

\* No edit of the user is lost: the operator writes the whole spec back with its tuning, yet
\* never the one from before an edit.
NoEditIsLost == [][obj'.edition >= obj.edition]_vars

\* When the resource is declared Running, the Deployment was rendered from the spec it then has,
\* although the spec may have been edited since the reconciliation read it.
RunningIsWhatWasAsked ==
  [][obj.phase # "Running" /\ obj'.phase = "Running" => deployment = Rendered(obj)]_vars

\* No resource stays new or Pending, be it deployed as it is or sent to be optimized, whatever the
\* orchestrator answers or does not answer, and although status updates meet conflicts and their
\* errors are partly only logged: Reconcile moves it on, unless its owner edits it for ever.
NoResourceStaysPending == (obj.phase \in {"", "Pending"}) ~> (obj.phase \notin {"", "Pending"})

-----------------------------------------------------------------------------
(* The inductive invariant behind the theorems of OperatorProofs.          *)

\* A version stands for one object: a copy is an older one, or the object itself.
IsVersion(o) == o.rv <= obj.rv /\ (o.rv = obj.rv => o = obj)

CopiesAreVersions == IsVersion(cache) /\ \A i \in DOMAIN feed : IsVersion(feed[i])

\* What Reconcile may make of the status of o.
MayBecome(o, m) ==
  \/ m.phase = o.phase /\ m.job = o.job
  \/ o.phase = "" /\ m.phase = "Pending" /\ m.job = o.job
  \/ o.phase # "" /\ o.job = 0 /\ m.phase = "Optimizing"
  \/ o.phase # "" /\ o.job = 0 /\ m.phase = "Failed" /\ m.job = 0
  \/ o.phase = "Optimizing" /\ m.phase = "Failed" /\ m.job = o.job
  \/ o.phase \in {"Pending", "Deploying"} /\ m.phase \in {"Running", "Failed"} /\ m.job = o.job

\* A copy that has not been overtaken has the spec of the object, and the status Reconcile started
\* from or what it made of it.
CurrentCopyIsSound ==
  pc # "idle" /\ mem.rv = obj.rv =>
    /\ mem.edition = obj.edition /\ mem.auto = obj.auto
    /\ pc # "update" => mem.tuned = obj.tuned
    /\ pc \in {"submit", "check", "results", "deploy"} => mem = obj
    /\ pc = "update" => obj.phase = "Optimizing"
    /\ pc = "status" => MayBecome(obj, mem)

\* The conditions that led Reconcile to where it is.
StepIsDue ==
  /\ pc = "submit" => mem.phase # "" /\ mem.job = 0
  /\ pc \in {"check", "results"} => mem.phase = "Optimizing"
  /\ pc = "deploy" => mem.phase \in {"Pending", "Deploying"}

\* Reconcile says Running of what it has deployed.
RunningIsDeployed == pc = "status" /\ mem.phase = "Running" => deployment = Rendered(mem)

OperatorInv ==
  /\ TypeOK /\ CopiesAreVersions /\ (pc # "idle" => mem.rv <= obj.rv)
  /\ CurrentCopyIsSound /\ StepIsDue /\ RunningIsDeployed
=============================================================================
