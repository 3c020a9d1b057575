--------------------------- MODULE WorkerRegistry ---------------------------
(***************************************************************************)
(* The orchestrator's in-memory registry of Python workers                 *)
(* (internal/workers/registry.go).                                         *)
(*                                                                         *)
(* Every method runs under the registry's RWMutex, so each is one atomic   *)
(* operation here.  What is not atomic is a caller that uses two of them:  *)
(* SelectWorker releases the lock before MarkBusy takes it.                *)
(*                                                                         *)
(* An entry is a status and the job it is marked busy with.  LastSeen is   *)
(* abstracted: EvictStale takes the set of workers whose LastSeen is older *)
(* than the cutoff, and any set can be.                                    *)
(***************************************************************************)
CONSTANTS
  WorkerID,    \* worker ids; every Python process draws a fresh one
  Job,         \* benchmark jobs
  GPUType,     \* GPUType[w]: the GPU profile worker w registers with
  NoJob        \* CurrentJobID = ""

ASSUME NoJobAssumption == NoJob \notin Job

VARIABLES
  status,      \* status[w]: "absent" when w has no entry
  currentJob   \* currentJob[w]: CurrentJobID

registryVars == <<status, currentJob>>

WorkerStatus == {"absent", "idle", "busy", "offline"}

RegistryTypeOK ==
  /\ status \in [WorkerID -> WorkerStatus]
  /\ currentJob \in [WorkerID -> Job \cup {NoJob}]

\* NewWorkerRegistry: an empty map.
NewWorkerRegistry ==
  /\ status = [w \in WorkerID |-> "absent"]
  /\ currentJob = [w \in WorkerID |-> NoJob]

-----------------------------------------------------------------------------
\* Register overwrites whatever entry the id had; the payload has no job.
Register(w) ==
  /\ status' = [status EXCEPT ![w] = "idle"]
  /\ currentJob' = [currentJob EXCEPT ![w] = NoJob]

\* Heartbeat brings an offline worker back and leaves a busy one busy.
Heartbeat(w) ==
  /\ status' = IF status[w] = "offline" THEN [status EXCEPT ![w] = "idle"] ELSE status
  /\ UNCHANGED currentJob

MarkBusy(w, j) ==
  IF status[w] = "absent"
  THEN UNCHANGED registryVars
  ELSE /\ status' = [status EXCEPT ![w] = "busy"]
       /\ currentJob' = [currentJob EXCEPT ![w] = j]

\* MarkIdle does not look at who made the worker busy, nor at "offline".
MarkIdle(w) ==
  IF status[w] = "absent"
  THEN UNCHANGED registryVars
  ELSE /\ status' = [status EXCEPT ![w] = "idle"]
       /\ currentJob' = [currentJob EXCEPT ![w] = NoJob]

\* The workers SelectWorker may return: Go's map order is random.
SelectWorker(gpuProfile) ==
  {w \in WorkerID : status[w] = "idle" /\ GPUType[w] = gpuProfile}

\* EvictStale puts every stale entry offline, busy ones included.
EvictStale(stale) ==
  /\ status' = [w \in WorkerID |->
                  IF w \in stale /\ status[w] # "absent" THEN "offline" ELSE status[w]]
  /\ UNCHANGED currentJob
=============================================================================
