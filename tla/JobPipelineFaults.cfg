SPECIFICATION Spec
CONSTANTS
  Job = {j1}
  WorkerID = {w1, w2}
  NoJob = NoJob
  NoWorker = NoWorker
  GPUType <- SameGPU
  GPUProfile <- AskGPU
  URL <- OneURL
  NumEngines = 1
  MaxAttempts = 2
  MaxWorkers = 1
  Heartbeating = FALSE
  Faults = {"db", "dispatch", "post", "engine", "restart", "crash"}
SYMMETRY WorkerSymmetry
INVARIANTS CompletedHasResult
PROPERTIES FinishedNeverReruns
