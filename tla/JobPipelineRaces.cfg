SPECIFICATION Spec
CONSTANTS
  Job = {j1, j2}
  WorkerID = {w1}
  NoJob = NoJob
  NoWorker = NoWorker
  GPUType <- SameGPU
  GPUProfile <- AskGPU
  URL <- OwnURL
  NumEngines = 2
  MaxAttempts = 2
  MaxWorkers = 2
  Heartbeating = FALSE
  Faults = {"dispatch"}
SYMMETRY JobSymmetry
INVARIANTS TypeOK BusyWorkerIsHeldByItsJob AtMostOneRun CompletedRunHasAllResults
PROPERTIES EarlyCancelSticks
