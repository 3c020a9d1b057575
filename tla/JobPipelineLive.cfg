SPECIFICATION FairSpec
CONSTANTS
  Job = {j1}
  WorkerID = {w1, w2}
  NoJob = NoJob
  NoWorker = NoWorker
  GPUType <- SameGPU
  GPUProfile <- AskGPU
  URL <- OneURL
  NumEngines = 1
  MaxAttempts = 3
  MaxWorkers = 1
  Heartbeating = TRUE
  Faults = {"restart", "crash", "engine"}
PROPERTIES EveryQueuedJobIsFinalized
