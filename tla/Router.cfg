SPECIFICATION FairSpec
CONSTANTS
  WorkerID <- MCWorker
  GPUType <- MCGPUType
  EngineOf <- MCEngineOf
  Job = {j1}
  NoJob = NoJob
  Request = {r1}
  Tenant = {t1}
  TTL = 2
INVARIANTS AnswerIsRight
PROPERTIES GoneWorkerIsForgotten
