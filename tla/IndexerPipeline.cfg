SPECIFICATION PipelineSpec
CONSTANTS
  w1 = w1
  w2 = w2
  Workers = {w1, w2}
  NoJob = NoJob
  NoWorker = NoWorker
  Jobs <- MCJobs
  ReplayJobs <- MCReplayJobs
  Serves <- MCServes
  MaxAttempts <- OneAttempt
  MaxOverruns = 0
  MaxInterrupts = 1
  MaxCrashes = 1
  Requests <- PipelineRequests
  RangeSize = 1
  Confirmations = 1
  InitHead = 1
  MaxHead = 2
  MaxReorgs = 1
SYMMETRY WorkerSymmetry
INVARIANTS IxTypeOK CheckpointContiguous CheckpointFinalized OrphanedBlocksPending OnlyFinalizedIngested
PROPERTIES CheckpointOnlyAdvances
