SPECIFICATION AllRunSpec
CONSTANTS
  w1 = w1
  w2 = w2
  Workers = {w1, w2}
  NoJob = NoJob
  NoWorker = NoWorker
  Jobs <- MCJobs
  ReplayJobs <- MCReplayJobs
  Serves <- MCServes
  MaxAttempts <- OneAttempt
  MaxOverruns = 0
  MaxInterrupts = 0
  MaxCrashes = 0
  Requests <- CaughtUpRequests
  RangeSize = 1
  Confirmations = 0
  InitHead = 2
  MaxHead = 2
  MaxReorgs = 0
INVARIANTS CheckpointCaughtUp
