SPECIFICATION FairSpec
CONSTANTS
  w1 = w1
  w2 = w2
  ingest1 = ingest1
  ingest2 = ingest2
  replay1 = replay1
  Jobs = {ingest1, replay1}
  Workers = {w1, w2}
  NoJob = NoJob
  NoWorker = NoWorker
  ReplayJobs <- MCReplayJobs
  Serves <- MCServesAll
  MaxAttempts <- MCMaxAttempts
  MaxOverruns = 0
  MaxInterrupts = 1
  MaxCrashes = 1
INVARIANTS ExclusiveWork
PROPERTIES SettledIsFinal EveryJobSettles ImplementsJobService
