SPECIFICATION LoopsSpec
CONSTANTS
  MaxBlock = 4
  Inputs <- MCInputs
  Frontiers <- MCFrontiers
  MaxU64 = 3
  Emitted <- MCEmitted
  Tasks <- MCTasks
INVARIANTS TargetContiguous FetchedSoFar DecodedAsEmitted RefusedForCause
PROPERTIES IngestEnds
CHECK_DEADLOCK FALSE
