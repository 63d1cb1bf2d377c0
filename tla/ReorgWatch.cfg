SPECIFICATION RwSpec
CONSTANTS
  Processes = {p1, p2}
  MaxBlock = 2
  Ingests <- MCIngests
  Indexed = {0, 2}
  Replays <- MCReplays
  HasLogs <- MCHasLogs
  Checks <- MCChecks
  ChunkSize = 1
  MaxReorgs = 1
  MaxStarts = 2
  MaxChecks = 1
SYMMETRY Symmetry
INVARIANTS RwTypeOK NoMismatchMissed RowsAreExact LinkedReplayRepairs
