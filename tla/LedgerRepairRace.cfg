SPECIFICATION RepairNextToReplaySpec
CONSTANTS
  w1 = w1
  w2 = w2
  w3 = w3
  alice = alice
  bob = bob
  Workers = {w1, w2, w3}
  ReceiptWorkers = {w3}
  NoJob = NoJob
  NoAccount = NoAccount
  Accounts <- MCAccounts
  Work <- MCWork
  MaxBlock = 1
  ChunkSize = 1
  Versions <- Joining
  Legacies <- Indexed
  MaxTries = 1
  BatchSize = 2
  Queries <- MCQueries
INVARIANTS BalancesMatchLedger
CHECK_DEADLOCK FALSE
