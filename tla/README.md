# A TLA+ model of the EVM ledger indexer

This project models the indexer of this repository: a command line and a set of
worker processes that read the `Transfer` logs of token contracts from an EVM
node, keep a token ledger with holder balances in PostgreSQL, and repair it after
chain reorganisations.  TLC checks the modules on small instances; TLAPS proves
the central safety properties for every value of the constants.

All paths below are relative to the repository root.

## The system

| part | code | state | operations |
|---|---|---|---|
| job queue | `src/infra/postgres/job_repository.rs` | tables `jobs`, `job_attempts` | enqueue, lease (`FOR UPDATE SKIP LOCKED`), `mark_running`, `mark_succeeded`, `mark_failed`, `mark_interrupted_for_retry` |
| worker loop | `src/worker/mod.rs`, `worker_run` in `src/main.rs` | job in hand, replay priority | lease, execute, finish, shut down |
| planning commands | `src/application/backfill.rs`, `src/main.rs` | table `sources` | `scan-contract`, `enqueue-contract`, `backfill-contract`, `enqueue-replay` |
| log ingestion | `src/application/ingest.rs` | none between calls | resolve a range, detect the token standard, fetch logs in chunks, decode, persist, fetch receipts |
| ledger, write side | `src/infra/postgres/ledger_repository.rs` | tables `events`, `ledger_entries`, `token_balances`, `transaction_receipts` | persist decoded logs, orphan a range, persist receipts, rewrite metadata |
| checkpoint | `src/worker/mod.rs`, `ledger_repository.rs` | table `checkpoints` | compute the contiguous target, advance |
| reorg verification | `src/application/reorg.rs`, `src/main.rs` | table `reorg_events` | compare stored hashes with the node, record ranges, link replays |
| read side, HTTP API | `ledger_repository.rs`, `src/api` | none | pages of balances, movements, events |
| EVM decoding | `src/application/evm.rs` | none | log to transfers |
| RPC client | `src/infra/evm/rpc.rs` | none | head, blocks, logs, receipts |
| repair commands | `src/main.rs` | none of their own | `backfill-event-metadata`, `backfill-transaction-receipts` |
| reports | `src/main.rs` | none | doctor |

A command plans block ranges and inserts one job per range.  Workers lease jobs,
oldest first and replays first, execute them, and mark the outcome.  An ingest
job fetches the logs of its range, commits them to the ledger and then tries to
advance the checkpoint of its source over the ranges that are done.  A replay
job first orphans what the ledger holds of its range, in a transaction of its
own, and then ingests the range again.  Workers share nothing but the database;
the node is consulted between the transactions.

What is hard here, and hard to test:

* a lease is never renewed, and no `mark_*` call checks who holds the lease: a
  worker that overran its lease writes over the attempt of its successor;
* executing a job is a chain of awaits and separate transactions, with a process
  death, a shutdown, an error or another worker possible between any two;
* the checkpoint target is computed outside the transaction that writes it, from
  rows that other workers are about to change;
* the chain moves between fetching logs and committing them;
* balances are maintained incrementally, while ranges arrive out of order, twice,
  and are taken back;
* the repair commands rewrite rows without the lock that ingesting and orphaning
  take;
* a client reads the ledger page by page, and the server keeps nothing between
  two pages but the cursor it gave away.

`PROJECT.json` lists these one by one under `hazards`, with the lines where they
bite.

## Modules

| module | models | used by |
|---|---|---|
| `JobQueue` | queue and worker loop | `Indexer` |
| `Ranges` | inclusive block ranges, contiguity | `Indexer`, `ContiguousTarget`, `Ledger` |
| `Indexer` | `JobQueue` composed with the commands, the chain, the execution of jobs and the checkpoint of one source | |
| `JobService` | abstract: what the queue promises its users | `JobQueueService` |
| `JobQueueService` | the refinement mapping from `JobQueue` to `JobService` | |
| `ContiguousTarget` | the loop of `next_contiguous_checkpoint_target` | |
| `EvmLogs` | decoding of a log, `application/evm.rs`, as pure operators | `LogIngest` |
| `LogIngest` | one call of `ingest_source_range` up to the decoded logs | |
| `Ledger` | the ledger tables, the transactions that write them, the executions that call these | `LedgerRepair`, `LedgerPages` |
| `LedgerRepair` | the two repair commands | `LedgerSystem` |
| `LedgerPages` | a client of the cursor-paginated routes | `LedgerSystem` |
| `LedgerSystem` | workers, repair commands and client on the same tables | |
| `ReorgWatch` | `verify-reorg`, `reorg_events` and the links of `enqueue-replay` | |
| `JobQueueProofs`, `JobQueueServiceProofs`, `IndexerProofs` | theorems about the queue, its refinement, the pipeline | |
| `LedgerProofs`, `LedgerSystemProofs` | theorems about `Ledger`, and about `LedgerSystem` | |
| `ReorgWatchProofs`, `LoopsProofs` | theorems about `ReorgWatch`, and about `ContiguousTarget` and `LogIngest` | |
| `Induction` | induction over sets, folds, sums and flattened sequences | `LedgerProofs`, `LoopsProofs` |
| `MC*` | instances for TLC | |

### JobQueue

One action per repository transaction.  The lease transaction is split in two
(`LockNextCandidate`, `CommitLease`), because other scans skip the row while it is
locked.  A job row is the functions `status`, `attempts`, `leasedBy`, `lease` and
`createdAt`; the rows of `job_attempts` are the sequence `trail[j]`.  Time is
reduced to what the code compares: a lease is null, in the future (`live`) or in
the past (`expired`), and `LeaseExpires` makes the step.  `MaxOverruns` bounds how
often that happens to a job that some worker has in hand; with 0, leases outlive
all work, which is what an operator who picks `--lease-seconds` well gets.
`MaxInterrupts` and `MaxCrashes` bound shutdowns and process deaths.

### JobService and JobQueueService

`JobService` is the queue without leases: a job is submitted, taken by a worker
that has no other, and left again, as succeeded, failed or abandoned; a failure is
final once the job was taken `MaxAttempts` times.  `JobQueueService` maps the tables
to it.  The owner of a job is `leased_by` while the loop of that worker has the job
in hand, and nobody otherwise: a row whose lessee died keeps its lease columns, but
nobody works on it.  Scans, row locks, expiries and restarts are stuttering steps.

### Indexer

`Indexer` EXTENDS `JobQueue` and gives "executing" its content: `phase[w]` says
which await or transaction of `execute_job` the worker is at.  A job is its type
and range, which is its identity in the table.  The CLI commands are separate
processes whose transactions (`ResolveRange`, `EnsureSource`, the planning, one
`InsertJob` per job) interleave with everything else.  The ledger is reduced to
whether a block's logs are missing, live or orphaned.  `advance_checkpoint` is two
actions where the code's `SELECT ... FOR UPDATE` finds no row to lock.  That the
target of a checkpoint is computed correctly is the subject of `ContiguousTarget`,
which models the sort and the loop; that the logs of a range are fetched and decoded
completely is that of `LogIngest`, and what committing them does to the tables that
of `Ledger`.

Assumed: one source; `finality_confirmations` does not change while the system
runs (`ensure_chain` can change it).

### EvmLogs and LogIngest

A log is its topics, its data as a sequence of 32-byte words, and whether bytes are
left over; to check the decoding against it, a log of the model also carries what
the contract meant by it, `entries` and `standard`.  `MeansTransfers(log)` says that
the two fit together: the standard is that of the log's shape, `odd` if it has none, and
the entries are what topics and words of that shape mean, with the two arrays of a
`TransferBatch` at any offsets.  `Emitted` is
the set of logs contracts may emit; all of them satisfy `MeansTransfers`.  A call's
`task` has the chain, and `Selected(s, block)` are the logs of a block that the topics
of standard `s` select.  `EvmLogs` has the topic filter of each standard, the
shapes of `Transfer`, and the three decoders down to the offsets and lengths of the
two arrays of `TransferBatch`.  A result is `Success(value)` or `Failure`.

`LogIngest` is one call of `ingest_source_range`: the checks at its top, one
`DetectChunk` per turn of the detection loop, one `FetchChunk` per turn of the fetch
loop (with the chunk that the detection kept), the block times, the decoding.
`scan-contract` runs the detection itself, to record the source, and hands over the
chunk it kept; the two loops are the same ones in the same order, so this is the
model's call with an auto standard.
Block numbers run up to `MaxU64`, where the code's saturating additions and its
breaks matter.

### Ledger

Rows with their amounts, block numbers and hashes, keyed as the UNIQUE
constraints key them.  `PersistDecodedLogs` is a fold over the logs that threads the
state of the open transaction, with `ok` turning false where the code returns an
error and rolls back.  Orphaning a range is several actions, one per statement:
it loads and locks the entries and reverses their balances, marks the entries, and
marks the events, each time selecting by block number; the rows it holds in between
are `locked[w]`.  A worker of `ReceiptWorkers` then fetches the receipts of what it
persisted and commits them in a transaction of their own.  Logs are fetched chunk by
chunk from a chain given as a sequence of `Versions`.  The tables start empty, or
with blocks of `Legacies` whose events lack the metadata columns.  `synced`, `stale`
and `receipted` are history variables: the blocks a replay brought up to date, the
blocks whose rows may stem from an earlier version of the chain, and the blocks
whose receipts are those of the present chain.

### LedgerRepair

`backfill-event-metadata` selects the blocks with bare events once, then fetches
the logs of each and rewrites their rows, one `UpdateLogMetadata` per log and
transaction; it waits where an orphaning has locked the entries.
`backfill-transaction-receipts` selects what is missing once, fetches one receipt at
a time and persists them in batches of `BatchSize`.  Either may end at any call.

### LedgerPages

A client asks for a page, gets up to `limit` rows and the position of the last one
if there are more, and comes back with it; anything may happen to the tables in
between.  `steady` is history: the rows that match the query, have been live since the
first page, and share their position with no other live row.

### LedgerSystem

The conjunction of the three: `SysNext` is a step of a worker, of the chain, of a
repair command or of the client.

### ReorgWatch

A verification (`LoadIndexed`, `LoadCheckpoint`, one `Compare` per RPC call, one
`RecordRange` per insert), `enqueue-replay` (`EnqueueReplay`, then `LinkReorgEvents` in
a statement of its own), and next to them any number of `Processes` that write block
hashes, each in steps of its own: a worker that ingests or replays, `scan-contract`
(an ingest that leaves after its commit), and `backfill-event-metadata` at one block.
They orphan, fetch chunk by chunk, commit, and advance the checkpoint or mark the job;
a reorganisation and every other process may come between any two of these steps.
A lease may run out at any time, so that several workers execute the same replay, and
`mark_running` and `mark_succeeded` go by the job's id alone.  Processes fail, are shut
down or die anywhere (`Abandon`).

The ledger is reduced to `stored[b]`, the distinct hashes of a block's live events,
and `buried`, the blocks that have orphaned ones: an ingest does not bring those back,
a replay does.  Hashes are numbered by the reorganisation that made them, so a
replaced block never comes back, and a transaction that is mined again stays in its
block.  History variables: `condemned`, what a verification loaded although it was not
canonical any more; `late`, the replaced hashes that were committed nevertheless since
their block was last orphaned, and by which replay; and in a row `fresh`, that the row
was linked before its replay had orphaned the range in any execution under way.

`LinkedReplayRepairs` says what a successful replay is worth to a linked row.  It does
not say that the hash is gone, which is false in the code: a process that fetched the
block before the reorganisation may commit it after the replay.  It says that this is
the only way: if the hash is live, some other process committed it late.  The replay
does not bring it back itself, not even when two workers execute it at once.

## Runs

| run | instance | shows |
|---|---|---|
| `JobQueueOverrun` | 2 workers, an ingest job with budget 2, a replay with budget 1, one overrun and one shutdown per job, one crash | `TypeOK`, `AuditTrail`, `LeaseColumns`, `AttemptsBounded`, `SupersededAttemptsFrozen` |
| `JobQueueSafeLease` | the same without overruns, under `FairSpec` | `ExclusiveWork`, `SettledIsFinal`, `EveryJobSettles`, `ImplementsJobService` |
| `JobQueueStranded` | one job, one overrun | `EveryJobSettles` violated |
| `IndexerPipeline` | 2 workers, 3 blocks, failing steps; either a backfill and an overlapping enqueue with a growing head and a reorganisation, or a scan and two overlapping replays with a shutdown and a crash | `IxTypeOK`, `CheckpointContiguous`, `CheckpointFinalized`, `CheckpointOnlyAdvances`, `OrphanedBlocksPending`, `OnlyFinalizedIngested` |
| `IndexerLagging` | 2 workers, a backfill and a range that extends it | `CheckpointCaughtUp` violated |
| `IndexerEarlierStart` | two backfills, the second from an earlier block | `NothingPlannedMeansCovered` violated |
| `Loops` | either all sequences of up to three ranges over five blocks with all frontiers, or all calls of `ingest_source_range` over blocks 0 to 3 = `MaxU64`, with all bounds, chunk sizes and standards, and 11 kinds of contents for up to two blocks | `TargetContiguous`, `FetchedSoFar`, `DecodedAsEmitted`, `RefusedForCause`, `IngestEnds` |
| `LedgerTables` | 2 holders, 2 blocks, the second of which is replaced, chunks of one block; who runs side by side is below | `LgTypeOK`, `BalancesMatchLedger`, `MovementBounds`, `LiveEntriesHaveLiveEvents`, `CanonicalAfterReplay`, `ReceiptsFollowChain`, `SelectedReceiptsPersisted`, `PagesComplete` |
| `LedgerRemined` | a transaction mined again in the next block | `CanonicalAfterReplay` violated |
| `LedgerRefused` | a holder passes on what it received | `ReplayNotRefused` violated |
| `LedgerRepairRace` | a replay next to the metadata repair, a transaction that moved into the replayed block | `BalancesMatchLedger` violated |
| `ReorgWatch` | 3 blocks, the middle one not indexed yet, chunks of one block; 2 processes that take up two pieces of work between them, one verification of all blocks or of the first two, a replay of the first two, one reorganisation | `RwTypeOK`, `NoMismatchMissed`, `RowsAreExact`, `LinkedReplayRepairs` |

`LedgerTables` has four initial situations (`SideBySide` in `MCLedger`): two workers
on five overlapping jobs, each executed up to twice; a worker that fetches receipts
next to both repair commands, over rows of the time before metadata; and a client
that reads, next to a worker that ingests and replays, or over such old rows next to
one that executes two replays, with pages of one and two rows, both orders, a filter by
holder, and a limit of 0.  All of them at once would add interleavings of programs
that do not touch the same rows.  `IndexerPipeline` likewise has two situations: the
reorganisation goes with the checkpoint, process deaths go with the replays.

Why the bounds are enough.  The hazards of the queue need two workers and one job
(an overrun takes a worker that holds the job and one that takes it over); the
second job, of the other type, brings in the two scans and the priority.  A retry
budget of two makes both outcomes of `mark_failed` happen.  The checkpoint races
need two ranges with a gap or an overlap, two workers, and a head that moves once
past a planned range.  Two blocks suffice for the ledger because its tables are
related row by row and holder by holder: one block stays, one is replaced, and the
jobs for one and for both overlap.  A batch size of two with three transactions makes a
full and a partial batch.  A page of one row out of up to four gives cursors on both
sides of the block that changes.  Three blocks are needed for a gap between two
mismatches, and the third lies outside the replay.  Two pieces of work on two processes
give a late commit after a replay, two executions of one replay at once, and a retry.
Four block numbers give the chunk loops a first, a middle and a last
chunk, chunks that do not divide the range, and ranges that end at the highest block
number.  The theorems remove the bounds for every safety property these runs check.

Workers are interchangeable, and the runs of safety properties use that symmetry
(in `LedgerTables` for the two that run together, in `ReorgWatch` for all processes).  The runs of `Ledger` and
`Loops` do not check deadlock: the executions a run allows are used up, a client
reaches its last page, and a loop ends.

### What the violations show

* `JobQueueStranded`: a worker overruns its lease between leasing and
  `mark_running`; another one finishes the job; the late `mark_running` sets the
  finished job to running with a NULL lease.  If its worker then dies, no scan
  returns the row to the queue, as NULL is not before now.
* `IndexerLagging`: two workers compute their targets before the other one's job
  is marked succeeded; the checkpoint stays behind ranges that succeeded, and no
  later step advances it.  With a single worker the property holds.
* `IndexerEarlierStart`: `backfill-contract` resumes after the checkpoint even when
  the requested start lies before everything that was ever ingested, plans
  nothing and reports the range as covered.
* `LedgerRemined`: the conflict key of an event is its transaction and log index,
  and `block_number` is not part of the update; a transaction mined again in
  another block keeps its old block number after the replay.
* `LedgerRefused`: balances are reversed oldest movement first and each step must
  leave a balance that is not negative, so a range in which a holder received
  tokens and passed them on cannot be orphaned.
* `LedgerRepairRace`: orphaning selects entries by block number to reverse their
  balances and again to mark them.  `update_log_metadata`, which takes no lock on the
  source, moves an entry into the range between the two: the entry is marked, and its
  effect on the balances stays.

Seen in the model and not a run of their own: a job may be attempted more often
than `max_attempts`, once more for every lease that ran out and every shutdown
(`AttemptsBounded` says exactly that); a `scan-contract` with an explicit
`--to-block` ingests blocks that are not final (`OnlyFinalizedIngested` is about
scans that leave it at its default); logs fetched before a reorganisation and
committed after a replay leave rows of the old chain behind
(`CanonicalAfterReplay` excludes those blocks); a row of `reorg_events` linked to a
replay that is already running, or that ended between the two statements of
`enqueue-replay`, may stay unrepaired although that replay succeeds
(`LinkedReplayRepairs` is about rows linked before that); a process that fetched
before the reorganisation brings a repaired hash back when it commits after the replay
(`LinkedReplayRepairs` says that this takes another process);
the receipt backfill selects transactions without a receipt only, so it never
refreshes one from before a reorganisation (`ReceiptsFollowChain` is about the
blocks a worker fetched receipts for); a repair that moves a row leaves
`first_received_block` and `last_moved_block` as they are; two live rows
can share a position while a reorganised block is not replayed yet, and a page that
ends between them skips one (`PagesComplete` excludes such rows); a contract that
emits ERC-20 and ERC-1155 transfers in the first chunk that has any is refused as a
hybrid, and if the ERC-1155 ones begin in a later chunk they are left out without an
error, since the fetch asks for the topics of the detected standard
(`DecodedAsEmitted` says that nothing else is left out); repair and
orphaning lock events and entries in opposite orders and may deadlock, which
PostgreSQL resolves by aborting one (the model has the two outcomes, `Abandon` and
`MetadataEnds`).

### Fairness

`EveryJobSettles` and `IngestEnds` need it.  `FairSpec` asks for weak fairness of
three things: each worker's own steps (its database calls block and its RPC calls
have a timeout, `src/infra/evm/rpc.rs`, so a live worker moves on), restarting a
stopped worker (the operator, or a supervisor), and the passing of time for a lease.
Success of a job is not assumed: an attempt may fail each time, and then the
budget runs out.  Shutdowns are finitely many per job.

For a call of `ingest_source_range`, weak fairness of `Ingest`, its own steps without
`RpcFails`: an RPC call returns or times out.  A failing call ends the loops, so the
property must not rest on one.

## Theorems

The proofs rest on inductive invariants.  Assumptions on constants are named in the
modules that declare them, and TLC evaluates each of them: `JobQueueAssumption`,
`IndexerAssumption`, `ContiguousAssumption`, `ReorgWatchAssumption`, `LedgerAssumption`
and `MinedOnce` (a chain contains a transaction once), `RepairAssumption`,
`PagesAssumption`, and `IngestAssumption` (contracts emit logs that are `MeansTransfers`).

| theorem | states | argument |
|---|---|---|
| `TypeCorrect` | `[]TypeOK` | `TypeInv` adds that a worker at "locking", "leased" or "executing" has a job in hand |
| `AuditTrailCorrect`, `LeaseColumnsCorrect`, `SupersededFrozen` | the audit trail is faithful, the lease columns match the status, old attempts stay as they are | `AuditInv`: a row lock has one owner (`LockDiscipline`) and a job in hand was attempted, so that a late `mark_*` call always finds a current attempt to land on |
| `AttemptsBoundedCorrect` | attempts beyond the budget are paid for by expiries and shutdowns | `BudgetInv` adds that a job some scan may claim still has an attempt to spare |
| `ExclusiveWorkCorrect`, `SettledIsFinalCorrect` | one worker per job, settled is final, if no lease overruns | `LesseeInv`: whoever has the job in hand is `leased_by`, and the job is active |
| `QueueImplementsService` | `JobQueue` implements `JobService`, if no lease overruns | `HandInv`, from `AuditInv` and `LesseeInv`: a job in hand is active and leased to the one worker that has it, and a scan locks only a job that may be claimed. Every action is then a step of `JobService` or leaves phase, owner and takes alone |
| `ImplementsJobQueue` | every behaviour of `Indexer` is one of `JobQueue` | step by step; the queue's theorems carry over |
| `IxTypeCorrect` | `[]IxTypeOK` | `IxTypeInv` ties the phase to the queue's state and the targets to the ranges |
| `CheckpointFinalizedCorrect`, `CheckpointOnlyAdvancesCorrect` | the checkpoint is final and never steps back | `FinalInv`: a computed target is at most the head its worker observed |
| `CheckpointContiguousCorrect` | below the checkpoint everything from the start of some source registration was ingested | `CoverInv` adds the same for every target still in a worker's hands, and that succeeded jobs and workers past their commit have ingested their ranges; it needs no assumption on leases, as blocks never go back to missing |
| `OnlyFinalizedIngestedCorrect` | nothing above finality reaches the ledger | for scans with the default `--to-block` |
| `OrphanedBlocksPendingCorrect` | an orphaned block is covered by a replay that has not succeeded | `PendingInv` adds that no worker that has such a replay in hand is past its commit; if no lease overruns |
| `TargetContiguousCorrect` | the loop finds the end of the contiguous run | `CtInv`: what was passed over is below the target or beyond the gap |
| `FetchedLogsCorrect` | the chunk loop returns the logs of the range, each once and in order | `LiInv`: while the standard is being detected there was no log before `chunkFrom`, and the kept chunk, fetched with the topics of every standard, is what those of the detected one select; the logs of a range are those of its two parts, one after the other |
| `DecodedCorrect` | decoded is what was emitted under the standard in use; logs of another requested standard are left out only after the chunk that detected it | a log that `MeansTransfers` and has the topics of the standard is decoded to its `entries`: one lemma per kind of event, with the offsets of both arrays. What is left out comes later: the detection goes chunk by chunk (`Aligned`) and goes on only while there are no logs (`NothingDetected`) |
| `RefusalsCorrect` | a range is refused only for cause | from `LiInv`, where a standard that was not given is that of a log of the range: a log that fails to decode is of another standard, or of none |
| `RwTypeCorrect` | `[]RwTypeOK` | `TypeInv` ties what a process holds to its phase |
| `NothingCondemnedIsMissed` | a finished verification has recorded every stale hash it loaded | `HashInv`: hashes known to anyone are of the chain so far, so one that is gone does not come back; `HeldInv`: a condemned pair is still expected, in the list of mismatches or in a row |
| `RecordedRangesAreExact` | a row names exactly the blocks of its mismatches | the mismatches taken for a row are a run of consecutive blocks, found by induction along the list |
| `LinkedReplaysRepair` | what a replay repaired of the rows linked before it orphaned its range stays repaired, up to what other processes commit late; for any number of processes, reorganisations, retries and expired leases | `RepairInv`: once some execution has orphaned the range, a condemned hash that is live is in `late` by another, and no execution past its orphaning holds one |
| `LgTypeCorrect`, `BalancesAreSums` | rows have their types, balances are sums and not negative | `LgInv` = `Typing` (rows, and what executions hold), `TablesInv` (`Agree`: balances are the sums over the live rows, and bounds hold) and `LockInv` (what an open orphaning loaded is still what is in its range, as whoever changes entries takes the source lock). `Agree` is kept by one change of one row (`ChangeAgrees`), then along the fold over entries, over logs, and over the reversals |
| `MovementsAreBounded` | `first_received_block` and `last_moved_block` bound the live movements | the same invariant: a bound only moves outwards |
| `EntriesFollowEvents` | live entries belong to live events of the same block and hash | `Linked` in `TablesInv`: an event has all its entries, equally orphaned; under `StableDecoding` |
| `ReplaysMakeCanonical` | the live entries of a replayed block are the logs of the present chain | `ReplayInv`: logs in hand are of blocks of the job, and a block that is not stale holds no live row but those of its present logs (all of them, once a replay committed them); under `StableLogs` |
| `SystemTypeCorrect` | types, with everything side by side | `SysTyping` |
| `BalancesSurviveRepairs`, `EventsSurviveRepairs`, `ReplaysSurviveRepairs` | the four invariants above, next to the repairs and a client | under `StableLogs` a repair that takes its turn between any two steps of the workers changes hashes only (`Rehashed`). It passes by the rows an open orphaning has locked, so the reversal comes out as it did when they were loaded (`ReversedSame`), and a log the chain has lost marks its block as stale |
| `ReceiptsAreOfTheChain` | receipts are of the present chain | `ReceiptsInv`; a commit takes out of `receipted` what it outdates |
| `BackfillIsComplete` | what the receipt backfill selected has a receipt | `SelectedInv`: it is in the table, in the batch or still ahead |
| `PagesAreComplete` | a client gets every steady row, none twice | `PageInv`: the cursor separates the steady rows that were given from those to come (`CursorInv`), as no other row has their position (`SteadyInv`) |

`QueueImplementsService` assumes `MaxOverruns = 0`.  Without it the statement is false,
and `JobQueueStranded` is the reason: a late `mark_running` reopens a finished job,
which no step of `JobService` does.

The theorems of `LedgerProofs` are about `LgSpec`, any number of workers without the
other programs, those of `LedgerSystemProofs` about `SysSpec`, everything side by side.
Types do not need the agreement of the tables, so `Typing` carries over to `SysSpec`
for every chain.  The agreement does not: when a transaction moves to another block,
`BalancesMatchLedger` is false with the metadata repair next to a replay
(`LedgerRepairRace`), hence the hypothesis `StableLogs` of the `...SurviveRepairs`.

Two hypotheses of these theorems are about the chain; `LedgerTables` satisfies them
although its chain is reorganised:

* `StableDecoding`: a log key is always decoded to the same number of entries.  If a
  transaction mined again emits a batch of another length under the same log index, an
  ingest without a replay rewrites the entries it has and leaves the others with the
  old hash.
* `StableLogs`: a log that is mined again is in the same block, of the same holders, and
  a key names one log of a chain.  `LedgerRemined` is what happens otherwise: on
  conflict the upsert keeps `block_number`, `from_address` and `to_address`.

The sums of the ledger, its folds and the flattened sequences of `LogIngest` take
induction.  Theorems with an operator parameter are out of the prover's reach, so
`Induction` states induction about sets: the subsets of a finite set, taken apart by
the element the fold chooses (`FoldInduction`), the numbers up to the length of a
sequence.  A proof cites them for the set of those subsets or numbers for which its
claim holds.

Only model-checked: `EveryJobSettles` and `IngestEnds`, because liveness under
fairness is beyond the prover used, and the violations.

## Not modelled

* The routes of the HTTP API other than the two paginated ones (summary, holders,
  minters, health), reports and telemetry: single queries that change no state.  Of
  the paginated routes, the `movement_type` filter.
* Hex, the width of a word and the ABI's length limits in decoding: a word is a
  value.
* The RPC client's encoding of requests; it appears as the topic filter of
  `eth_getLogs`, as a chain that grows and is reorganised, and as calls that may fail.
* Parsing of the command line, the contract code check, generated row types.
* The job states `failed` and `cancelled`, which the schema has and no code writes; the
  default of `--from-block`, which is some block below the last one.
* `ensure_chain` changing `finality_confirmations` while workers run.
* Several sources at once: every table the model has is keyed by the source, and jobs
  of different sources meet only in the queue, where `Serves` separates them.

## Plan

Done: the queue with its abstract specification, the pipeline around the checkpoint,
the loop of the target, log ingestion and decoding, the ledger tables with receipts,
repair commands and paginated reads, reorg verification; a theorem for every safety
property that a passing run checks.

Next: an abstract specification of the ledger (a set of live transfers) that the
tables implement while the repair commands rest, with the refinement proved from
`LgInv`.
