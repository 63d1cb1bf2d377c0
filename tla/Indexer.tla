------------------------------- MODULE Indexer -------------------------------
(***************************************************************************)
(* The ingestion pipeline of one source: the CLI commands that plan ranges *)
(* (main.rs, application/backfill.rs), the workers of JobQueue executing   *)
(* them (IngestWorker::execute_job), the blocks that reach the ledger, and *)
(* the checkpoint (advance_checkpoint, next_contiguous_checkpoint_target). *)
(*                                                                         *)
(* A job is its type and its range, which is how UNIQUE (source_id,        *)
(* job_type, from_block, to_block) identifies it.  The ledger is reduced   *)
(* to what becomes of a block: its logs are missing, live or orphaned.     *)
(* Between two steps of a worker lies every await and every transaction    *)
(* boundary of execute_job.                                                *)
(***************************************************************************)
EXTENDS JobQueue, Ranges

CONSTANTS
  Requests,       \* CLI invocations: [cmd, from, to]
  RangeSize,      \* --range-size of backfill-contract
  Confirmations,  \* chains.finality_confirmations
  InitHead,       \* the head of the chain when the system starts
  MaxHead,        \* bound: the last block the chain reaches
  MaxReorgs       \* bound: how many reorganisations happen

Blocks == 0..MaxHead
None == -1        \* an absent row or value

\* --to-block is a block number or, by default, "latest" (None here), which
\* parse_block_arg reads as the finalized head.
RequestSet ==
  [cmd : {"backfill", "enqueue", "scan", "replay"}, from : Blocks,
   to : Blocks \cup {None}]

ASSUME IndexerAssumption ==
  /\ Jobs = {j \in [type : {"ingest", "replay"}, from : Blocks, to : Blocks] :
              j.from <= j.to}
  /\ ReplayJobs = {j \in Jobs : j.type = "replay"}
  /\ Requests \subseteq RequestSet
  /\ \A r \in Requests : r.cmd = "replay" => r.from <= r.to
  /\ RangeSize \in Nat \ {0}
  /\ Confirmations \in Nat /\ InitHead \in Nat /\ MaxHead \in Nat
  /\ InitHead <= MaxHead
  /\ MaxReorgs \in Nat

VARIABLES
  head,        \* the block number the RPC endpoint reports
  hashOf,      \* the canonical hash of every block, as the number of its version
  reorgs,      \* history: reorganisations so far
  start,       \* sources.start_block; None before the source exists
  request,     \* how far each CLI invocation got
  upTo,        \* the to-block it resolved; None before that
  planned,     \* jobs a CLI invocation is about to insert
  block,       \* what the ledger holds of each block
  processed, finalized, cpHash,   \* the checkpoint row; None before it exists
  phase,       \* where each worker is inside execute_job
  startSeen,   \* source.start_block as loaded at the start of the job
  observed,    \* observed_finalized_block
  target,      \* the checkpoint target a worker computed
  hashSeen     \* the block hash it fetched for it

cliVars == <<start, request, upTo, planned>>
chainVars == <<head, hashOf, reorgs>>
cpVars == <<processed, finalized, cpHash>>
execVars == <<phase, startSeen, observed, target, hashSeen>>
ixVars == <<vars, chainVars, cliVars, block, cpVars, execVars>>

\* What a worker does next inside execute_job.
Phase == {"none", "head", "orphan", "fetch", "receipts", "target", "hash",
          "advance", "insert", "done", "failed"}

\* A command that nobody runs is "done" from the start.
IxInit ==
  /\ Init
  /\ head = InitHead
  /\ hashOf = [b \in Blocks |-> 0]
  /\ reorgs = 0
  /\ start = None
  /\ request \in [Requests -> {"new", "done"}]
  /\ upTo = [r \in Requests |-> None]
  /\ planned = {}
  /\ block = [b \in Blocks |-> "missing"]
  /\ processed = None /\ finalized = None /\ cpHash = None
  /\ phase = [w \in Workers |-> "none"]
  /\ startSeen = [w \in Workers |-> None]
  /\ observed = [w \in Workers |-> None]
  /\ target = [w \in Workers |-> None]
  /\ hashSeen = [w \in Workers |-> None]

MaxOf(a, b) == IF a >= b THEN a ELSE b
MinOf(a, b) == IF a <= b THEN a ELSE b

-----------------------------------------------------------------------------
(* The chain, external: its head grows and its blocks may be replaced.     *)

HeadAdvances ==
  /\ head < MaxHead
  /\ head' = head + 1
  /\ UNCHANGED <<vars, hashOf, reorgs, cliVars, block, cpVars, execVars>>

Reorg(b) ==
  /\ reorgs < MaxReorgs
  /\ reorgs' = reorgs + 1
  /\ hashOf' = [c \in Blocks |-> IF c >= b THEN reorgs + 1 ELSE hashOf[c]]
  /\ UNCHANGED <<vars, head, cliVars, block, cpVars, execVars>>

\* head.saturating_sub(finality_confirmations)
FinalizedHead == MaxOf(head - Confirmations, 0)

-----------------------------------------------------------------------------
(* The CLI.  Each command is several transactions.                         *)

\* resolve_finalized_range: a given to-block is not compared with finality.
ResolveRange(r) ==
  LET to == IF r.to = None THEN FinalizedHead ELSE r.to
  IN /\ r.cmd # "replay"
     /\ request[r] = "new"
     /\ upTo' = [upTo EXCEPT ![r] = to]
     /\ request' = [request EXCEPT ![r] =
                      IF r.from > to THEN "done" ELSE "resolved"]
     /\ UNCHANGED <<vars, chainVars, start, planned, block, cpVars, execVars>>

\* ensure_source: the upsert overwrites start_block of an existing source.
EnsureSource(r) ==
  /\ request[r] = "resolved"
  /\ request' = [request EXCEPT ![r] = "ensured"]
  /\ start' = r.from
  /\ UNCHANGED <<vars, chainVars, upTo, planned, block, cpVars, execVars>>

SplitInclusiveRangeHalfOpen(from, to) ==        \* mutant: to is left out
  {[type |-> "ingest", from |-> a, to |-> MinOf(a + RangeSize, to) - 1] :
     a \in {x \in from..to : (x - from) % RangeSize = 0}}

\* split_inclusive_range, as the set of chunks its loop pushes.
SplitInclusiveRange(from, to) ==
  {[type |-> "ingest", from |-> a, to |-> MinOf(a + RangeSize - 1, to)] :
     a \in {x \in from..to : (x - from) % RangeSize = 0}}

\* The jobs are inserted one by one after the command has planned them.
Plan(r, before, new) ==
  /\ request[r] = before
  /\ request' = [request EXCEPT ![r] = "done"]
  /\ planned' = planned \cup new
  /\ UNCHANGED <<vars, chainVars, start, upTo, block, cpVars, execVars>>

\* plan_backfill_jobs resumes after the checkpoint.
PlanBackfill(r) ==
  /\ r.cmd = "backfill"
  /\ Plan(r, "ensured",
          SplitInclusiveRange(MaxOf(r.from, processed + 1), upTo[r]))

EnqueueContract(r) ==
  /\ r.cmd = "enqueue"
  /\ Plan(r, "ensured", {[type |-> "ingest", from |-> r.from, to |-> upTo[r]]})

EnqueueReplay(r) ==
  /\ r.cmd = "replay"
  /\ start # None                               \* contract source not found
  /\ Plan(r, "new", {[type |-> "replay", from |-> r.from, to |-> r.to]})

\* One insert of the planning loop; an existing row is left as it is.
InsertJob(j) ==
  /\ j \in planned
  /\ planned' = planned \ {j}
  /\ Enqueue(j) \/ (status[j] # "absent" /\ UNCHANGED vars)
  /\ UNCHANGED <<chainVars, start, request, upTo, block, cpVars, execVars>>

-----------------------------------------------------------------------------
(* The ledger writes *)

PersistedIgnoringRestore(R, restore) ==   \* mutant: orphaned rows stay so
  [b \in Blocks |-> IF b \in R /\ block[b] = "missing"
                    THEN "live" ELSE block[b]]

\* persist_decoded_logs_with_options: rows that conflict with orphaned ones
\* stay orphaned unless the caller restores them.
Persisted(R, restore) ==
  [b \in Blocks |-> IF b \in R /\ (restore \/ block[b] = "missing")
                    THEN "live" ELSE block[b]]

\* orphan_source_range
Orphaned(R) ==
  [b \in Blocks |-> IF b \in R /\ block[b] = "live"
                    THEN "orphaned" ELSE block[b]]

\* scan-contract ingests without a job and without looking at finality when
\* --to-block is given.
ScanContract(r) ==
  /\ r.cmd = "scan"
  /\ request[r] = "ensured"
  /\ request' = [request EXCEPT ![r] = "done"]
  /\ block' = Persisted(r.from..upTo[r], FALSE)
  /\ UNCHANGED <<vars, chainVars, start, upTo, planned, cpVars, execVars>>

-----------------------------------------------------------------------------
(* IngestWorker::execute_job *)

Goto(w, p) == phase' = [phase EXCEPT ![w] = p]

\* MarkRunning, then execute_job up to its first await: loads the source.
BeginExecute(w) ==
  /\ MarkRunning(w)
  /\ Goto(w, "head")
  /\ startSeen' = [startSeen EXCEPT ![w] = start]
  /\ UNCHANGED <<chainVars, cliVars, block, cpVars, observed, target, hashSeen>>

ObserveHeadUnguarded(w) ==        \* mutant: the job's range is not compared
  /\ phase[w] = "head"
  /\ observed' = [observed EXCEPT ![w] = FinalizedHead]
  /\ Goto(w, IF held[w] \in ReplayJobs THEN "orphan" ELSE "fetch")
  /\ UNCHANGED <<vars, chainVars, cliVars, block, cpVars, startSeen, target,
                 hashSeen>>

\* observed_finalized_block, and the guard on the job's range.
ObserveHead(w) ==
  /\ phase[w] = "head"
  /\ observed' = [observed EXCEPT ![w] = FinalizedHead]
  /\ Goto(w, IF held[w].to > FinalizedHead THEN "failed"
             ELSE IF held[w] \in ReplayJobs THEN "orphan" ELSE "fetch")
  /\ UNCHANGED <<vars, chainVars, cliVars, block, cpVars, startSeen, target,
                 hashSeen>>

OrphanRange(w) ==
  /\ phase[w] = "orphan"
  /\ block' = Orphaned(BlocksOf(held[w]))
  /\ Goto(w, "fetch")
  /\ UNCHANGED <<vars, chainVars, cliVars, cpVars, startSeen, observed, target,
                 hashSeen>>

\* ingest_source_range up to the commit of the decoded logs.
IngestSourceRange(w) ==
  /\ phase[w] = "fetch"
  /\ block' = Persisted(BlocksOf(held[w]), held[w] \in ReplayJobs)
  /\ Goto(w, "receipts")
  /\ UNCHANGED <<vars, chainVars, cliVars, cpVars, startSeen, observed, target,
                 hashSeen>>

\* The optional receipts; a replay ends here, without touching the checkpoint.
PersistReceipts(w) ==
  /\ phase[w] = "receipts"
  /\ Goto(w, IF held[w] \in ReplayJobs THEN "done" ELSE "target")
  /\ UNCHANGED <<vars, chainVars, cliVars, block, cpVars, startSeen, observed,
                 target, hashSeen>>

SucceededRangesAny(frontier) ==   \* mutant: the status is not compared
  {j \in Jobs \ ReplayJobs : status[j] # "absent" /\ j.to > frontier}

\* The ranges next_contiguous_checkpoint_target looks at.
SucceededRanges(frontier) ==
  {j \in Jobs \ ReplayJobs : status[j] = "succeeded" /\ j.to > frontier}

\* The job's own range counts as completed although its row is "running".
CompletedRanges(w, frontier) == SucceededRanges(frontier) \cup {held[w]}

\* The frontier is the checkpoint, or the block before start_block as this
\* job loaded it.  That the code's loop finds the contiguous target is the
\* subject of ContiguousTarget.
ComputeTarget(w) ==
  LET frontier == IF processed # None THEN processed ELSE startSeen[w] - 1
      R == CompletedRanges(w, frontier)
  IN /\ phase[w] = "target"
     /\ \E t \in {frontier} \cup Blocks :
          /\ IsContiguousTarget(frontier, R, t)
          /\ target' = [target EXCEPT ![w] = t]
          /\ Goto(w, IF t > frontier /\ t <= observed[w] THEN "hash" ELSE "done")
     /\ UNCHANGED <<vars, chainVars, cliVars, block, cpVars, startSeen, observed,
                    hashSeen>>

FetchHash(w) ==
  /\ phase[w] = "hash"
  /\ hashSeen' = [hashSeen EXCEPT ![w] = hashOf[target[w]]]
  /\ Goto(w, "advance")
  /\ UNCHANGED <<vars, chainVars, cliVars, block, cpVars, startSeen, observed,
                 target>>

CheckpointRowLast(w) ==           \* mutant: the last writer wins
  /\ processed' = target[w]
  /\ finalized' = observed[w]
  /\ cpHash' = hashSeen[w]

CheckpointRowObserved(w) ==       \* mutant: finalized_block may step back
  /\ processed' = MaxOf(processed, target[w])
  /\ finalized' = observed[w]
  /\ cpHash' = IF target[w] > processed THEN hashSeen[w] ELSE cpHash

\* The row advance_checkpoint writes over an existing one: both columns only
\* grow, and the hash follows processed_block.  (When neither would grow the
\* code returns early, which leaves the same row.)
CheckpointRow(w) ==
  /\ processed' = MaxOf(processed, target[w])
  /\ finalized' = MaxOf(finalized, observed[w])
  /\ cpHash' = IF target[w] > processed THEN hashSeen[w] ELSE cpHash

\* advance_checkpoint on an existing row, locked by its SELECT.
AdvanceCheckpoint(w) ==
  /\ phase[w] = "advance"
  /\ IF processed = None
     THEN Goto(w, "insert") /\ UNCHANGED cpVars
     ELSE IF target[w] = processed /\ hashSeen[w] # cpHash
     THEN Goto(w, "failed") /\ UNCHANGED cpVars   \* checkpoint hash mismatch
     ELSE Goto(w, "done") /\ CheckpointRow(w)
  /\ UNCHANGED <<vars, chainVars, cliVars, block, startSeen, observed, target,
                 hashSeen>>

\* advance_checkpoint when the SELECT found no row to lock: the INSERT fails
\* on UNIQUE (source_id) if another worker inserted one since.
InsertCheckpoint(w) ==
  /\ phase[w] = "insert"
  /\ IF processed # None
     THEN Goto(w, "failed") /\ UNCHANGED cpVars
     ELSE /\ Goto(w, "done")
          /\ processed' = target[w]
          /\ finalized' = observed[w]
          /\ cpHash' = hashSeen[w]
  /\ UNCHANGED <<vars, chainVars, cliVars, block, startSeen, observed, target,
                 hashSeen>>

\* An RPC call or a transaction of execute_job returns an error (a balance
\* that would go negative is one).
ExecutionFails(w) ==
  /\ phase[w] \notin {"none", "done", "failed"}
  /\ Goto(w, "failed")
  /\ UNCHANGED <<vars, chainVars, cliVars, block, cpVars, startSeen, observed,
                 target, hashSeen>>

\* The worker leaves execute_job; its local values are gone.
LeaveExecution(w) ==
  /\ Goto(w, "none")
  /\ startSeen' = [startSeen EXCEPT ![w] = None]
  /\ observed' = [observed EXCEPT ![w] = None]
  /\ target' = [target EXCEPT ![w] = None]
  /\ hashSeen' = [hashSeen EXCEPT ![w] = None]
  /\ UNCHANGED <<chainVars, cliVars, block, cpVars>>

\* A shutdown is noticed only where execute_job awaits the RPC.
Awaiting(w) == phase[w] \in {"head", "orphan", "fetch", "receipts", "hash"}

FinishSucceeded(w) == phase[w] = "done" /\ MarkSucceeded(w) /\ LeaveExecution(w)
FinishFailed(w) == phase[w] = "failed" /\ MarkFailed(w) /\ LeaveExecution(w)
Interrupt(w) == Awaiting(w) /\ MarkInterrupted(w) /\ LeaveExecution(w)
CrashExecuting(w) == Crash(w) /\ LeaveExecution(w)

\* Steps of the queue that do not concern the execution.
QueueStep ==
  /\ \/ \E j \in Jobs : LeaseExpires(j)
     \/ \E w \in Workers :
          LockNextCandidate(w) \/ NoCandidate(w) \/ CommitLease(w) \/ Restart(w)
  /\ UNCHANGED <<chainVars, cliVars, block, cpVars, execVars>>

CliStep ==
  \/ \E r \in Requests :
       \/ ResolveRange(r) \/ EnsureSource(r) \/ PlanBackfill(r)
       \/ EnqueueContract(r) \/ EnqueueReplay(r) \/ ScanContract(r)
  \/ \E j \in Jobs : InsertJob(j)

ExecutionStep(w) ==
  \/ BeginExecute(w) \/ ObserveHead(w) \/ OrphanRange(w) \/ IngestSourceRange(w)
  \/ PersistReceipts(w) \/ ComputeTarget(w) \/ FetchHash(w)
  \/ AdvanceCheckpoint(w) \/ InsertCheckpoint(w) \/ ExecutionFails(w)
  \/ FinishSucceeded(w) \/ FinishFailed(w)

IxNext ==
  \/ HeadAdvances
  \/ \E b \in Blocks : Reorg(b)
  \/ CliStep
  \/ QueueStep
  \/ \E w \in Workers :
       ExecutionStep(w) \/ Interrupt(w) \/ CrashExecuting(w)

IxSpec == IxInit /\ [][IxNext]_ixVars

-----------------------------------------------------------------------------
(* Properties *)

\* Every variable stays in its type; in particular planning never produces a
\* range outside the chain or an inverted one.
IxTypeOK ==
  /\ head \in Blocks
  /\ hashOf \in [Blocks -> Nat]
  /\ reorgs \in Nat
  /\ start \in Blocks \cup {None}
  /\ request \in [Requests -> {"new", "resolved", "ensured", "done"}]
  /\ upTo \in [Requests -> Blocks \cup {None}]
  /\ planned \subseteq Jobs
  /\ block \in [Blocks -> {"missing", "live", "orphaned"}]
  /\ processed \in Blocks \cup {None}
  /\ finalized \in Blocks \cup {None}
  /\ cpHash \in Nat \cup {None}
  /\ phase \in [Workers -> Phase]
  /\ startSeen \in [Workers -> Blocks \cup {None}]
  /\ observed \in [Workers -> Blocks \cup {None}]
  /\ target \in [Workers -> Blocks \cup {None}]
  /\ hashSeen \in [Workers -> Nat \cup {None}]

Ingested(from, to) == \A b \in from..to : block[b] # "missing"

\* "checkpoints: contiguous source progress": everything from a start block
\* that some command requested up to processed_block has been ingested, in
\* every interleaving of workers that compute and write targets, although the
\* target is computed, its hash fetched and the row written in three steps.
CheckpointContiguous ==
  processed # None =>
    \E r \in Requests : r.from <= processed /\ Ingested(r.from, processed)

\* The checkpoint never moves back, and its hash changes only together with
\* its block: a slow worker's advance_checkpoint cannot undo a faster one's.
CheckpointOnlyAdvances ==
  [][/\ processed' >= processed
     /\ finalized' >= finalized
     /\ cpHash' # cpHash => processed' > processed]_ixVars

\* processed_block <= finalized_block (a CHECK of the table), and the chain
\* really is final up to finalized_block.
CheckpointFinalized ==
  processed # None => processed <= finalized /\ finalized <= FinalizedHead

\* "ingests only finalized blocks".
OnlyFinalizedIngested ==
  \A b \in Blocks : block[b] # "missing" => b <= FinalizedHead

\* While leases outlive all work: rows that a replay orphaned stay orphaned
\* only while a replay of their block is unfinished (or was dead-lettered).
\* So no interleaving of overlapping replays, ingests, failures, shutdowns
\* and crashes loses a block when all replays succeed.
OrphanedBlocksPending ==
  \A b \in Blocks : block[b] = "orphaned" =>
    \E j \in ReplayJobs :
      b \in BlocksOf(j) /\ attempts[j] > 0 /\ status[j] # "succeeded"

Idle == \A w \in Workers : phase[w] = "none"

\* When nobody is executing, the checkpoint has absorbed every succeeded
\* ingest range that touches it ("Advances checkpoints only across contiguous
\* succeeded ingest ranges").
CheckpointCaughtUp ==
  Idle /\ processed # None =>
    ~\E j \in SucceededRanges(processed) : j.from <= processed + 1

\* What backfill-contract prints when it plans no job: "No new jobs needed; the
\* checkpoint already covers the requested range."
NothingPlannedMeansCovered ==
  \A r \in Requests :
    r.cmd = "backfill" /\ request[r] = "ensured" /\ processed >= upTo[r] =>
      Ingested(r.from, upTo[r])
=============================================================================
