------------------------------ MODULE ReorgWatch ------------------------------
(***************************************************************************)
(* Noticing and repairing reorganisations of one source: verify-reorg      *)
(* (application/reorg.rs) compares the stored block hashes with the node   *)
(* and records ranges of mismatches in reorg_events; enqueue-replay        *)
(* (main.rs) inserts a replay job and links the matching rows to it.  Next *)
(* to them any number of processes write block hashes: workers that ingest *)
(* and replay, scan-contract and backfill-event-metadata.                  *)
(*                                                                         *)
(* The ledger is reduced to the block hashes of its live events, a hash to *)
(* the number of the reorganisation that made it: a replaced block never   *)
(* comes back, and a transaction that is mined again stays in its block.   *)
(* Who may execute a job and when is the subject of JobQueue: here a lease *)
(* may run out at any time.                                                *)
(***************************************************************************)
EXTENDS Ranges, Sequences, FiniteSets

CONSTANTS
  Processes,   \* the workers, and the commands that write events
  MaxBlock,    \* the last block
  ChunkSize,   \* the blocks of one eth_getLogs call
  HasLogs,     \* HasLogs[h]: the blocks that emit logs when their hash is h
  Indexed,     \* the blocks of earlier scans, whose events are in the ledger
  Ingests,     \* the ranges of ingest jobs and of scan-contract
  Replays,     \* the ranges enqueue-replay is called with
  Checks,      \* the ranges verify-reorg is called with
  MaxReorgs,   \* bound: how many reorganisations happen
  MaxStarts,   \* bound: how many times a process takes up work
  MaxChecks    \* bound: how many verifications are started

Blocks == 0..MaxBlock
BlockRange == {r \in [from : Blocks, to : Blocks] : r.from <= r.to}
Nobody == [from |-> -1, to |-> -1]    \* "no range": SQL NULL, nothing in hand

Hashes == 0..MaxReorgs
NoHash == -1

ASSUME ReorgWatchAssumption ==
  /\ MaxBlock \in Nat /\ MaxReorgs \in Nat /\ MaxChecks \in Nat
  /\ MaxStarts \in Nat /\ ChunkSize \in Nat \ {0}
  /\ Indexed \subseteq Blocks /\ Ingests \subseteq BlockRange
  /\ Replays \subseteq BlockRange /\ Checks \subseteq BlockRange
  /\ HasLogs \in [Hashes -> SUBSET Blocks]

VARIABLES
  hashOf,      \* the canonical hash of every block
  reorgs,      \* history: reorganisations so far
  stored,      \* stored[b]: the distinct block_hash of b's events not orphaned
  buried,      \* the blocks with orphaned events
  checkpoint,  \* processed_block and its hash; block -1 before the row exists
  events,      \* table reorg_events, in order of insertion
  status,      \* status[r]: jobs.status of the replay job of r
  \* the processes
  task, phase, range, fetched,
  starts,      \* history: jobs and commands taken up so far
  late,        \* history: hashes that were no longer canonical when they were
               \* committed, and by which replay, since their block was orphaned
  \* a verification
  vpc, checked, expected, mismatches,
  checks,      \* history: verifications so far
  condemned,   \* history: what was loaded although no longer canonical
  \* enqueue-replay
  linking      \* the range whose rows the command is about to link

chain == <<hashOf, reorgs>>
ledger == <<stored, buried, late>>
processes == <<task, phase, range, fetched, starts>>
verifier == <<vpc, checked, expected, mismatches, checks, condemned>>
rwVars == <<chain, ledger, checkpoint, events, status, processes, verifier, linking>>

Unfetched == [b \in Blocks |-> NoHash]

RwInit ==
  /\ hashOf = [b \in Blocks |-> 0] /\ reorgs = 0
  /\ stored = [b \in Blocks |-> IF b \in Indexed THEN {0} ELSE {}]
  /\ buried = {} /\ late = {}
  /\ checkpoint = [block |-> -1, hash |-> NoHash]
  /\ events = <<>>
  /\ status = [r \in Replays |-> "absent"]
  /\ task = [p \in Processes |-> "none"] /\ phase = [p \in Processes |-> "idle"]
  /\ range = [p \in Processes |-> Nobody]
  /\ fetched = [p \in Processes |-> Unfetched] /\ starts = 0
  /\ vpc = "idle" /\ checked = Nobody /\ expected = {} /\ mismatches = <<>>
  /\ checks = 0 /\ condemned = {}
  /\ linking = Nobody

\* The chain, external.
Reorg(b) ==
  /\ reorgs < MaxReorgs
  /\ reorgs' = reorgs + 1
  /\ hashOf' = [c \in Blocks |-> IF c >= b THEN reorgs + 1 ELSE hashOf[c]]
  /\ UNCHANGED <<ledger, checkpoint, events, status, processes, verifier, linking>>

-----------------------------------------------------------------------------
(* The processes *)

Start(p, t, r, ph) ==
  /\ phase[p] = "idle"
  /\ starts < MaxStarts /\ starts' = starts + 1
  /\ task' = [task EXCEPT ![p] = t]
  /\ range' = [range EXCEPT ![p] = r]
  /\ phase' = [phase EXCEPT ![p] = ph]
  /\ UNCHANGED <<chain, ledger, checkpoint, events, fetched, verifier, linking>>

Proceed(p, ph) == phase' = [phase EXCEPT ![p] = ph] /\ UNCHANGED <<task, range, starts>>

Forget(p) == fetched' = [fetched EXCEPT ![p] = Unfetched]

Leave(p) ==
  /\ task' = [task EXCEPT ![p] = "none"]
  /\ phase' = [phase EXCEPT ![p] = "idle"]
  /\ range' = [range EXCEPT ![p] = Nobody]
  /\ Forget(p)
  /\ UNCHANGED starts

\* A worker gets an ingest job; or scan-contract is called, which leaves
\* (Abandon) when it has committed.
BeginIngest(p, r) == Start(p, "ingest", r, "fetch") /\ UNCHANGED status

\* backfill-event-metadata comes to a block in which events lack metadata.
BeginRepair(p, b) ==
  /\ stored[b] # {} \/ b \in buried
  /\ Start(p, "repair", [from |-> b, to |-> b], "fetch")
  /\ UNCHANGED status

\* lease_next_candidate: the job waits, or the lease of its worker has run out.
LeaseReplay(p, r) ==
  /\ status[r] \in {"queued", "leased", "running"}
  /\ Start(p, "replay", r, "leased")
  /\ status' = [status EXCEPT ![r] = "leased"]

\* mark_running: by the id of the job, whatever has become of it.
MarkRunning(p) ==
  /\ phase[p] = "leased"
  /\ status' = [status EXCEPT ![range[p]] = "running"]
  /\ Proceed(p, "orphan")
  /\ UNCHANGED <<chain, ledger, checkpoint, events, fetched, verifier, linking>>

\* orphan_source_range, for the events.
OrphanRange(p) ==
  LET R == BlocksOf(range[p])
  IN /\ phase[p] = "orphan"
     /\ stored' = [b \in Blocks |-> IF b \in R THEN {} ELSE stored[b]]
     /\ buried' = buried \cup {b \in R : stored[b] # {}}
     /\ late' = {l \in late : l.block \notin R}
     /\ Proceed(p, "fetch")
     /\ UNCHANGED <<chain, checkpoint, events, status, fetched, verifier, linking>>

\* One eth_getLogs call, for the next chunk of the range.
FetchLogs(p) ==
  LET ahead == {b \in BlocksOf(range[p]) : fetched[p][b] = NoHash}
      chunk == {b \in ahead : Cardinality({c \in ahead : c < b}) < ChunkSize}
  IN /\ phase[p] = "fetch"
     /\ fetched' = [fetched EXCEPT ![p] =
                      [b \in Blocks |-> IF b \in chunk THEN hashOf[b] ELSE @[b]]]
     /\ Proceed(p, IF chunk = ahead THEN "persist" ELSE "fetch")
     /\ UNCHANGED <<chain, ledger, checkpoint, events, status, verifier, linking>>

\* The commits of p to the blocks W: those that bring back a replaced block.
Belated(p, W) ==
  {[block |-> b, hash |-> fetched[p][b],
    by |-> IF task[p] = "replay" THEN range[p] ELSE Nobody] :
     b \in {c \in W : fetched[p][c] # hashOf[c]}}

\* persist_decoded_logs_with_options: a log that is stored already takes over
\* the new block hash; the rows of logs that are not there any more keep the old
\* one.  Only a replay restores orphaned rows: the others write nothing live to a
\* block if all its logs are orphaned.
PersistLogs(p) ==
  LET R == BlocksOf(range[p])
      logged == {b \in R : b \in HasLogs[fetched[p][b]]}
  IN /\ phase[p] = "persist" /\ task[p] # "repair"
     /\ \E kept \in [R -> SUBSET Hashes], written \in SUBSET logged :
          /\ \A b \in R : kept[b] \subseteq stored[b]
          /\ \A b \in logged \ written : task[p] # "replay" /\ b \in buried
          /\ stored' = [b \in Blocks |-> IF b \in written THEN {fetched[p][b]} \cup kept[b]
                                         ELSE stored[b]]
          /\ late' = late \cup Belated(p, written)
     /\ Proceed(p, IF task[p] = "replay" THEN "done" ELSE "tip")
     /\ Forget(p)
     /\ UNCHANGED <<chain, buried, checkpoint, events, status, verifier, linking>>

\* update_log_metadata for one log of the block; it does not ask whether the
\* events are orphaned.
UpdateMetadata(p) ==
  LET b == range[p].from
  IN /\ phase[p] = "persist" /\ task[p] = "repair"
     /\ b \in HasLogs[fetched[p][b]]
     /\ stored[b] # {}
     /\ \E kept \in SUBSET stored[b] :
          stored' = [stored EXCEPT ![b] = {fetched[p][b]} \cup kept]
     /\ late' = late \cup Belated(p, {b})
     /\ UNCHANGED <<chain, buried, checkpoint, events, status, processes, verifier,
                    linking>>

\* block_hash of the target at the end of an ingest job, and the checkpoint
\* row; how the target is found is modelled in Indexer.
FetchTip(p) ==
  /\ phase[p] = "tip"
  /\ fetched' = [fetched EXCEPT ![p][range[p].to] = hashOf[range[p].to]]
  /\ Proceed(p, "advance")
  /\ UNCHANGED <<chain, ledger, checkpoint, events, status, verifier, linking>>

AdvanceCheckpoint(p) ==
  LET target == range[p].to
  IN /\ phase[p] = "advance"
     /\ checkpoint' = IF target > checkpoint.block
                      THEN [block |-> target, hash |-> fetched[p][target]]
                      ELSE checkpoint
     /\ Leave(p)
     /\ UNCHANGED <<chain, ledger, events, status, verifier, linking>>

\* mark_succeeded, again by the id of the job.
FinishReplay(p) ==
  /\ phase[p] = "done"
  /\ status' = [status EXCEPT ![range[p]] = "succeeded"]
  /\ Leave(p)
  /\ UNCHANGED <<chain, ledger, checkpoint, events, verifier, linking>>

\* An error or a shutdown, after which a replay goes back to the queue or has
\* used up its attempts; or the death of the process; or the end of the repair.
Abandon(p) ==
  /\ phase[p] # "idle"
  /\ IF task[p] = "replay"
     THEN \E s \in {"queued", "dead_lettered", status[range[p]]} :
            status' = [status EXCEPT ![range[p]] = s]
     ELSE UNCHANGED status
  /\ Leave(p)
  /\ UNCHANGED <<chain, ledger, checkpoint, events, verifier, linking>>

-----------------------------------------------------------------------------
(* verify_source_reorgs *)

Live(r) == {p \in BlocksOf(r) \X Hashes : p[2] \in stored[p[1]]}

\* indexed_block_hashes, in a query of its own
LoadIndexed(r) ==
  /\ vpc = "idle"
  /\ checks < MaxChecks
  /\ checks' = checks + 1
  /\ checked' = r
  /\ expected' = Live(r)
  /\ condemned' = {p \in Live(r) : p[2] # hashOf[p[1]]}
  /\ vpc' = "checkpoint"
  /\ UNCHANGED <<chain, ledger, checkpoint, events, status, processes, mismatches,
                 linking>>

\* checkpoint_for_source; its hash joins the set when the block is in range.
LoadCheckpoint ==
  LET own == {p \in {<<checkpoint.block, checkpoint.hash>>} : p[1] \in BlocksOf(checked)}
  IN /\ vpc = "checkpoint"
     /\ expected' = expected \cup own
     /\ condemned' = condemned \cup {p \in own : p[2] # hashOf[p[1]]}
     /\ vpc' = "compare"
     /\ UNCHANGED <<chain, ledger, checkpoint, events, status, processes, checked,
                    mismatches, checks, linking>>

\* The order of the BTreeSet.
Precedes(p, q) == p[1] < q[1] \/ (p[1] = q[1] /\ p[2] <= q[2])

\* One block_hash call of the loop.
Compare ==
  /\ vpc = "compare"
  /\ \E p \in expected :
       /\ \A q \in expected : Precedes(p, q)
       /\ expected' = expected \ {p}
       /\ mismatches' = IF p[2] # hashOf[p[1]]
                        THEN Append(mismatches, [block |-> p[1], expected |-> p[2],
                                                 actual |-> hashOf[p[1]]])
                        ELSE mismatches
  /\ UNCHANGED <<chain, ledger, checkpoint, events, status, processes, vpc, checked,
                 checks, condemned, linking>>

RunLengthToEnd(M) == Len(M)       \* mutant: one row, whatever lies between

\* The length of the leading run of consecutive blocks.
RunLength(M) ==
  CHOOSE n \in 1..Len(M) :
    /\ \A i \in 1..(n - 1) : M[i + 1].block = M[i].block + 1
    /\ n < Len(M) => M[n + 1].block # M[n].block + 1

RestSkipsOne(M, n) ==             \* mutant: range_start = index + 1
  SubSeq(M, n + 2, Len(M))

\* What record_reorg_ranges still has to record after a run.
Rest(M, n) == SubSeq(M, n + 1, Len(M))

EventRowSwapped(run) ==           \* mutant: first and last are swapped
  [from |-> run[Len(run)].block, to |-> run[1].block, mismatches |-> run,
   job |-> Nobody, fresh |-> FALSE]

\* The row of record_reorg_range.  fresh is history: had the replay still to
\* orphan its range when the row was linked to it?
EventRow(run) ==
  [from |-> run[1].block, to |-> run[Len(run)].block, mismatches |-> run,
   job |-> Nobody, fresh |-> FALSE]

\* record_reorg_event: a statement of its own.
InsertEvent(row) == events' = Append(events, row)

\* One insert of record_reorg_ranges.
RecordRange ==
  LET n == RunLength(mismatches)
  IN /\ vpc = "compare" /\ expected = {}
     /\ mismatches # <<>>
     /\ InsertEvent(EventRow(SubSeq(mismatches, 1, n)))
     /\ mismatches' = Rest(mismatches, n)
     /\ UNCHANGED <<chain, ledger, checkpoint, status, processes, vpc, checked,
                    expected, checks, condemned, linking>>

\* The command ends: all recorded, or an RPC call or an insert failed.
VerifyEnds ==
  /\ vpc # "idle"
  /\ vpc' = "idle"
  /\ checked' = Nobody /\ expected' = {} /\ mismatches' = <<>> /\ condemned' = {}
  /\ UNCHANGED <<chain, ledger, checkpoint, events, status, processes, checks,
                 linking>>

-----------------------------------------------------------------------------
(* enqueue_replay *)

Terminal(s) == s \in {"succeeded", "dead_lettered"}

EnqueueReplay(r) ==
  /\ linking = Nobody
  /\ status' = [status EXCEPT ![r] = IF @ = "absent" THEN "queued" ELSE @]
  /\ linking' = IF Terminal(status[r]) THEN Nobody ELSE r
  /\ UNCHANGED <<chain, ledger, checkpoint, events, processes, verifier>>

MatchesOverlap(e, r) ==           \* mutant: rows that only overlap the replay
  e.job = Nobody /\ e.from <= r.to /\ e.to >= r.from

\* The WHERE clause of link_reorg_events_to_replay_job.
Matches(e, r) == e.job = Nobody /\ e.from >= r.from /\ e.to <= r.to

Executing(r) == {p \in Processes : task[p] = "replay" /\ range[p] = r}

\* The replay of r has not succeeded, and whoever executes it has not orphaned
\* the range yet.
StillToOrphan(r) ==
  /\ status[r] # "succeeded"
  /\ \A p \in Executing(r) : phase[p] \in {"leased", "orphan"}

\* The status is not read again: the replay may be over by now.
LinkReorgEvents ==
  /\ linking # Nobody
  /\ events' = [i \in DOMAIN events |->
                  IF Matches(events[i], linking)
                  THEN [events[i] EXCEPT !.job = linking,
                                         !.fresh = StillToOrphan(linking)]
                  ELSE events[i]]
  /\ linking' = Nobody
  /\ UNCHANGED <<chain, ledger, checkpoint, status, processes, verifier>>

\* The command dies between its two statements.
EnqueueReplayDies ==
  /\ linking # Nobody
  /\ linking' = Nobody
  /\ UNCHANGED <<chain, ledger, checkpoint, events, status, processes, verifier>>

-----------------------------------------------------------------------------
RwNext ==
  \/ \E b \in Blocks : Reorg(b)
  \/ \E p \in Processes :
       \/ \E r \in Ingests : BeginIngest(p, r)
       \/ \E b \in Blocks : BeginRepair(p, b)
       \/ \E r \in Replays : LeaseReplay(p, r)
       \/ MarkRunning(p) \/ OrphanRange(p) \/ FetchLogs(p) \/ PersistLogs(p)
       \/ UpdateMetadata(p) \/ FetchTip(p) \/ AdvanceCheckpoint(p)
       \/ FinishReplay(p) \/ Abandon(p)
  \/ \E r \in Replays : EnqueueReplay(r)
  \/ \E r \in Checks : LoadIndexed(r)
  \/ LoadCheckpoint \/ Compare \/ RecordRange \/ VerifyEnds
  \/ LinkReorgEvents \/ EnqueueReplayDies

RwSpec == RwInit /\ [][RwNext]_rwVars

-----------------------------------------------------------------------------
(* Properties *)

Mismatch == [block : Blocks, expected : Hashes, actual : Hashes]
EventRows == [from : Blocks, to : Blocks, mismatches : Seq(Mismatch),
              job : Replays \cup {Nobody}, fresh : BOOLEAN]
Pairs == Blocks \X Hashes
JobStatus == {"absent", "queued", "leased", "running", "succeeded", "dead_lettered"}
Phases == {"idle", "leased", "orphan", "fetch", "persist", "tip", "advance", "done"}

\* Every variable stays in its type; a recorded range is not inverted (a CHECK
\* of reorg_events).
RwTypeOK ==
  /\ hashOf \in [Blocks -> Hashes] /\ reorgs \in 0..MaxReorgs
  /\ stored \in [Blocks -> SUBSET Hashes] /\ buried \subseteq Blocks
  /\ late \subseteq [block : Blocks, hash : Hashes, by : Replays \cup {Nobody}]
  /\ checkpoint \in [block : Blocks \cup {-1}, hash : Hashes \cup {NoHash}]
  /\ events \in Seq(EventRows)
  /\ \A i \in DOMAIN events : events[i].from <= events[i].to
  /\ status \in [Replays -> JobStatus]
  /\ task \in [Processes -> {"none", "ingest", "repair", "replay"}]
  /\ phase \in [Processes -> Phases]
  /\ range \in [Processes -> BlockRange \cup {Nobody}]
  /\ fetched \in [Processes -> [Blocks -> Hashes \cup {NoHash}]]
  /\ starts \in 0..MaxStarts
  /\ vpc \in {"idle", "checkpoint", "compare"}
  /\ checked \in Checks \cup {Nobody}
  /\ expected \subseteq Pairs /\ condemned \subseteq Pairs
  /\ mismatches \in Seq(Mismatch)
  /\ checks \in 0..MaxChecks
  /\ linking \in Replays \cup {Nobody}

Recorded ==
  UNION {{<<events[i].mismatches[k].block, events[i].mismatches[k].expected>> :
            k \in DOMAIN events[i].mismatches} : i \in DOMAIN events}

\* A verification that runs to its end has recorded every hash that it loaded
\* and that was not canonical then, whatever the chain, the workers and
\* enqueue-replay do while it awaits the node and inserts its rows.
NoMismatchMissed ==
  vpc = "compare" /\ expected = {} /\ mismatches = <<>> => condemned \subseteq Recorded

\* "Detected mismatches are coalesced into reorg_events rows": the range of a
\* row has no block without a mismatch, so that replaying the row's range
\* touches nothing that was not reorganised.
RowsAreExact ==
  \A i \in DOMAIN events :
    BlocksOf(events[i]) =
      {events[i].mismatches[k].block : k \in DOMAIN events[i].mismatches}

\* enqueue-replay "links matching reorg_events": a row was linked to a replay
\* that had still to orphan its range, and the replay has succeeded.  If a hash
\* the row complains of is live again, then another process, one that had
\* fetched the block before it was replaced, has committed it since the block
\* was last orphaned; the replay never leaves or brings it back itself, however
\* often it is retried, even by two workers at once, and whatever other workers
\* and commands commit between its steps.
LinkedReplayRepairs ==
  \A i \in DOMAIN events :
    LET e == events[i]
    IN e.fresh /\ status[e.job] = "succeeded" =>
         \A k \in DOMAIN e.mismatches :
           LET m == e.mismatches[k]
           IN m.expected \in stored[m.block] =>
                \E l \in late : l.block = m.block /\ l.hash = m.expected /\ l.by # e.job
=============================================================================
