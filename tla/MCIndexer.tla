------------------------------ MODULE MCIndexer ------------------------------
(***************************************************************************)
(* Small instances of Indexer.                                             *)
(***************************************************************************)
EXTENDS Indexer, TLC

CONSTANTS w1, w2

Req(cmd, from, to) == [cmd |-> cmd, from |-> from, to |-> to]

MCJobs == {j \in [type : {"ingest", "replay"}, from : Blocks, to : Blocks] :
             j.from <= j.to}
MCReplayJobs == {j \in MCJobs : j.type = "replay"}
MCServes == [w \in Workers |-> MCJobs]
OneAttempt == [j \in MCJobs |-> 1]
TwoAttempts == [j \in MCJobs |-> 2]

WorkerSymmetry == Permutations(Workers)

\* Two starts: a backfill of the finalized blocks, and an enqueued range that
\* begins one block later and is not final at first.
CheckpointRequests == {Req("backfill", 0, None), Req("enqueue", 1, 1)}

\* Two replays that overlap; a scan of the finalized blocks fills the ledger,
\* before or between them.
ReplayRequests ==
  {Req("scan", 0, None), Req("replay", 0, 1), Req("replay", 1, 1)}

PipelineRequests == CheckpointRequests \cup ReplayRequests

OnlyRun(R) == request = [r \in Requests |-> IF r \in R THEN "new" ELSE "done"]

\* The checkpoint under a reorganisation, or replays under process deaths and
\* shutdowns; steps fail in both.
PipelineInit == IxInit /\ (OnlyRun(CheckpointRequests) \/ OnlyRun(ReplayRequests))

Replaying == \E r \in ReplayRequests : request[r] # "done" \/ upTo[r] # None

PipelineNext ==
  /\ IxNext
  /\ IF Replaying THEN UNCHANGED reorgs ELSE UNCHANGED <<crashes, interrupts>>

PipelineSpec == PipelineInit /\ [][PipelineNext]_ixVars

AllRun == IxInit /\ OnlyRun(Requests)
AllRunSpec == AllRun /\ [][IxNext]_ixVars

\* A backfill in two chunks and a range that extends it.
CaughtUpRequests == {Req("backfill", 0, 1), Req("enqueue", 1, 2)}

\* Indexing from block 1, then asking for block 0 as well.
EarlierStartRequests == {Req("backfill", 1, 1), Req("backfill", 0, 1)}
=============================================================================
