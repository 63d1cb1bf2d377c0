----------------------------- MODULE LedgerRepair -----------------------------
(***************************************************************************)
(* The two repair commands next to the workers of Ledger (main.rs):        *)
(* backfill-event-metadata, which fetches the logs of blocks with legacy   *)
(* event rows again and rewrites the rows' metadata, block number and hash *)
(* included, and backfill-transaction-receipts, which fetches the receipts *)
(* that are missing and persists them in batches.  Neither takes the lock  *)
(* of the source row.  Each is run once; limits are not reached.           *)
(***************************************************************************)
EXTENDS Ledger

CONSTANT BatchSize     \* --persist-batch-size

ASSUME RepairAssumption == BatchSize \in Nat \ {0}

VARIABLES
  meta,     \* backfill-event-metadata: where it is, the blocks and logs ahead
  missing   \* backfill-transaction-receipts: where it is, what it selected, the
            \* transactions ahead and the batch

repairVars == <<meta, missing>>

RpInit ==
  /\ meta \in {[at |-> at, blocks |-> {}, logs |-> <<>>] : at \in {"new", "ended"}}
  /\ missing \in {[at |-> at, selected |-> {}, ahead |-> {}, batch |-> <<>>] :
                    at \in {"new", "ended"}}

-----------------------------------------------------------------------------
(* backfill-event-metadata *)

\* event_blocks_missing_metadata; orphaned rows count.
EventBlocksMissingMetadata ==
  {event[k].block : k \in {x \in DOMAIN event : event[x].bare}}

SelectBlocks ==
  /\ meta.at = "new"
  /\ meta' = [meta EXCEPT !.at = "running", !.blocks = EventBlocksMissingMetadata]
  /\ UNCHANGED <<lgVars, missing>>

\* The timestamp and the logs of the next block, in ascending order.
FetchBlockLogs ==
  /\ meta.at = "running"
  /\ meta.logs = <<>>
  /\ meta.blocks # {}
  /\ meta' = [meta EXCEPT !.blocks = @ \ {Least(@)}, !.logs = LogsOf(Least(meta.blocks))]
  /\ UNCHANGED <<lgVars, missing>>

\* Some entry of the log is in the hands of an open orphaning.
EntriesLocked(key) ==
  \E w \in Workers : \E k \in locked[w][1] \cup locked[w][2] : k[1] = key

\* The columns of block_number and block_hash taken over from the fetched log.
Relocated(row, f) == [row EXCEPT !.block = f.block, !.hash = f.hash]

\* update_log_metadata: the event and its entries in one transaction, live or
\* orphaned, which waits for the rows that others have locked.
UpdateLogMetadata ==
  LET f == Head(meta.logs)
  IN /\ meta.at = "running"
     /\ meta.logs # <<>>
     /\ ~EntriesLocked(f.log.key)
     /\ event' = [k \in DOMAIN event |->
                    IF k = f.log.key THEN [Relocated(event[k], f) EXCEPT !.bare = FALSE]
                    ELSE event[k]]
     /\ entry' = [k \in DOMAIN entry |->
                    IF k[1] = f.log.key THEN Relocated(entry[k], f) ELSE entry[k]]
     /\ meta' = [meta EXCEPT !.logs = Tail(@)]
     /\ stale' = IF f \in ToSet(LogsOf(f.block)) THEN stale ELSE stale \cup {f.block}
     /\ UNCHANGED <<version, balance, receipt, exec, budget, synced, receipted, missing>>

\* All blocks are done, or a call failed.
MetadataEnds ==
  /\ meta.at = "running"
  /\ meta' = [at |-> "ended", blocks |-> {}, logs |-> <<>>]
  /\ UNCHANGED <<lgVars, missing>>

-----------------------------------------------------------------------------
(* backfill-transaction-receipts *)

\* transaction_hashes_missing_receipts: of live entries, and without any receipt.
TransactionsMissingReceipts ==
  {k[1].tx : k \in {x \in DOMAIN entry : ~entry[x].orphaned}} \ DOMAIN receipt

SelectTransactions ==
  /\ missing.at = "new"
  /\ missing' = [missing EXCEPT !.at = "running",
                                !.selected = TransactionsMissingReceipts,
                                !.ahead = TransactionsMissingReceipts]
  /\ UNCHANGED <<lgVars, meta>>

BatchDueWhenFull(m) ==                  \* mutant: the last batch is forgotten
  Cardinality(DOMAIN m.batch) >= BatchSize

\* A batch is persisted when it is full, and at the end when it is not empty.
BatchDue(m) ==
  \/ Cardinality(DOMAIN m.batch) >= BatchSize
  \/ m.ahead = {} /\ m.batch # <<>>

\* transaction_receipt of the next hash; null ends the command.
FetchMissingReceipt ==
  LET t == CHOOSE t \in missing.ahead : TRUE
  IN /\ missing.at = "running"
     /\ ~BatchDue(missing)
     /\ missing.ahead # {}
     /\ missing' = IF OnChain(t)
                   THEN [missing EXCEPT !.ahead = @ \ {t},
                                        !.batch = Put(@, t, ReceiptOf(t))]
                   ELSE [missing EXCEPT !.at = "failed", !.ahead = {}, !.batch = <<>>]
     /\ UNCHANGED <<lgVars, meta>>

PersistMissingReceipts ==
  /\ missing.at = "running"
  /\ BatchDue(missing)
  /\ receipt' = UpsertReceipts(missing.batch)
  /\ receipted' = receipted \ Outdated(missing.batch)
  /\ missing' = [missing EXCEPT !.batch = <<>>]
  /\ UNCHANGED <<version, tables, exec, budget, synced, stale, meta>>

\* "Transaction receipt backfill complete."
ReceiptsComplete ==
  /\ missing.at = "running"
  /\ missing.ahead = {}
  /\ ~BatchDue(missing)
  /\ missing' = [missing EXCEPT !.at = "ended", !.batch = <<>>]
  /\ UNCHANGED <<lgVars, meta>>

\* A call of the command fails; the batches before it stay.
ReceiptsFail ==
  /\ missing.at = "running"
  /\ missing' = [missing EXCEPT !.at = "failed", !.ahead = {}, !.batch = <<>>]
  /\ UNCHANGED <<lgVars, meta>>

RepairStep ==
  \/ SelectBlocks \/ FetchBlockLogs \/ UpdateLogMetadata \/ MetadataEnds
  \/ SelectTransactions \/ FetchMissingReceipt \/ PersistMissingReceipts
  \/ ReceiptsComplete \/ ReceiptsFail

-----------------------------------------------------------------------------
(* Properties *)

\* "Fetch and persist eth_getTransactionReceipt for ledger rows missing
\* receipts": when the command reports completion, every transaction it had
\* selected has a receipt, also the ones of the last, partial batch, and no
\* concurrent replay or ingest takes one away.
SelectedReceiptsPersisted ==
  missing.at = "ended" => missing.selected \subseteq DOMAIN receipt
=============================================================================
