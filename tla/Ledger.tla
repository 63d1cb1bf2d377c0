-------------------------------- MODULE Ledger --------------------------------
(***************************************************************************)
(* The ledger of one source: the tables events, ledger_entries,            *)
(* token_balances and transaction_receipts, the transactions that write    *)
(* them (infra/postgres/ledger_repository.rs), and the executions of       *)
(* ingest and replay jobs that call them (worker/mod.rs, application/      *)
(* ingest.rs).  Indexer looks at the same executions but sees only what    *)
(* becomes of a block; LedgerRepair and LedgerPages add the other programs *)
(* that work on these tables.                                              *)
(*                                                                         *)
(* Persisting logs and orphaning a range lock the source row first.        *)
(* Persisting is one action: it reads no row but those it writes.          *)
(* Orphaning goes by block number, in three statements, and others that do *)
(* not take the lock may commit between them.  Between transactions a      *)
(* worker awaits the RPC, call by call, while the chain may be reorganised *)
(* and other workers write.  Jobs are whatever the queue may hand out: any *)
(* job may be executed, by any worker, again and again.                    *)
(*                                                                         *)
(* A table is a function from the primary keys of its rows to the rows.    *)
(* An account is a pair (holder_address, token_id).                        *)
(***************************************************************************)
EXTENDS Ranges, Sequences, SequencesExt

CONSTANTS
  Workers,
  ReceiptWorkers, \* those started with --include-transaction-receipts
  NoJob,
  NoAccount,     \* SQL NULL in from_address or to_address: the zero address
  Accounts,
  Work,          \* the jobs: [type, from, to]
  MaxBlock,      \* the last block of the chain
  ChunkSize,     \* --chunk-size: blocks per eth_getLogs call
  Versions,      \* the versions of the chain: Versions[v].logs[b] are the logs of
                 \* block b, Versions[v].fork is the first block it replaces
  Legacies,      \* sets of blocks that may have been indexed before events had
                 \* their metadata columns
  MaxTries       \* bound: executions of one job

Blocks == 0..MaxBlock
Logs == UNION {ToSet(Versions[v].logs[b]) : v \in DOMAIN Versions, b \in Blocks}
LogKey == {l.key : l \in Logs}
Transaction == {k.tx : k \in LogKey}

\* A log: its key (transaction_hash, log_index) and its decoded entries.
Transfer == [from : Accounts \cup {NoAccount}, to : Accounts \cup {NoAccount},
             amount : Nat]

ASSUME LedgerAssumption ==
  /\ ReceiptWorkers \subseteq Workers
  /\ NoJob \notin Work
  /\ Legacies \subseteq SUBSET Blocks
  /\ NoAccount \notin Accounts
  /\ MaxBlock \in Nat /\ MaxTries \in Nat /\ ChunkSize \in Nat \ {0}
  /\ \A j \in Work : /\ j.type \in {"ingest", "replay"}
                     /\ j.from \in Blocks /\ j.to \in Blocks
                     /\ j.from <= j.to
  /\ Len(Versions) \in Nat \ {0} /\ DOMAIN Versions = 1..Len(Versions)
  /\ Versions[1].fork = 0
  /\ \A v \in DOMAIN Versions :
       /\ Versions[v].fork \in Nat
       /\ \A b \in Blocks : Versions[v].logs[b] \in Seq(Logs)
  /\ \A v \in 2..Len(Versions) : \A b \in Blocks :
       b < Versions[v].fork => Versions[v].logs[b] = Versions[v - 1].logs[b]
  /\ \A l \in Logs : l.key.log \in Nat /\ l.entries \in Seq(Transfer)

\* A chain contains a transaction once.
ASSUME MinedOnce ==
  \A v \in DOMAIN Versions : \A b, c \in Blocks :
    \A l \in ToSet(Versions[v].logs[b]), m \in ToSet(Versions[v].logs[c]) :
      l.key.tx = m.key.tx => b = c

VARIABLES
  version,  \* the canonical version of the chain
  event,    \* events, by log key
  entry,    \* ledger_entries, by <<log key, batch_index>>
  balance,  \* token_balances, by account
  receipt,  \* transaction_receipts, by transaction
  job,      \* the job each worker executes
  phase,    \* and how far it is
  cursor,   \* chunk_from
  fetched,  \* the logs fetched so far, each with its block and block hash
  locked,   \* the entries an open orphaning holds: those it loaded, those it marked
  collected,\* the receipts fetched so far
  budget,   \* how often each job will be executed
  synced,   \* history: the blocks whose present logs a replay committed
  stale,    \* history: the blocks that hold rows of an older chain, or may get
            \* them from a commit, since they were last orphaned
  receipted \* history: the blocks whose present receipts were committed, and
            \* none of an older chain since

tables == <<event, entry, balance>>
exec == <<job, phase, cursor, fetched, locked, collected>>
history == <<budget, synced, stale, receipted>>
lgVars == <<version, tables, receipt, exec, history>>

\* The table with the row at key k written.
Put(table, k, row) == [x \in DOMAIN table \cup {k} |->
                         IF x = k THEN row ELSE table[x]]

\* The table with all of rows written.
PutAll(table, rows) == [x \in DOMAIN table \cup DOMAIN rows |->
                          IF x \in DOMAIN rows THEN rows[x] ELSE table[x]]

-----------------------------------------------------------------------------
(* The chain, external.  The hash of a block is the version that made it.  *)

HashOf(b) == CHOOSE v \in 1..version :
               /\ Versions[v].fork <= b
               /\ \A u \in (v + 1)..version : Versions[u].fork > b

LogsOf(b) ==
  LET logs == Versions[version].logs[b]
  IN [i \in DOMAIN logs |-> [log |-> logs[i], block |-> b, hash |-> HashOf(b)]]

TransactionsOf(b) == {f.log.key.tx : f \in ToSet(LogsOf(b))}
OnChain(t) == \E b \in Blocks : t \in TransactionsOf(b)

\* eth_getTransactionReceipt; null, which is an error, unless OnChain(t).
ReceiptOf(t) == LET b == CHOOSE b \in Blocks : t \in TransactionsOf(b)
                IN [block |-> b, hash |-> HashOf(b)]

-----------------------------------------------------------------------------
(* Balances *)

\* collect_balance_delta: what row does to the balance of account a.
Effect(row, a) == (IF row.to = a THEN row.amount ELSE 0)
                - (IF row.from = a THEN row.amount ELSE 0)

\* Rows are passed as sets of at most one row: the live ones count.
Live(rows) == {r \in rows : ~r.orphaned}
LiveEffect(rows, a) == IF Live(rows) = {} THEN 0
                       ELSE Effect(CHOOSE r \in Live(rows) : TRUE, a)

DeltaWithoutPrevious(previous, current, a) ==   \* mutant: counts a row twice
  LiveEffect({current}, a)

\* The balance_delta of a: the previous row reversed, the current one applied.
Delta(previous, current, a) ==
  LiveEffect({current}, a) - LiveEffect(previous, a)

\* Keys of the map of deltas.
Touched(previous, current) ==
  {a \in Accounts : \E r \in Live(previous \cup {current}) : a \in {r.from, r.to}}

Least(S) == CHOOSE x \in S : \A y \in S : x <= y
Greatest(S) == CHOOSE x \in S : \A y \in S : x >= y
OptionalBlock(S, pick(_)) == IF S = {} THEN {} ELSE {pick(S)}

LastMovedOverwritten(old, new) == IF new = {} THEN old ELSE new \* mutant: no max

\* max_optional_block; an optional block is a set of at most one block.
LastMoved(old, new) == OptionalBlock(old \cup new, Greatest)

\* min_optional_block
FirstReceived(old, new) == OptionalBlock(old \cup new, Least)

NegativeAllowed(next) == FALSE                  \* mutant: the check is dropped

\* "balance for holder ... would become negative"
Negative(next) == next < 0

\* apply_balance_delta and apply_holder_balance_delta on the state s of an open
\* transaction; s.ok turns FALSE when the transaction has to roll back.
ApplyBalanceDelta(s, previous, current) ==
  LET T == Touched(previous, current)
      Old(a) == IF a \in DOMAIN s.balance THEN s.balance[a]
                ELSE [amount |-> 0, first |-> {}, last |-> {}]
      Next(a) == Old(a).amount + Delta(previous, current, a)
      received(a) == {r.block : r \in {x \in Live({current}) : x.to = a}}
      moved(a) == {r.block : r \in {x \in Live({current}) : a \in {x.from, x.to}}}
      Row(a) == [amount |-> Next(a),
                 first |-> FirstReceived(Old(a).first, received(a)),
                 last |-> LastMoved(Old(a).last, moved(a))]
      \* a new row with a zero balance is not inserted
      W == {a \in T : a \in DOMAIN s.balance \/ Next(a) # 0}
  IN [s EXCEPT !.ok = @ /\ ~\E a \in T : Negative(Next(a)),
               !.balance = [a \in DOMAIN @ \cup W |->
                              IF a \in W THEN Row(a) ELSE @[a]]]

-----------------------------------------------------------------------------
(* persist_decoded_logs_with_options *)

UpsertEventNoRestore(s, f, restore) ==          \* mutant: restores no event
  [s EXCEPT !.event = Put(@, f.log.key,
     IF f.log.key \in DOMAIN @ THEN [@[f.log.key] EXCEPT !.hash = f.hash]
     ELSE [block |-> f.block, hash |-> f.hash, bare |-> FALSE, orphaned |-> FALSE])]

\* upsert_event: on conflict the row keeps its block_number, and its orphaned
\* flag unless the caller restores conflicts.  A row is bare when it has no
\* timestamp, transaction index and topics; fetched logs have them.
UpsertEvent(s, f, restore) ==
  LET k == f.log.key
      row == IF k \in DOMAIN s.event
             THEN [s.event[k] EXCEPT !.hash = f.hash, !.bare = FALSE,
                                     !.orphaned = @ /\ ~restore]
             ELSE [block |-> f.block, hash |-> f.hash, bare |-> FALSE,
                   orphaned |-> FALSE]
  IN [s EXCEPT !.event = Put(@, k, row)]

\* upsert_ledger_entry: on conflict only the amount and the block hash are
\* taken over; from, to and block_number stay.
UpsertLedgerEntry(old, t, f, restore) ==
  IF old # {}
  THEN LET o == CHOOSE r \in old : TRUE
       IN [o EXCEPT !.amount = t.amount, !.hash = f.hash,
                    !.orphaned = @ /\ ~restore]
  ELSE [from |-> t.from, to |-> t.to, amount |-> t.amount, block |-> f.block,
        hash |-> f.hash, orphaned |-> FALSE]

\* One entry of a log: lock_existing_ledger_entry, upsert, balance delta.  The
\* table refuses a row without either address.
PersistEntry(s, f, n, restore) ==
  LET k == <<f.log.key, n>>
      t == f.log.entries[n]
      previous == IF k \in DOMAIN s.entry THEN {s.entry[k]} ELSE {}
      current == UpsertLedgerEntry(previous, t, f, restore)
      s1 == [s EXCEPT !.entry = Put(@, k, current),
                      !.ok = @ /\ {current.from, current.to} # {NoAccount}]
  IN ApplyBalanceDelta(s1, previous, current)

PersistLog(s, f, restore) ==
  FoldLeftDomain(LAMBDA acc, n : PersistEntry(acc, f, n, restore),
                 UpsertEvent(s, f, restore), f.log.entries)

Opened == [event |-> event, entry |-> entry, balance |-> balance, ok |-> TRUE]

\* The state in which the transaction on s commits, or its last one with ok
\* FALSE.
PersistDecodedLogs(s, logs, restore) ==
  FoldLeft(LAMBDA acc, f : IF acc.ok THEN PersistLog(acc, f, restore) ELSE acc,
           s, logs)

ReceiptsKept(fetchedNow) ==                     \* mutant: ON CONFLICT DO NOTHING
  PutAll(fetchedNow, receipt)

\* upsert_transaction_receipt for every receipt of a batch: all columns are
\* overwritten.
UpsertReceipts(fetchedNow) == PutAll(receipt, fetchedNow)

\* The blocks whose receipts a commit of the batch turns into old ones.
Outdated(fetchedNow) ==
  {b \in Blocks : \E t \in DOMAIN fetchedNow \cap TransactionsOf(b) :
                    fetchedNow[t] # ReceiptOf(t)}

-----------------------------------------------------------------------------
(* What is there when the workers start: empty tables, or the rows an      *)
(* earlier release wrote for some blocks, without metadata.                *)

Empty == [event |-> <<>>, entry |-> <<>>, balance |-> <<>>, ok |-> TRUE]

LegacyTables(B) ==
  LET logs == FlattenSeq([i \in 1..(MaxBlock + 1) |->
                            IF i - 1 \in B THEN LogsOf(i - 1) ELSE <<>>])
      s == PersistDecodedLogs(Empty, logs, FALSE)
  IN [s EXCEPT !.event = [k \in DOMAIN @ |-> [@[k] EXCEPT !.bare = TRUE]]]

\* A worker that is not running is "off"; a job is executed up to MaxTries times.
LgInit ==
  /\ version = 1
  /\ \E B \in Legacies : LET s == LegacyTables(B)
                         IN /\ event = s.event /\ entry = s.entry
                            /\ balance = s.balance /\ s.ok
  /\ receipt = <<>>
  /\ job = [w \in Workers |-> NoJob]
  /\ phase \in [Workers -> {"idle", "off"}]
  /\ cursor = [w \in Workers |-> 0]
  /\ fetched = [w \in Workers |-> <<>>]
  /\ locked = [w \in Workers |-> <<{}, {}>>]
  /\ collected = [w \in Workers |-> <<>>]
  /\ budget \in [Work -> 0..MaxTries]
  /\ synced = {} /\ stale = {} /\ receipted = {}

-----------------------------------------------------------------------------
(* orphan_source_range *)

InRangeOpenEnd(rows, R) ==       \* mutant: block_number < to_block
  {k \in DOMAIN rows : rows[k].block \in R \ {Greatest(R)} /\ ~rows[k].orphaned}

\* WHERE block_number BETWEEN ... AND orphaned = false
InRange(rows, R) == {k \in DOMAIN rows : rows[k].block \in R /\ ~rows[k].orphaned}

\* SET orphaned = true
Orphaned(rows, K) ==
  [k \in DOMAIN rows |-> IF k \in K THEN [rows[k] EXCEPT !.orphaned = TRUE]
                         ELSE rows[k]]

\* ORDER BY block_number, log_index, batch_index; the log_index is part of the
\* key, as its number within the block.
Before(k, m) ==
  \/ entry[k].block < entry[m].block
  \/ entry[k].block = entry[m].block
     /\ (k[1].log < m[1].log \/ (k[1].log = m[1].log /\ k[2] <= m[2]))

LastOf(K) == CHOOSE k \in K : \A m \in K : Before(m, k)

\* The balance effects of the loaded entries K reversed, one by one in order.
Reversed(K) ==
  MapThenFoldSet(LAMBDA k, s :
                   IF s.ok
                   THEN ApplyBalanceDelta(s, {entry[k]}, [entry[k] EXCEPT !.orphaned = TRUE])
                   ELSE s,
                 Opened, LAMBDA k : k, LastOf, K)

\* lock_source_for_write_conn: another transaction has the lock.
SourceLocked == \E w \in Workers : phase[w] \in {"reversed", "marked"}

-----------------------------------------------------------------------------
(* Executing a job *)

Leave(w) ==
  /\ job' = [job EXCEPT ![w] = NoJob]
  /\ phase' = [phase EXCEPT ![w] = "idle"]
  /\ cursor' = [cursor EXCEPT ![w] = 0]
  /\ fetched' = [fetched EXCEPT ![w] = <<>>]
  /\ locked' = [locked EXCEPT ![w] = <<{}, {}>>]
  /\ collected' = [collected EXCEPT ![w] = <<>>]

Commit(s) == event' = s.event /\ entry' = s.entry /\ balance' = s.balance

Begin(w, j) ==
  /\ phase[w] = "idle"
  /\ budget[j] > 0
  /\ budget' = [budget EXCEPT ![j] = @ - 1]
  /\ job' = [job EXCEPT ![w] = j]
  /\ phase' = [phase EXCEPT ![w] = IF j.type = "replay" THEN "orphan" ELSE "fetch"]
  /\ cursor' = [cursor EXCEPT ![w] = j.from]
  /\ UNCHANGED <<version, tables, receipt, fetched, locked, collected, synced,
                 stale, receipted>>

\* SELECT ... FOR UPDATE, and the reversal of the rows it returned.
LoadForOrphaning(w) ==
  LET K == InRange(entry, BlocksOf(job[w]))
  IN /\ phase[w] = "orphan"
     /\ ~SourceLocked
     /\ IF Reversed(K).ok
        THEN /\ phase' = [phase EXCEPT ![w] = "reversed"]
             /\ locked' = [locked EXCEPT ![w] = <<K, {}>>]
             /\ UNCHANGED <<job, cursor, fetched, collected>>
        ELSE Leave(w)
     /\ UNCHANGED <<version, tables, receipt, history>>

\* UPDATE ledger_entries: the rows that are in the range by now.
MarkEntries(w) ==
  /\ phase[w] = "reversed"
  /\ phase' = [phase EXCEPT ![w] = "marked"]
  /\ locked' = [locked EXCEPT ![w][2] = InRange(entry, BlocksOf(job[w]))]
  /\ UNCHANGED <<version, tables, receipt, job, cursor, fetched, collected, history>>

\* UPDATE events, and the commit.
MarkEvents(w) ==
  LET R == BlocksOf(job[w])
  IN /\ phase[w] = "marked"
     /\ event' = Orphaned(event, InRange(event, R))
     /\ entry' = Orphaned(entry, locked[w][2])
     /\ balance' = Reversed(locked[w][1]).balance
     /\ phase' = [phase EXCEPT ![w] = "fetch"]
     /\ locked' = [locked EXCEPT ![w] = <<{}, {}>>]
     /\ synced' = synced \ R
     /\ stale' = stale \ R
     /\ UNCHANGED <<version, receipt, job, cursor, fetched, collected, budget, receipted>>

\* One eth_getLogs call of fetch_logs_in_chunks_with_progress.
FetchChunk(w) ==
  LET last == Least({cursor[w] + ChunkSize - 1, job[w].to})
      logs == FlattenSeq([i \in 1..(last - cursor[w] + 1) |->
                            LogsOf(cursor[w] + i - 1)])
  IN /\ phase[w] = "fetch"
     /\ fetched' = [fetched EXCEPT ![w] = @ \o logs]
     /\ cursor' = [cursor EXCEPT ![w] = last + 1]
     /\ phase' = [phase EXCEPT ![w] = IF last = job[w].to THEN "persist" ELSE "fetch"]
     /\ UNCHANGED <<version, tables, receipt, job, locked, collected, history>>

\* The blocks of w's job whose logs w has as they are now.
Canonical(w) == {b \in BlocksOf(job[w]) :
                   {f \in ToSet(fetched[w]) : f.block = b} = ToSet(LogsOf(b))}

\* The ledger transaction of ingest_source_range.
Persist(w) ==
  LET restore == job[w].type = "replay"
      s == PersistDecodedLogs(Opened, fetched[w], restore)
  IN /\ phase[w] = "persist"
     /\ ~SourceLocked
     /\ IF s.ok
        THEN /\ Commit(s)
             /\ synced' = IF restore THEN synced \cup Canonical(w) ELSE synced
             /\ stale' = stale \cup (BlocksOf(job[w]) \ Canonical(w))
        ELSE UNCHANGED <<tables, synced, stale>>
     /\ IF s.ok /\ w \in ReceiptWorkers
        THEN /\ phase' = [phase EXCEPT ![w] = "receipts"]
             /\ UNCHANGED <<job, cursor, fetched, locked, collected>>
        ELSE Leave(w)
     /\ UNCHANGED <<version, receipt, budget, receipted>>

\* The transactions of the decoded logs whose receipts w has not fetched yet.
Uncollected(w) == {f.log.key.tx : f \in ToSet(fetched[w])} \ DOMAIN collected[w]

\* One eth_getTransactionReceipt call of fetch_transaction_receipts; the order
\* of the hashes is arbitrary.  Without a receipt the job fails, after its
\* ledger transaction has been committed.
FetchReceipt(w) ==
  LET t == CHOOSE t \in Uncollected(w) : TRUE
  IN /\ phase[w] = "receipts"
     /\ Uncollected(w) # {}
     /\ IF OnChain(t)
        THEN /\ collected' = [collected EXCEPT ![w] = Put(@, t, ReceiptOf(t))]
             /\ UNCHANGED <<job, phase, cursor, fetched, locked>>
        ELSE Leave(w)
     /\ UNCHANGED <<version, tables, receipt, history>>

\* persist_transaction_receipts: one transaction, which does not lock the source.
PersistReceipts(w) ==
  /\ phase[w] = "receipts"
  /\ Uncollected(w) = {}
  /\ receipt' = UpsertReceipts(collected[w])
  /\ receipted' = (receipted \cup Canonical(w)) \ Outdated(collected[w])
  /\ Leave(w)
  /\ UNCHANGED <<version, tables, budget, synced, stale>>

\* An RPC call fails, the process is shut down or dies.
Abandon(w) ==
  /\ phase[w] \notin {"idle", "off"}
  /\ Leave(w)
  /\ UNCHANGED <<version, tables, receipt, history>>

Reorg ==
  /\ version < Len(Versions)
  /\ version' = version + 1
  /\ synced' = {b \in synced : b < Versions[version + 1].fork}
  /\ stale' = stale \cup {b \in Blocks : b >= Versions[version + 1].fork}
  /\ receipted' = {b \in receipted : b < Versions[version + 1].fork}
  /\ UNCHANGED <<tables, receipt, exec, budget>>

LgNext ==
  \/ Reorg
  \/ \E w \in Workers :
       \/ \E j \in Work : Begin(w, j)
       \/ LoadForOrphaning(w) \/ MarkEntries(w) \/ MarkEvents(w)
       \/ FetchChunk(w) \/ Persist(w) \/ FetchReceipt(w) \/ PersistReceipts(w)
       \/ Abandon(w)

LgSpec == LgInit /\ [][LgNext]_lgVars

-----------------------------------------------------------------------------
(* Properties *)

OptionalBlocks == {{}} \cup {{b} : b \in Blocks}

\* Every row has the type of its table; a balance is never negative, whatever
\* the order in which ranges are ingested, orphaned and replayed.
LgTypeOK ==
  /\ version \in DOMAIN Versions
  /\ DOMAIN event \subseteq LogKey
  /\ \A k \in DOMAIN event :
       event[k] \in [block : Blocks, hash : DOMAIN Versions, bare : BOOLEAN,
                     orphaned : BOOLEAN]
  /\ \A k \in DOMAIN entry :
       /\ k[1] \in LogKey
       /\ entry[k].block \in Blocks /\ entry[k].hash \in DOMAIN Versions
       /\ entry[k].orphaned \in BOOLEAN
       /\ [from |-> entry[k].from, to |-> entry[k].to,
           amount |-> entry[k].amount] \in Transfer
  /\ DOMAIN balance \subseteq Accounts
  /\ \A a \in DOMAIN balance :
       balance[a].amount \in Nat /\ {balance[a].first, balance[a].last} \subseteq OptionalBlocks
  /\ DOMAIN receipt \subseteq Transaction
  /\ \A t \in DOMAIN receipt : receipt[t] \in [block : Blocks, hash : DOMAIN Versions]
  /\ phase \in [Workers -> {"off", "idle", "orphan", "reversed", "marked", "fetch",
                           "persist", "receipts"}]
  /\ UNION {synced, stale, receipted} \subseteq Blocks

LiveKeys == {k \in DOMAIN entry : ~entry[k].orphaned}
BalanceOf(a) == IF a \in DOMAIN balance THEN balance[a].amount ELSE 0

\* token_balances is the materialised sum of the live ledger_entries, through
\* re-ingests, amounts that change on conflict, orphanings, restores and
\* transactions that roll back half way.
BalancesMatchLedger ==
  \A a \in Accounts :
    BalanceOf(a) = SumFunctionOnSet([k \in LiveKeys |-> Effect(entry[k], a)], LiveKeys)

\* A live movement between two holders, or from or to none, has left a row for
\* each holder, and first_received_block and last_moved_block bound it, in
\* whatever order the blocks were ingested, orphaned and replayed.  (A transfer of
\* nothing, or to oneself, may leave no row, and a later one does not count it.)
MovementBounds ==
  \A k \in LiveKeys : \A a \in {entry[k].from, entry[k].to} \cap Accounts :
    entry[k].amount # 0 /\ entry[k].from # entry[k].to =>
      /\ a \in DOMAIN balance
      /\ \E b \in balance[a].last : entry[k].block <= b
      /\ a = entry[k].to => \E b \in balance[a].first : b <= entry[k].block

\* A live ledger entry belongs to a live event of the same block and hash:
\* events and ledger_entries are orphaned, restored and repaired together,
\* although orphaning finds the rows of each by block number, in statements of
\* their own.
LiveEntriesHaveLiveEvents ==
  \A k \in LiveKeys :
    /\ k[1] \in DOMAIN event
    /\ ~event[k[1]].orphaned
    /\ event[k[1]].block = entry[k].block
    /\ event[k[1]].hash = entry[k].hash

LedgerAt(b) ==
  {<<k[1], k[2], entry[k].from, entry[k].to, entry[k].amount, entry[k].hash>> :
     k \in {x \in LiveKeys : entry[x].block = b}}

CanonicalAt(b) ==
  UNION {{<<f.log.key, n, f.log.entries[n].from, f.log.entries[n].to,
            f.log.entries[n].amount, f.hash>> : n \in DOMAIN f.log.entries} :
         f \in ToSet(LogsOf(b))}

\* Replay "ingests the canonical logs for the same range": once a replay has
\* committed the logs of the present chain, the live entries of its blocks are
\* exactly those logs, however other ingests and replays of the blocks run
\* between its steps, until the chain changes or an execution commits logs it
\* fetched before the chain changed (the code does not keep it from that).
CanonicalAfterReplay == \A b \in synced \ stale : LedgerAt(b) = CanonicalAt(b)

\* Replay "reverses their holder balance effects": a replay of everything from
\* some block on finds balances it can reverse.
ReplayNotRefused ==
  \A w \in Workers :
    phase[w] = "orphan" /\ (\A k \in LiveKeys : entry[k].block <= job[w].to) =>
      Reversed(InRange(entry, BlocksOf(job[w]))).ok

\* With --include-transaction-receipts: once the logs of a block and their
\* receipts have been committed as the chain has them, every transaction of the
\* block has the receipt of this chain and not one from before a
\* reorganisation, whatever replays, ingests and receipt backfills run, until
\* someone commits receipts fetched before the chain changed.
ReceiptsFollowChain ==
  \A b \in receipted : \A t \in TransactionsOf(b) :
    t \in DOMAIN receipt /\ receipt[t] = [block |-> b, hash |-> HashOf(b)]
=============================================================================
