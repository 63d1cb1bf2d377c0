-------------------------- MODULE LedgerSystemProofs --------------------------
(***************************************************************************)
(* What holds when the workers, the repair commands and a client run at    *)
(* the same time, although the repairs rewrite rows without the lock of    *)
(* the source: the types of the rows, the receipts of the blocks that are  *)
(* up to date, what a backfill reports, the pages a client gets, and the   *)
(* balances, events and canonical blocks of Ledger.                        *)
(***************************************************************************)
EXTENDS LedgerSystem, LedgerProofs

-----------------------------------------------------------------------------
(* Types *)

MetaState == [at : {"new", "running", "ended"}, blocks : SUBSET Blocks,
              logs : Seq(FetchedLog)]
MissingState == [at : {"new", "running", "ended", "failed"},
                 selected : SUBSET Transaction, ahead : SUBSET Transaction,
                 batch : Table(Transaction, ReceiptRow)]

RepairInv == meta \in MetaState /\ missing \in MissingState

SysTyping == Typing /\ RepairInv

LEMMA SysInitTyped == SysInit => SysTyping
<1> SUFFICES ASSUME SysInit PROVE SysTyping
  OBVIOUS
<1>1. Typing
  BY LgInitCorrect DEF SysInit, LgInv
<1>2. <<>> \in Seq(FetchedLog) /\ <<>> \in Table(Transaction, ReceiptRow)
  BY EmptyTable
<1>3. meta \in MetaState
  <2>1. PICK at \in {"new", "ended"} : meta = [at |-> at, blocks |-> {}, logs |-> <<>>]
    BY DEF SysInit, RpInit
  <2> DEFINE L == Seq(FetchedLog)
  <2>2. <<>> \in L /\ {} \in SUBSET Blocks
    BY <1>2
  <2> HIDE DEF L
  <2>3. meta \in [at : {"new", "running", "ended"}, blocks : SUBSET Blocks, logs : L]
    BY <2>1, <2>2
  <2> QED
    BY <2>3 DEF MetaState, L
<1>4. missing \in MissingState
  BY <1>2 DEF SysInit, RpInit, MissingState
<1> QED
  BY <1>1, <1>3, <1>4 DEF SysTyping, RepairInv

\* Steps of others leave the worker's part alone.
LEMMA WorkersUntouched ==
  ASSUME Typing, UNCHANGED lgVars
  PROVE  Typing'
BY LgStepKeeps

LEMMA SelectBlocksTyped ==
  ASSUME SysTyping, SelectBlocks
  PROVE  SysTyping'
<1> USE DEF SelectBlocks
<1>1. event \in Table(LogKey, EventRow)
  BY StateTyped DEF SysTyping, Typing, StateInv, Opened
<1>2. \A k \in DOMAIN event : event[k] \in EventRow
  BY <1>1, TableTyped
<1>3. EventBlocksMissingMetadata \in SUBSET Blocks
  BY <1>2 DEF EventBlocksMissingMetadata, EventRow
<1>4. meta' \in MetaState
  BY <1>3 DEF SysTyping, RepairInv, MetaState
<1> QED
  BY <1>4, WorkersUntouched DEF SysTyping, RepairInv

LEMMA FetchBlockLogsTyped ==
  ASSUME SysTyping, FetchBlockLogs
  PROVE  SysTyping'
<1> USE DEF FetchBlockLogs
<1>1. meta.blocks \in SUBSET Blocks /\ meta.blocks # {} /\ meta \in MetaState
  BY DEF SysTyping, RepairInv, MetaState
<1>2. Least(meta.blocks) \in meta.blocks
  <2>1. meta.blocks \subseteq Nat
    BY <1>1, LedgerAssumption DEF Blocks
  <2>2. \E x \in meta.blocks : \A y \in meta.blocks : x <= y
    BY <1>1, <2>1, LeastElement
  <2> QED
    BY <2>2 DEF Least
<1>3. LogsOf(Least(meta.blocks)) \in Seq(FetchedLog)
  BY <1>1, <1>2, LogsOfCorrect DEF SysTyping, Typing, ExecInv
<1>4. meta' \in MetaState
  <2> DEFINE m == Least(meta.blocks)
  <2> HIDE DEF m
  <2>1. meta' = [meta EXCEPT !.blocks = @ \ {m}, !.logs = LogsOf(m)]
    BY DEF m
  <2>2. LogsOf(m) \in Seq(FetchedLog)
    BY <1>3 DEF m
  <2> QED
    BY <1>1, <2>1, <2>2 DEF MetaState
<1> QED
  BY <1>4, WorkersUntouched DEF SysTyping, RepairInv

LEMMA UpdateLogMetadataTyped ==
  ASSUME SysTyping, UpdateLogMetadata
  PROVE  SysTyping' /\ DOMAIN entry' = DOMAIN entry
<1> DEFINE f == Head(meta.logs)
<1>1. meta \in MetaState /\ meta.logs \in Seq(FetchedLog) /\ meta.logs # <<>>
  BY DEF SysTyping, RepairInv, MetaState, UpdateLogMetadata
<1>2. f \in FetchedLog /\ Tail(meta.logs) \in Seq(FetchedLog)
  BY <1>1
<1>3. f.block \in Blocks /\ f.hash \in DOMAIN Versions
  BY <1>2 DEF FetchedLog
<1>4. /\ event' = [k \in DOMAIN event |->
                     IF k = f.log.key THEN [Relocated(event[k], f) EXCEPT !.bare = FALSE]
                     ELSE event[k]]
      /\ entry' = [k \in DOMAIN entry |->
                     IF k[1] = f.log.key THEN Relocated(entry[k], f) ELSE entry[k]]
      /\ meta' = [meta EXCEPT !.logs = Tail(@)]
      /\ stale' = IF f \in ToSet(LogsOf(f.block)) THEN stale ELSE stale \cup {f.block}
      /\ UNCHANGED <<version, balance, receipt, exec, synced, receipted, missing>>
  BY DEF UpdateLogMetadata
<1> HIDE DEF f
<1>5. /\ event \in Table(LogKey, EventRow) /\ entry \in Table(EntryKey, EntryRow)
      /\ balance \in Table(Accounts, BalanceRow)
  BY StateTyped DEF SysTyping, Typing, StateInv, Opened
<1>6. event' \in Table(LogKey, EventRow)
  <2>1. /\ DOMAIN event \in SUBSET LogKey
        /\ \A k \in DOMAIN event : event[k] \in EventRow
    BY <1>5, TableTyped
  <2>2. \A row \in EventRow : [Relocated(row, f) EXCEPT !.bare = FALSE] \in EventRow
    BY <1>3 DEF EventRow, Relocated
  <2>3. event' \in [DOMAIN event -> EventRow]
    BY <1>4, <2>1, <2>2
  <2> QED
    BY <2>1, <2>3, TableMember
<1>7. entry' \in Table(EntryKey, EntryRow) /\ DOMAIN entry' = DOMAIN entry
  <2>1. /\ DOMAIN entry \in SUBSET EntryKey
        /\ \A k \in DOMAIN entry : entry[k] \in EntryRow
    BY <1>5, TableTyped
  <2>2. \A row \in EntryRow : Relocated(row, f) \in EntryRow
    BY <1>3 DEF EntryRow, Relocated
  <2>3. entry' \in [DOMAIN entry -> EntryRow]
    BY <1>4, <2>1, <2>2
  <2> QED
    BY <2>1, <2>3, TableMember
<1>8. Opened' \in State
  BY <1>4, <1>5, <1>6, <1>7 DEF Opened, State
<1>9. ExecInv' /\ RestInv' /\ StateInv'
  BY <1>3, <1>4, <1>7, <1>8 DEF SysTyping, Typing, ExecInv, RestInv, StateInv, exec
<1>10. meta' \in MetaState
  BY <1>1, <1>2, <1>4 DEF MetaState
<1> QED
  BY <1>4, <1>7, <1>9, <1>10 DEF SysTyping, Typing, RepairInv

LEMMA MetadataEndsTyped ==
  ASSUME SysTyping, MetadataEnds
  PROVE  SysTyping'
BY WorkersUntouched DEF MetadataEnds, SysTyping, RepairInv, MetaState

LEMMA SelectTransactionsTyped ==
  ASSUME SysTyping, SelectTransactions
  PROVE  SysTyping'
<1> USE DEF SelectTransactions
<1>1. entry \in Table(EntryKey, EntryRow)
  BY StateTyped DEF SysTyping, Typing, StateInv, Opened
<1>2. \A k \in DOMAIN entry : k[1] \in LogKey
  BY <1>1, TableTyped DEF EntryKey
<1>3. TransactionsMissingReceipts \in SUBSET Transaction
  BY <1>2 DEF TransactionsMissingReceipts, Transaction
<1>4. missing' \in MissingState
  BY <1>3 DEF SysTyping, RepairInv, MissingState
<1> QED
  BY <1>4, WorkersUntouched DEF SysTyping, RepairInv

LEMMA FetchMissingReceiptTyped ==
  ASSUME SysTyping, FetchMissingReceipt
  PROVE  SysTyping'
<1> DEFINE t == CHOOSE t \in missing.ahead : TRUE
<1> USE DEF FetchMissingReceipt
<1>1. missing \in MissingState
  BY DEF SysTyping, RepairInv
<1>2. t \in missing.ahead /\ t \in Transaction
  BY <1>1 DEF MissingState
<1>3. UNCHANGED <<lgVars, meta>>
      /\ missing' = IF OnChain(t)
                    THEN [missing EXCEPT !.ahead = @ \ {t},
                                         !.batch = Put(@, t, ReceiptOf(t))]
                    ELSE [missing EXCEPT !.at = "failed", !.ahead = {}, !.batch = <<>>]
  OBVIOUS
<1> HIDE DEF t, FetchMissingReceipt
<1>4. missing' \in MissingState
  <2>1. CASE OnChain(t)
    <3>1. ReceiptOf(t) \in ReceiptRow
      BY <2>1, ReceiptOfCorrect DEF SysTyping, Typing, ExecInv
    <3>2. Put(missing.batch, t, ReceiptOf(t)) \in Table(Transaction, ReceiptRow)
      BY <1>1, <1>2, <3>1, PutCorrect DEF MissingState
    <3> QED
      BY <1>1, <1>3, <2>1, <3>2 DEF MissingState
  <2>2. CASE ~OnChain(t)
    <3>1. <<>> \in Table(Transaction, ReceiptRow)
      BY EmptyTable
    <3> QED
      BY <1>1, <1>3, <2>2, <3>1 DEF MissingState
  <2> QED
    BY <2>1, <2>2
<1> QED
  BY <1>3, <1>4, WorkersUntouched DEF SysTyping, RepairInv

LEMMA PersistMissingReceiptsTyped ==
  ASSUME SysTyping, PersistMissingReceipts
  PROVE  SysTyping'
<1> USE DEF PersistMissingReceipts
<1>1. missing \in MissingState /\ missing.batch \in Table(Transaction, ReceiptRow)
  BY DEF SysTyping, RepairInv, MissingState
<1>2. receipt' \in Table(Transaction, ReceiptRow)
  BY <1>1, PutAllCorrect DEF SysTyping, Typing, RestInv, UpsertReceipts
<1>3. RestInv'
  BY <1>2 DEF SysTyping, Typing, RestInv
<1>4. ExecInv' /\ StateInv'
  BY DEF SysTyping, Typing, ExecInv, StateInv, exec, tables, Opened
<1>5. missing' \in MissingState
  BY <1>1, EmptyTable DEF MissingState
<1> QED
  BY <1>3, <1>4, <1>5 DEF SysTyping, Typing, RepairInv

LEMMA BackfillEndsTyped ==
  ASSUME SysTyping, ReceiptsComplete \/ ReceiptsFail
  PROVE  SysTyping'
<1>1. missing \in MissingState
  BY DEF SysTyping, RepairInv
<1>2. missing' \in MissingState
  <2>1. <<>> \in Table(Transaction, ReceiptRow)
    BY EmptyTable
  <2>2. CASE ReceiptsComplete
    BY <1>1, <2>1, <2>2 DEF ReceiptsComplete, MissingState
  <2>3. CASE ReceiptsFail
    BY <1>1, <2>1, <2>3 DEF ReceiptsFail, MissingState
  <2> QED
    BY <2>2, <2>3
<1> QED
  BY <1>2, WorkersUntouched DEF ReceiptsComplete, ReceiptsFail, SysTyping, RepairInv

LEMMA SysTypingKept == SysTyping /\ [SysNext]_sysVars => SysTyping'
<1> SUFFICES ASSUME SysTyping, [SysNext]_sysVars PROVE SysTyping'
  OBVIOUS
<1>1. CASE LgNext /\ UNCHANGED repairVars
  BY <1>1, LgStepKeeps DEF SysTyping, RepairInv, repairVars
<1>2. CASE RepairStep
  BY <1>2, SelectBlocksTyped, FetchBlockLogsTyped, UpdateLogMetadataTyped,
     MetadataEndsTyped, SelectTransactionsTyped, FetchMissingReceiptTyped,
     PersistMissingReceiptsTyped, BackfillEndsTyped DEF RepairStep
<1>3. CASE UNCHANGED <<lgVars, repairVars>>
  BY <1>3, WorkersUntouched DEF SysTyping, RepairInv, repairVars
<1> QED
  BY <1>1, <1>2, <1>3 DEF SysNext, sysVars

-----------------------------------------------------------------------------
(* Receipts *)

\* A transaction is in one block of the chain.
LEMMA BlockOfTransaction ==
  ASSUME version \in DOMAIN Versions, NEW b \in Blocks, NEW c \in Blocks,
         NEW t, t \in TransactionsOf(b), t \in TransactionsOf(c)
  PROVE  b = c
<1>1. ASSUME NEW x \in Blocks, t \in TransactionsOf(x)
      PROVE  \E l \in ToSet(Versions[version].logs[x]) : l.key.tx = t
  <2>1. PICK f \in ToSet(LogsOf(x)) : f.log.key.tx = t
    BY <1>1 DEF TransactionsOf
  <2>2. PICK i \in DOMAIN LogsOf(x) : f = LogsOf(x)[i]
    BY <2>1 DEF ToSet
  <2>3. i \in DOMAIN Versions[version].logs[x] /\ f.log = Versions[version].logs[x][i]
    BY <2>2 DEF LogsOf
  <2> QED
    BY <2>1, <2>3 DEF ToSet
<1>2. PICK l \in ToSet(Versions[version].logs[b]) : l.key.tx = t
  BY <1>1
<1>3. PICK m \in ToSet(Versions[version].logs[c]) : m.key.tx = t
  BY <1>1
<1> QED
  BY <1>2, <1>3, MinedOnce

\* The receipt of a transaction is the one of its block.
LEMMA ReceiptOfBlock ==
  ASSUME version \in DOMAIN Versions, NEW b \in Blocks, NEW t \in TransactionsOf(b)
  PROVE  ReceiptOf(t) = [block |-> b, hash |-> HashOf(b)]
<1>1. OnChain(t)
  BY DEF OnChain
<1>2. PICK c \in Blocks : /\ t \in TransactionsOf(c)
                          /\ ReceiptOf(t) = [block |-> c, hash |-> HashOf(c)]
  BY <1>1, ReceiptOfCorrect
<1> QED
  BY <1>2, BlockOfTransaction

\* Committing receipts, complete ones for the blocks of B.
LEMMA CommittedReceipts ==
  ASSUME Typing, ReceiptsFollowChain, NEW rows \in Table(Transaction, ReceiptRow),
         NEW B \in SUBSET Blocks, \A b \in B : TransactionsOf(b) \subseteq DOMAIN rows,
         receipt' = UpsertReceipts(rows), version' = version,
         receipted' = (receipted \cup B) \ Outdated(rows)
  PROVE  ReceiptsFollowChain'
<1> SUFFICES ASSUME NEW b \in receipted', NEW t \in TransactionsOf(b)'
             PROVE  /\ t \in DOMAIN receipt'
                    /\ receipt'[t] = [block |-> b, hash |-> HashOf(b)']
  BY DEF ReceiptsFollowChain
<1>1. TransactionsOf(b)' = TransactionsOf(b) /\ HashOf(b)' = HashOf(b)
  BY DEF TransactionsOf, LogsOf, HashOf
<1>2. version \in DOMAIN Versions /\ b \in Blocks /\ b \notin Outdated(rows)
  BY DEF Typing, ExecInv, RestInv
<1>3. /\ DOMAIN receipt' = DOMAIN receipt \cup DOMAIN rows
      /\ \A x \in DOMAIN receipt' :
           receipt'[x] = IF x \in DOMAIN rows THEN rows[x] ELSE receipt[x]
  BY DEF UpsertReceipts, PutAll
<1>4. CASE t \in DOMAIN rows
  <2>1. rows[t] = ReceiptOf(t)
    BY <1>1, <1>2, <1>4 DEF Outdated
  <2> QED
    BY <1>1, <1>2, <1>3, <1>4, <2>1, ReceiptOfBlock
<1>5. CASE t \notin DOMAIN rows
  <2>1. b \in receipted
    BY <1>1, <1>5
  <2> QED
    BY <1>1, <1>3, <1>5, <2>1 DEF ReceiptsFollowChain
<1> QED
  BY <1>4, <1>5

\* A reorganisation leaves the blocks below its fork as they are.
LEMMA ReorgKeepsBelow ==
  ASSUME version \in DOMAIN Versions, Reorg, NEW b \in Blocks,
         b < Versions[version + 1].fork
  PROVE  HashOf(b)' = HashOf(b) /\ TransactionsOf(b)' = TransactionsOf(b)
<1> USE LedgerAssumption
<1>1. /\ version \in Nat /\ version >= 1 /\ version' = version + 1
      /\ version + 1 \in 2..Len(Versions) /\ b \in Int
  BY DEF Reorg, Blocks
<1>2. \A v \in 1..(version + 1) : Versions[v].fork \in Nat
  BY <1>1
<1>3. HashOf(b)' = HashOf(b)
  <2> DEFINE P(v) == /\ v \in 1..version
                     /\ Versions[v].fork <= b
                     /\ \A u \in (v + 1)..version : Versions[u].fork > b
             Q(v) == /\ v \in 1..(version + 1)
                     /\ Versions[v].fork <= b
                     /\ \A u \in (v + 1)..(version + 1) : Versions[u].fork > b
  <2>1. HashOf(b) = CHOOSE v : P(v)
    BY Zenon DEF HashOf
  <2>2. HashOf(b)' = CHOOSE v : Q(v)
    BY <1>1, Zenon DEF HashOf
  <2>3. ASSUME NEW v PROVE P(v) <=> Q(v)
    <3>1. CASE v \in 1..version
      <4>1. \A u \in (v + 1)..(version + 1) : u \in (v + 1)..version \/ u = version + 1
        BY <1>1, <3>1
      <4> QED
        BY <1>1, <1>2, <3>1, <4>1
    <3>2. CASE v \notin 1..version
      <4>1. v \in 1..(version + 1) => v = version + 1
        BY <1>1, <3>2
      <4> QED
        BY <1>1, <1>2, <3>2, <4>1
    <3> QED
      BY <3>1, <3>2
  <2> HIDE DEF P, Q
  <2>4. (CHOOSE v : P(v)) = (CHOOSE v : Q(v))
    BY <2>3, Zenon
  <2> QED
    BY <2>1, <2>2, <2>4
<1>4. Versions[version + 1].logs[b] = Versions[version].logs[b]
  BY <1>1
<1>5. TransactionsOf(b)' = TransactionsOf(b)
  BY <1>1, <1>3, <1>4 DEF TransactionsOf, LogsOf
<1> QED
  BY <1>3, <1>5

LEMMA ReceiptsKeptBySame ==
  ASSUME ReceiptsFollowChain, UNCHANGED <<version, receipt, receipted>>
  PROVE  ReceiptsFollowChain'
BY DEF ReceiptsFollowChain, TransactionsOf, LogsOf, HashOf

LEMMA WorkersKeepReceipts ==
  ASSUME Typing, ReceiptsFollowChain, LgNext
  PROVE  ReceiptsFollowChain'
<1>1. CASE Reorg
  <2> SUFFICES ASSUME NEW b \in receipted', NEW t \in TransactionsOf(b)'
               PROVE  /\ t \in DOMAIN receipt'
                      /\ receipt'[t] = [block |-> b, hash |-> HashOf(b)']
    BY DEF ReceiptsFollowChain
  <2>1. b \in receipted /\ b \in Blocks /\ b < Versions[version + 1].fork
    BY <1>1 DEF Reorg, Typing, RestInv
  <2>2. HashOf(b)' = HashOf(b) /\ TransactionsOf(b)' = TransactionsOf(b)
    BY <1>1, <2>1, ReorgKeepsBelow DEF Typing, ExecInv
  <2> QED
    BY <1>1, <2>1, <2>2 DEF Reorg, tables, ReceiptsFollowChain
<1>2. ASSUME NEW w \in Workers, PersistReceipts(w)
      PROVE  ReceiptsFollowChain'
  <2> USE <1>2 DEF PersistReceipts
  <2>1. collected[w] \in Table(Transaction, ReceiptRow)
    BY DEF Typing, ExecInv
  <2>2. Canonical(w) \in SUBSET Blocks
    BY WorkTyped DEF Typing, ExecInv, Canonical
  <2>3. ASSUME NEW b \in Canonical(w)
        PROVE  TransactionsOf(b) \subseteq DOMAIN collected[w]
    <3>1. \A f \in ToSet(LogsOf(b)) : f \in ToSet(fetched[w])
      BY DEF Canonical
    <3> QED
      BY <3>1 DEF TransactionsOf, Uncollected
  <2> QED
    BY <2>1, <2>2, <2>3, CommittedReceipts
<1>3. ASSUME NEW w \in Workers, NEW j \in Work, Begin(w, j)
      PROVE  ReceiptsFollowChain'
  BY <1>3, ReceiptsKeptBySame DEF Begin
<1>4. ASSUME NEW w \in Workers,
             \/ LoadForOrphaning(w) \/ MarkEntries(w) \/ MarkEvents(w) \/ FetchChunk(w)
             \/ Persist(w) \/ FetchReceipt(w) \/ Abandon(w)
      PROVE  ReceiptsFollowChain'
  <2>1. UNCHANGED <<version, receipt, receipted>>
    BY <1>4 DEF LoadForOrphaning, MarkEntries, MarkEvents, FetchChunk, Persist,
       FetchReceipt, Abandon, history
  <2> QED
    BY <2>1, ReceiptsKeptBySame
<1> QED
  BY <1>1, <1>2, <1>3, <1>4 DEF LgNext

\* What backfill-transaction-receipts has still to do.
SelectedInv ==
  /\ missing.at = "running" =>
       missing.selected \subseteq DOMAIN receipt \cup missing.ahead \cup DOMAIN missing.batch
  /\ SelectedReceiptsPersisted

ReceiptsInv == ReceiptsFollowChain /\ SelectedInv

\* Receipts are never taken away.
LEMMA ReceiptsGrow ==
  ASSUME Typing, LgNext
  PROVE  DOMAIN receipt \subseteq DOMAIN receipt'
<1>1. ASSUME NEW w \in Workers, PersistReceipts(w) PROVE DOMAIN receipt \subseteq DOMAIN receipt'
  BY <1>1 DEF PersistReceipts, UpsertReceipts, PutAll
<1>2. CASE Reorg
  BY <1>2 DEF Reorg
<1>3. ASSUME NEW w \in Workers, NEW j \in Work, Begin(w, j) PROVE UNCHANGED receipt
  BY <1>3 DEF Begin
<1>4. ASSUME NEW w \in Workers,
             \/ LoadForOrphaning(w) \/ MarkEntries(w) \/ MarkEvents(w) \/ FetchChunk(w)
             \/ Persist(w) \/ FetchReceipt(w) \/ Abandon(w)
      PROVE  UNCHANGED receipt
  BY <1>4 DEF LoadForOrphaning, MarkEntries, MarkEvents, FetchChunk, Persist,
     FetchReceipt, Abandon
<1> QED
  BY <1>1, <1>2, <1>3, <1>4 DEF LgNext

LEMMA RepairsKeepReceipts ==
  ASSUME SysTyping, ReceiptsInv, RepairStep
  PROVE  ReceiptsInv'
<1>1. missing \in MissingState
  BY DEF SysTyping, RepairInv
<1> USE DEF ReceiptsInv, SelectedInv, SelectedReceiptsPersisted
<1>2. CASE SelectBlocks \/ FetchBlockLogs \/ MetadataEnds \/ UpdateLogMetadata
  <2>1. UNCHANGED <<version, receipt, receipted, missing>>
    BY <1>2 DEF SelectBlocks, FetchBlockLogs, MetadataEnds, UpdateLogMetadata, lgVars, history
  <2> QED
    BY <2>1, ReceiptsKeptBySame
<1>3. CASE PersistMissingReceipts
  <2> USE <1>3 DEF PersistMissingReceipts
  <2>1. missing.batch \in Table(Transaction, ReceiptRow)
    BY <1>1 DEF MissingState
  <2>2. ReceiptsFollowChain'
    <3>1. receipted' = (receipted \cup {}) \ Outdated(missing.batch)
      OBVIOUS
    <3> QED
      BY <2>1, <3>1, CommittedReceipts DEF SysTyping
  <2>3. DOMAIN receipt' = DOMAIN receipt \cup DOMAIN missing.batch
    BY DEF UpsertReceipts, PutAll
  <2>4. missing'.at = "running" /\ missing'.selected = missing.selected /\ missing'.ahead = missing.ahead
    BY <1>1 DEF MissingState
  <2> QED
    BY <2>2, <2>3, <2>4
<1>4. CASE SelectTransactions \/ FetchMissingReceipt \/ ReceiptsComplete \/ ReceiptsFail
  <2>1. UNCHANGED <<version, receipt, receipted>>
    BY <1>4 DEF SelectTransactions, FetchMissingReceipt, ReceiptsComplete, ReceiptsFail,
       lgVars, history
  <2>2. SelectedInv'
    <3>1. CASE SelectTransactions
      BY <1>1, <2>1, <3>1 DEF SelectTransactions, MissingState
    <3>2. CASE FetchMissingReceipt
      <4> DEFINE t == CHOOSE t \in missing.ahead : TRUE
      <4>1. /\ missing.at = "running"
            /\ missing' = IF OnChain(t)
                          THEN [missing EXCEPT !.ahead = @ \ {t},
                                               !.batch = Put(@, t, ReceiptOf(t))]
                          ELSE [missing EXCEPT !.at = "failed", !.ahead = {}, !.batch = <<>>]
        BY <3>2 DEF FetchMissingReceipt
      <4> HIDE DEF t
      <4>2. CASE OnChain(t)
        <5>1. /\ missing'.at = "running" /\ missing'.selected = missing.selected
              /\ missing'.ahead = missing.ahead \ {t}
              /\ missing'.batch = Put(missing.batch, t, ReceiptOf(t))
          BY <1>1, <4>1, <4>2 DEF MissingState
        <5>2. DOMAIN missing'.batch = DOMAIN missing.batch \cup {t}
          BY <5>1 DEF Put
        <5> QED
          BY <2>1, <4>1, <5>1, <5>2
      <4>3. CASE ~OnChain(t)
        BY <1>1, <4>1, <4>3 DEF MissingState
      <4> QED
        BY <4>2, <4>3
    <3>3. CASE ReceiptsComplete
      <4>1. missing.batch = <<>> /\ DOMAIN missing.batch = {}
        BY <3>3, EmptyTable DEF ReceiptsComplete, BatchDue
      <4>2. missing'.at = "ended" /\ missing'.selected = missing.selected
        BY <1>1, <3>3 DEF ReceiptsComplete, MissingState
      <4> QED
        BY <2>1, <3>3, <4>1, <4>2 DEF ReceiptsComplete
    <3>4. CASE ReceiptsFail
      BY <1>1, <3>4 DEF ReceiptsFail, MissingState
    <3> QED
      BY <1>4, <3>1, <3>2, <3>3, <3>4
  <2> QED
    BY <2>1, <2>2, ReceiptsKeptBySame
<1> QED
  BY <1>2, <1>3, <1>4 DEF RepairStep

LEMMA InitialReceipts == SysInit => ReceiptsInv
<1> SUFFICES ASSUME SysInit PROVE ReceiptsInv
  OBVIOUS
<1>1. ReceiptsFollowChain
  BY DEF SysInit, LgInit, ReceiptsFollowChain
<1>2. missing.selected = {} /\ missing.at # "running"
  BY DEF SysInit, RpInit
<1> QED
  BY <1>1, <1>2 DEF ReceiptsInv, SelectedInv, SelectedReceiptsPersisted

LEMMA ReceiptsInvKept == SysTyping /\ ReceiptsInv /\ [SysNext]_sysVars => ReceiptsInv'
<1> SUFFICES ASSUME SysTyping, ReceiptsInv, [SysNext]_sysVars PROVE ReceiptsInv'
  OBVIOUS
<1>1. CASE LgNext /\ UNCHANGED repairVars
  <2>1. ReceiptsFollowChain' /\ DOMAIN receipt \subseteq DOMAIN receipt'
    BY <1>1, WorkersKeepReceipts, ReceiptsGrow DEF SysTyping, ReceiptsInv
  <2>2. missing' = missing
    BY <1>1 DEF repairVars
  <2> QED
    BY <2>1, <2>2 DEF ReceiptsInv, SelectedInv, SelectedReceiptsPersisted
<1>2. CASE RepairStep
  BY <1>2, RepairsKeepReceipts
<1>3. CASE UNCHANGED <<lgVars, repairVars>>
  <2>1. UNCHANGED <<version, receipt, receipted, missing>>
    BY <1>3 DEF lgVars, history, repairVars
  <2> QED
    BY <2>1, ReceiptsKeptBySame DEF ReceiptsInv, SelectedInv, SelectedReceiptsPersisted
<1> QED
  BY <1>1, <1>2, <1>3 DEF SysNext, sysVars

\* The types of all rows, and of what the repairs hold, stay as they are written
\* whatever runs side by side.
THEOREM SystemTypeCorrect == SysSpec => []SysTyping
BY SysInitTyped, SysTypingKept, PTL DEF SysSpec

LEMMA SystemReceipts == SysSpec => []ReceiptsInv
<1>1. SysSpec => []SysTyping
  BY SystemTypeCorrect
<1> QED
  BY <1>1, InitialReceipts, ReceiptsInvKept, PTL DEF SysSpec

\* A block whose receipts were written since its last reorganisation has the
\* receipt of every transaction of the chain, with the block's own hash, although
\* workers and the backfill write receipts they fetched before a reorganisation.
THEOREM ReceiptsAreOfTheChain == SysSpec => []ReceiptsFollowChain
<1>1. ReceiptsInv => ReceiptsFollowChain
  BY DEF ReceiptsInv
<1> QED
  BY <1>1, SystemReceipts, PTL

\* When backfill-transaction-receipts reports completion, every transaction it
\* selected has a receipt, those of the last, partial batch included.
THEOREM BackfillIsComplete == SysSpec => []SelectedReceiptsPersisted
<1>1. ReceiptsInv => SelectedReceiptsPersisted
  BY DEF ReceiptsInv, SelectedInv
<1> QED
  BY <1>1, SystemReceipts, PTL

-----------------------------------------------------------------------------
(* Pages *)

Position == Int \X Int \X Int

\* The order of a query on positions.
LEMMA PositionsOrdered ==
  ASSUME NEW sort, NEW p \in Position, NEW q \in Position
  PROVE  /\ Beyond(sort, p, q) => ~Beyond(sort, q, p)
         /\ ~Beyond(sort, p, q) /\ ~Beyond(sort, q, p) => p = q
BY DEF Position, Beyond, Less

LEMMA PositionsTransitive ==
  ASSUME NEW sort, NEW p \in Position, NEW q \in Position, NEW r \in Position
  PROVE  /\ Beyond(sort, p, q) /\ Beyond(sort, q, r) => Beyond(sort, p, r)
         /\ ~Beyond(sort, p, q) /\ ~Beyond(sort, q, r) => ~Beyond(sort, p, r)
BY DEF Position, Beyond, Less

\* A page that is not all there is ahead has a row.
LEMMA PageHasRow ==
  ASSUME NEW ahead, IsFiniteSet(ahead), NEW page \in SUBSET ahead, page # ahead,
         NEW limit \in Nat \ {0}, Cardinality(page) = Least({limit, Cardinality(ahead)})
  PROVE  page # {} /\ IsFiniteSet(page)
<1>1. IsFiniteSet(page) /\ Cardinality(ahead) \in Nat
  BY FS_Subset, FS_CardinalityType
<1>2. SUFFICES ASSUME page = {} PROVE FALSE
  BY <1>1
<1>3. Cardinality(page) = 0 /\ Cardinality(ahead) # 0
  BY <1>2, FS_EmptySet
<1>4. Least({limit, Cardinality(ahead)}) \in {limit, Cardinality(ahead)}
  <2> DEFINE S == {limit, Cardinality(ahead)}
  <2>1. S \subseteq Nat /\ S # {}
    BY <1>1
  <2>2. \E x \in S : \A y \in S : x <= y
    <3> HIDE DEF S
    <3> QED
      BY <2>1, LeastElement
  <2> QED
    BY <2>2 DEF Least
<1> QED
  BY <1>1, <1>3, <1>4

\* The positions of the rows of a page that no other row comes after.
LastPositions(sort, page, at) ==
  {at[k] : k \in {x \in page : \A y \in page : ~Beyond(sort, at[x], at[y])}}

\* The last rows of a page are at one position.
LEMMA LastPosition ==
  ASSUME NEW sort, NEW page, IsFiniteSet(page), page # {},
         NEW at, \A k \in page : at[k] \in Position
  PROVE  \E m \in page :
           /\ \A k \in page : ~Beyond(sort, at[m], at[k])
           /\ LastPositions(sort, page, at) = {at[m]}
<1> DEFINE R == {x \in page \X page : ~Beyond(sort, at[x[1]], at[x[2]])}
<1>1. \A x, y \in page : <<x, y>> \in R <=> ~Beyond(sort, at[x], at[y])
  OBVIOUS
<1>2. \A x, y \in page : <<x, y>> \in R \/ <<y, x>> \in R
  BY <1>1, PositionsOrdered
<1>3. \A x, y, z \in page : <<x, y>> \in R /\ <<y, z>> \in R => <<x, z>> \in R
  BY <1>1, PositionsTransitive
<1> HIDE DEF R
<1>4. \A T \in SUBSET page : T # {} => \E x \in T : \A y \in T : <<x, y>> \in R
  BY <1>2, <1>3, FirstElement
<1>5. PICK m \in page : \A k \in page : <<m, k>> \in R
  BY <1>4
<1>6. \A k \in page : ~Beyond(sort, at[m], at[k])
  BY <1>1, <1>5
<1>7. \A x \in page : (\A y \in page : ~Beyond(sort, at[x], at[y])) => at[x] = at[m]
  BY <1>6, PositionsOrdered
<1> QED
  BY <1>6, <1>7 DEF LastPositions

\* Rows that have been there all the time are alone at their positions.
SteadyInv ==
  /\ steady \subseteq Matching(entry)
  /\ \A k \in steady, m \in Matching(entry) :
       PositionOf(entry, m) = PositionOf(entry, k) => m = k

\* Between two pages, the cursor tells the steady rows that were given from those
\* that are still to come.
CursorInv ==
  reading = "more" =>
    /\ ValidQuery(query)
    /\ \E p \in Position :
         /\ position = {p}
         /\ \A k \in steady : k \in DOMAIN given <=> ~AfterCursor(p, PositionOf(entry, k))

PageInv ==
  /\ query \in Queries
  /\ reading \in {"new", "more", "ended"}
  /\ reading = "new" => position = {} /\ given = <<>>
  /\ SteadyInv
  /\ CursorInv
  /\ PagesComplete

LEMMA InitialPages == SysInit => PageInv
BY DEF SysInit, PgInit, PageInv, SteadyInv, CursorInv, PagesComplete

\* The position of a row that is there.
LEMMA PositionTyped ==
  ASSUME entry \in Table(EntryKey, EntryRow), NEW k \in DOMAIN entry
  PROVE  PositionOf(entry, k) \in Position
BY OrderColumns DEF PositionOf, Position

\* What others do to the tables takes rows out of steady, and does no more.
LEMMA WaitingKeepsPages ==
  ASSUME PageInv, ReaderWaits
  PROVE  PageInv'
<1> USE DEF ReaderWaits
<1>1. /\ steady' \subseteq steady
      /\ \A k \in steady' : PositionOf(entry', k) = PositionOf(entry, k)
      /\ UNCHANGED <<query, position, reading, given>>
  OBVIOUS
<1>2. SteadyInv'
  <2>1. Matching(entry)' = Matching(entry')
    BY DEF Matching
  <2> QED
    BY <2>1 DEF SteadyInv
<1>3. CursorInv'
  <2> SUFFICES ASSUME reading' = "more"
               PROVE  /\ ValidQuery(query)'
                      /\ \E p \in Position :
                           /\ position' = {p}
                           /\ \A k \in steady' :
                                k \in DOMAIN given' <=> ~AfterCursor(p, PositionOf(entry, k))'
    BY DEF CursorInv
  <2>1. PICK p \in Position :
          /\ position = {p}
          /\ \A k \in steady : k \in DOMAIN given <=> ~AfterCursor(p, PositionOf(entry, k))
    BY <1>1 DEF PageInv, CursorInv
  <2>2. \A k \in steady' : AfterCursor(p, PositionOf(entry, k))' <=> AfterCursor(p, PositionOf(entry, k))
    BY <1>1 DEF AfterCursor, PositionOf
  <2> QED
    BY <1>1, <2>1, <2>2 DEF PageInv, CursorInv, ValidQuery
<1>4. PagesComplete'
  BY <1>1 DEF PageInv, PagesComplete, ValidQuery
<1> QED
  BY <1>1, <1>2, <1>3, <1>4 DEF PageInv

\* A page: the steady rows that were not given are ahead of the cursor, and the
\* page takes the first of those.
LEMMA FetchPageKeepsPages ==
  ASSUME SysTyping, PageInv, FetchPage, UNCHANGED <<lgVars, repairVars>>
  PROVE  PageInv'
<1> DEFINE At(k) == PositionOf(entry, k)
           ahead == {k \in Matching(entry) : \A p \in position : AfterCursor(p, At(k))}
           at == [k \in DOMAIN entry |-> At(k)]
<1>1. PICK page \in SUBSET ahead :
        /\ Cardinality(page) = Least({query.limit, Cardinality(ahead)})
        /\ \A k \in page, m \in ahead \ page : ~Beyond(query.sort, At(m), At(k))
        /\ given' = [k \in DOMAIN given \cup page |->
                       (IF k \in DOMAIN given THEN given[k] ELSE 0)
                       + (IF k \in page THEN 1 ELSE 0)]
        /\ IF page = ahead
           THEN position' = {} /\ reading' = "ended"
           ELSE /\ position' = {At(k) : k \in {x \in page : \A m \in page :
                                                 ~Beyond(query.sort, At(x), At(m))}}
                /\ reading' = "more"
  BY Zenon DEF FetchPage
<1>2. /\ reading \in {"new", "more"} /\ ValidQuery(query) /\ query' = query /\ entry' = entry
      /\ steady' = IF reading = "new"
                   THEN {k \in Matching(entry) : \A m \in Matching(entry) \ {k} :
                                                   At(m) # At(k)}
                   ELSE steady
  BY DEF FetchPage, PageInv, lgVars, tables
<1>3. entry \in Table(EntryKey, EntryRow) /\ IsFiniteSet(DOMAIN entry)
  BY StateTyped DEF SysTyping, Typing, StateInv, Opened
<1>4. Matching(entry) \subseteq DOMAIN entry /\ ahead \subseteq Matching(entry)
  BY DEF Matching
<1>5. \A k \in DOMAIN entry : At(k) \in Position
  BY <1>3, PositionTyped
<1>6. IsFiniteSet(ahead) /\ page \subseteq DOMAIN entry
  BY <1>3, <1>4, FS_Subset
<1>7. /\ steady' \subseteq Matching(entry)
      /\ \A k \in steady', m \in Matching(entry) : At(m) = At(k) => m = k
  BY <1>2 DEF PageInv, SteadyInv
<1>8. \A k \in steady' : k \in DOMAIN given <=> k \notin ahead
  <2>1. CASE reading = "new"
    <3>1. position = {} /\ DOMAIN given = {}
      BY <2>1 DEF PageInv
    <3> QED
      BY <3>1, <1>7
  <2>2. CASE reading = "more"
    <3>1. PICK p \in Position :
            /\ position = {p}
            /\ \A k \in steady : k \in DOMAIN given <=> ~AfterCursor(p, At(k))
      BY <2>2 DEF PageInv, CursorInv
    <3> QED
      BY <1>2, <1>7, <2>2, <3>1
  <2> QED
    BY <1>2, <2>1, <2>2
<1>9. \A k \in steady' \cap DOMAIN given : given[k] = 1
  BY <1>2 DEF PageInv, PagesComplete
<1>10. \A k \in steady', m \in ahead : k \notin ahead => ~Beyond(query.sort, At(m), At(k))
  <2> SUFFICES ASSUME NEW k \in steady', NEW m \in ahead, k \notin ahead
               PROVE  ~Beyond(query.sort, At(m), At(k))
    OBVIOUS
  <2>1. PICK p \in position : ~Beyond(query.sort, p, At(k))
    BY <1>7 DEF AfterCursor
  <2>2. p \in Position /\ Beyond(query.sort, p, At(m))
    BY <1>2, <2>1 DEF PageInv, CursorInv, AfterCursor
  <2> HIDE DEF At, ahead
  <2> QED
    BY <1>4, <1>5, <1>7, <2>1, <2>2, PositionsTransitive
<1>11. DOMAIN given' = DOMAIN given \cup page
  BY <1>1
<1>12. \A k \in steady' \cap DOMAIN given' : given'[k] = 1
  BY <1>1, <1>8, <1>9, <1>11
<1> HIDE DEF ahead
<1>13. CursorInv'
  <2> SUFFICES ASSUME reading' = "more"
               PROVE  /\ ValidQuery(query)'
                      /\ \E p \in Position :
                           /\ position' = {p}
                           /\ \A k \in steady' :
                                k \in DOMAIN given' <=> ~AfterCursor(p, At(k))'
    BY DEF CursorInv
  <2>1. page # ahead
    BY <1>1
  <2>2. query.limit \in Nat \ {0}
    BY <1>2 DEF ValidQuery
  <2>3. page # {} /\ IsFiniteSet(page)
    BY <1>1, <1>6, <2>1, <2>2, PageHasRow
  <2>4. \A k \in page : at[k] = At(k) /\ at[k] \in Position
    BY <1>5, <1>6
  <2>5. PICK m \in page :
          /\ \A k \in page : ~Beyond(query.sort, at[m], at[k])
          /\ LastPositions(query.sort, page, at) = {at[m]}
    <3>1. \A k \in page : at[k] \in Position
      BY <2>4
    <3> HIDE DEF at, At
    <3> QED
      BY <2>3, <3>1, LastPosition
  <2>6. position' = {At(m)} /\ \A k \in page : ~Beyond(query.sort, At(m), At(k))
    <3> HIDE DEF at, At
    <3> QED
      BY <1>1, <2>1, <2>4, <2>5 DEF LastPositions
  <2>7. \A k \in steady' : k \in DOMAIN given' <=> ~Beyond(query.sort, At(m), At(k))
    <3> SUFFICES ASSUME NEW k \in steady'
                 PROVE  k \in DOMAIN given' <=> ~Beyond(query.sort, At(m), At(k))
      OBVIOUS
    <3>1. CASE k \notin ahead
      BY <1>8, <1>10, <1>11, <3>1
    <3>2. CASE k \in page
      BY <1>11, <2>6, <3>2
    <3>3. CASE k \in ahead \ page
      <4>1. ~Beyond(query.sort, At(k), At(m)) /\ At(k) # At(m)
        BY <1>1, <1>4, <1>7, <3>3
      <4>2. At(k) \in Position /\ At(m) \in Position
        BY <1>4, <1>5, <3>3
      <4> HIDE DEF At
      <4> QED
        BY <1>8, <1>11, <3>3, <4>1, <4>2, PositionsOrdered
    <3> QED
      BY <3>1, <3>2, <3>3
  <2>8. At(m) \in Position
    BY <1>5, <1>6
  <2>9. \A k : AfterCursor(At(m), At(k))' <=> Beyond(query.sort, At(m), At(k))
    BY <1>2 DEF AfterCursor, PositionOf
  <2> QED
    BY <1>2, <2>6, <2>7, <2>8, <2>9 DEF ValidQuery
<1>14. SteadyInv'
  BY <1>2, <1>7 DEF SteadyInv, Matching, PositionOf
<1>15. PagesComplete'
  <2>1. reading' = "ended" => steady' \subseteq DOMAIN given'
    BY <1>1, <1>8, <1>11
  <2> QED
    BY <1>12, <2>1 DEF PagesComplete
<1> QED
  BY <1>1, <1>2, <1>13, <1>14, <1>15 DEF PageInv

LEMMA PageInvKept == SysTyping /\ PageInv /\ [SysNext]_sysVars => PageInv'
<1> SUFFICES ASSUME SysTyping, PageInv, [SysNext]_sysVars PROVE PageInv'
  OBVIOUS
<1>1. CASE ReaderWaits
  BY <1>1, WaitingKeepsPages
<1>2. CASE FetchPage /\ UNCHANGED <<lgVars, repairVars>>
  BY <1>2, FetchPageKeepsPages
<1>3. CASE RefuseQuery /\ UNCHANGED <<lgVars, repairVars>>
  <2>1. entry' = entry
    BY <1>3 DEF lgVars, tables
  <2>2. SteadyInv'
    BY <1>3, <2>1 DEF RefuseQuery, PageInv, SteadyInv, Matching, PositionOf
  <2>3. reading' = "ended" /\ ~ValidQuery(query)' /\ UNCHANGED <<query, given, steady>>
    BY <1>3 DEF RefuseQuery, ValidQuery
  <2> QED
    BY <2>2, <2>3 DEF PageInv, CursorInv, PagesComplete
<1>4. CASE UNCHANGED sysVars
  BY <1>4 DEF sysVars, lgVars, tables, pageVars, PageInv, SteadyInv, CursorInv,
     PagesComplete, Matching, PositionOf, AfterCursor, ValidQuery
<1> QED
  BY <1>1, <1>2, <1>3, <1>4 DEF SysNext

\* A client that follows next_cursor to the end has been given every row that was
\* live at a position of its own all the time, and none of them twice, whatever
\* the workers and the repairs insert, orphan, restore and relocate meanwhile.
THEOREM PagesAreComplete == SysSpec => []PagesComplete
<1>1. SysSpec => []SysTyping
  BY SystemTypeCorrect
<1>2. SysSpec => []PageInv
  BY <1>1, InitialPages, PageInvKept, PTL DEF SysSpec
<1>3. PageInv => PagesComplete
  BY DEF PageInv
<1> QED
  BY <1>2, <1>3, PTL

-----------------------------------------------------------------------------
(* The ledger next to the metadata repair *)

\* The repair holds logs as some version of the chain has them.
MetaMined == meta.logs \in Seq(MinedIn(Blocks))

\* The part of the workers' invariant that the repair could disturb.
LedgerInv == Agreement /\ ReplayInv /\ MetaMined

\* The rows of f's log take over the hash of f, and the event its block, where
\* the entries are already.
Rehashed(f) ==
  /\ DOMAIN event' = DOMAIN event /\ DOMAIN entry' = DOMAIN entry
  /\ \A k \in DOMAIN event :
       /\ event'[k].orphaned = event[k].orphaned
       /\ IF k = f.log.key THEN event'[k].block = f.block /\ event'[k].hash = f.hash
          ELSE event'[k] = event[k]
  /\ \A k \in DOMAIN entry :
       /\ entry'[k].orphaned = entry[k].orphaned /\ entry'[k].amount = entry[k].amount
       /\ entry'[k].from = entry[k].from /\ entry'[k].to = entry[k].to
       /\ entry'[k].block = entry[k].block
       /\ IF k[1] = f.log.key THEN entry'[k].block = f.block /\ entry'[k].hash = f.hash
          ELSE entry'[k] = entry[k]

LEMMA MetadataRehashes ==
  ASSUME SysTyping, WellPlaced(entry), MetaMined, UpdateLogMetadata
  PROVE  Head(meta.logs) \in MinedIn(Blocks) /\ Rehashed(Head(meta.logs))
<1> DEFINE f == Head(meta.logs)
           A == MinedIn(Blocks)
<1>1. f \in MinedIn(Blocks)
  <2>1. meta.logs \in Seq(A) /\ meta.logs # <<>>
    BY DEF MetaMined, UpdateLogMetadata
  <2> HIDE DEF A
  <2>2. Head(meta.logs) \in A
    BY <2>1
  <2> QED
    BY <2>2 DEF A
<1>2. /\ event' = [k \in DOMAIN event |->
                     IF k = f.log.key THEN [Relocated(event[k], f) EXCEPT !.bare = FALSE]
                     ELSE event[k]]
      /\ entry' = [k \in DOMAIN entry |->
                     IF k[1] = f.log.key THEN Relocated(entry[k], f) ELSE entry[k]]
  BY DEF UpdateLogMetadata
<1> HIDE DEF f
<1>3. /\ event \in Table(LogKey, EventRow) /\ entry \in Table(EntryKey, EntryRow)
  BY StateTyped DEF SysTyping, Typing, StateInv, Opened
<1>4. ASSUME NEW k \in DOMAIN event
      PROVE  /\ event'[k].orphaned = event[k].orphaned
             /\ IF k = f.log.key THEN event'[k].block = f.block /\ event'[k].hash = f.hash
                ELSE event'[k] = event[k]
  <2>1. event[k] \in EventRow
    BY <1>3, TableTyped
  <2> QED
    BY <1>2, <2>1 DEF Relocated, EventRow
<1>5. ASSUME NEW k \in DOMAIN entry
      PROVE  /\ entry'[k].orphaned = entry[k].orphaned /\ entry'[k].amount = entry[k].amount
             /\ entry'[k].from = entry[k].from /\ entry'[k].to = entry[k].to
             /\ entry'[k].block = entry[k].block
             /\ IF k[1] = f.log.key THEN entry'[k].block = f.block /\ entry'[k].hash = f.hash
                ELSE entry'[k] = entry[k]
  <2>1. entry[k] \in EntryRow
    BY <1>3, TableTyped
  <2>2. CASE k[1] = f.log.key
    <3>1. entry[k].block = f.block
      BY <1>1, <2>2 DEF f, WellPlaced, PlacedBy
    <3>2. entry'[k] = [entry[k] EXCEPT !.block = f.block, !.hash = f.hash]
      BY <1>2, <2>2 DEF Relocated
    <3> QED
      BY <2>1, <2>2, <3>1, <3>2 DEF EntryRow
  <2>3. CASE k[1] # f.log.key
    BY <1>2, <2>3
  <2> QED
    BY <2>2, <2>3
<1>6. Rehashed(f)
  BY <1>2, <1>4, <1>5 DEF Rehashed
<1> QED
  BY <1>1, <1>6 DEF f

\* The balances do not depend on the hashes.
LEMMA AgreeWithoutHashes ==
  ASSUME NEW rows, NEW new, NEW balances, Agree(rows, balances), DOMAIN new = DOMAIN rows,
         \A k \in DOMAIN rows :
           /\ new[k].orphaned = rows[k].orphaned /\ new[k].amount = rows[k].amount
           /\ new[k].from = rows[k].from /\ new[k].to = rows[k].to
           /\ new[k].block = rows[k].block
  PROVE  Agree(new, balances)
<1>1. \A k \in DOMAIN rows : /\ \A a : EffectOf(new[k], a) = EffectOf(rows[k], a)
                             /\ Moves(new[k]) <=> Moves(rows[k])
                             /\ \A a, x : Bounds(x, new[k], a) <=> Bounds(x, rows[k], a)
  BY DEF EffectOf, Effect, Moves, Bounds
<1>2. ASSUME NEW a PROVE Total(new, a) = Total(rows, a)
  <2>1. [k \in DOMAIN new |-> EffectOf(new[k], a)] = [k \in DOMAIN rows |-> EffectOf(rows[k], a)]
    BY <1>1
  <2> QED
    BY <2>1 DEF Total
<1>3. ASSUME NEW k \in DOMAIN new, Moves(new[k]), NEW a \in {new[k].from, new[k].to} \cap Accounts
      PROVE  a \in DOMAIN balances /\ Bounds(balances[a], new[k], a)
  BY <1>1, <1>3 DEF Agree
<1> QED
  BY <1>2, <1>3 DEF Agree

\* The repair keeps what workers and tables agree on: it does not reach the rows
\* that an open orphaning has locked.
LEMMA MetadataAgrees ==
  ASSUME SysTyping, StableLogs, Agreement, UpdateLogMetadata, Rehashed(Head(meta.logs))
  PROVE  Agreement'
<1> DEFINE f == Head(meta.logs)
<1>1. Rehashed(f) /\ UNCHANGED <<balance, exec>> /\ ~EntriesLocked(f.log.key)
  BY DEF UpdateLogMetadata
<1> HIDE DEF f
<1>2. UNCHANGED <<balance, phase, job, locked>>
  BY <1>1 DEF exec
<1>3. Agree(entry', balance')
  BY <1>1, <1>2, AgreeWithoutHashes DEF Rehashed, Agreement, TablesInv
<1>4. Linked(event', entry')
  <2>1. Linked(event, entry)
    BY StableLogsDecode DEF Agreement, TablesInv
  <2>2. ASSUME NEW k \in EntryKey
        PROVE  /\ k \in DOMAIN entry' <=> k[1] \in DOMAIN event'
               /\ k \in DOMAIN entry' => /\ entry'[k].block = event'[k[1]].block
                                         /\ entry'[k].hash = event'[k[1]].hash
                                         /\ entry'[k].orphaned = event'[k[1]].orphaned
    BY <1>1, <2>1 DEF Rehashed, Linked
  <2> QED
    BY <2>2 DEF Linked
<1>5. TablesInv'
  BY <1>3, <1>4 DEF TablesInv, Linked
<1>6. SysTyping'
  BY UpdateLogMetadataTyped
<1>7. ASSUME NEW w \in Workers, phase'[w] \in Locking
      PROVE  /\ locked'[w][1] = InRange(entry', BlocksOf(job'[w]))
             /\ Reversed(locked[w][1])'.ok
             /\ phase'[w] = "marked" => locked'[w][2] = locked'[w][1]
  <2> DEFINE K == locked[w][1]
  <2>1. /\ K = InRange(entry, BlocksOf(job[w])) /\ Reversed(K).ok
        /\ phase[w] = "marked" => locked[w][2] = K
    BY <1>2, <1>7 DEF Agreement, LockInv
  <2>2. InRange(entry', BlocksOf(job[w])) = InRange(entry, BlocksOf(job[w]))
    BY <1>1 DEF Rehashed, InRange
  <2>3. \A k \in K : entry'[k] = entry[k]
    <3>1. K \in SUBSET DOMAIN entry
      BY <2>1 DEF InRange
    <3>2. \A k \in K : k[1] # f.log.key
      BY <1>1 DEF EntriesLocked
    <3> QED
      BY <1>1, <3>1, <3>2 DEF Rehashed
  <2>4. /\ Opened \in State /\ Opened' \in State
        /\ entry \in Table(EntryKey, EntryRow) /\ entry' \in Table(EntryKey, EntryRow)
        /\ Opened.ok = Opened'.ok /\ Opened.balance = Opened'.balance
        /\ IsFiniteSet(DOMAIN entry)
    BY <1>2, <1>6, StateTyped DEF SysTyping, Typing, StateInv, Opened
  <2>5. K \in SUBSET DOMAIN entry /\ K \in SUBSET DOMAIN entry' /\ IsFiniteSet(K)
    BY <1>1, <2>1, <2>4, FS_Subset DEF InRange, Rehashed
  <2> HIDE DEF K
  <2>6. ReversedFrom(entry', Opened', K).ok = ReversedFrom(entry, Opened, K).ok
    BY <2>3, <2>4, <2>5, ReversedSame
  <2>7. Reversed(locked[w][1])' = ReversedFrom(entry', Opened', K)
    BY <1>2 DEF K, Reversed, ReversedFrom, ReverseNext, LastOf, LastIn, Before, BeforeIn,
       MapThenFoldSet
  <2>8. Reversed(K) = ReversedFrom(entry, Opened, K)
    BY ReversedNow
  <2> QED
    BY <1>2, <1>7, <2>1, <2>2, <2>6, <2>7, <2>8 DEF K
<1>8. LockInv'
  <2>1. \A u, w \in Workers : phase'[u] \in Locking /\ phase'[w] \in Locking => u = w
    BY <1>2 DEF Agreement, LockInv
  <2> QED
    BY <1>7, <2>1 DEF LockInv
<1> QED
  BY <1>5, <1>8 DEF Agreement

\* A log that the chain has no longer makes its block a stale one; one that it
\* has gives the rows the hash they had.
LEMMA MetadataReplays ==
  ASSUME SysTyping, StableLogs, ReplayInv, UpdateLogMetadata,
         Head(meta.logs) \in MinedIn(Blocks), Rehashed(Head(meta.logs))
  PROVE  ReplayInv'
<1> DEFINE f == Head(meta.logs)
<1>1. /\ Rehashed(f) /\ UNCHANGED <<version, exec, synced>> /\ f \in MinedIn(Blocks)
      /\ stale' = IF f \in ToSet(LogsOf(f.block)) THEN stale ELSE stale \cup {f.block}
  BY DEF UpdateLogMetadata
<1> HIDE DEF f
<1>2. CanonInv /\ synced \subseteq Blocks /\ version \in DOMAIN Versions
  BY DEF ReplayInv, SysTyping, Typing, RestInv, ExecInv
<1>3. FetchInv'
  BY <1>1, FetchedKept DEF exec, ReplayInv
<1>4. WellPlaced(entry')
  BY <1>1, <1>2 DEF CanonInv, WellPlaced, PlacedBy, Rehashed
<1>5. ASSUME NEW b \in Blocks \ stale', NEW k \in DOMAIN entry',
             ~entry'[k].orphaned, entry'[k].block = b
      PROVE  \E g \in ToSet(LogsOf(b)) : WrittenFrom(g, k, entry'[k])
  <2>1. /\ b \notin stale /\ k \in DOMAIN entry /\ ~entry[k].orphaned /\ entry[k].block = b
    BY <1>1, <1>5 DEF Rehashed
  <2>2. PICK g \in ToSet(LogsOf(b)) : WrittenFrom(g, k, entry[k])
    BY <1>2, <2>1 DEF CanonInv
  <2>3. entry'[k].hash = entry[k].hash
    <3>1. CASE k[1] # f.log.key
      BY <1>1, <2>1, <3>1 DEF Rehashed
    <3>2. CASE k[1] = f.log.key
      <4>1. f.block = b /\ entry'[k].hash = f.hash
        BY <1>1, <1>5, <2>1, <3>2 DEF Rehashed
      <4>2. f \in ToSet(LogsOf(b))
        BY <1>1, <1>5, <4>1
      <4>3. ASSUME NEW x \in ToSet(LogsOf(b)) PROVE x.hash = HashOf(b)
        <5> DEFINE logs == Versions[version].logs[b]
        <5>1. logs \in Seq(Logs)
          BY <1>2, LedgerAssumption
        <5>2. PICK n \in DOMAIN logs : x = [log |-> logs[n], block |-> b, hash |-> HashOf(b)]
          BY <4>3, <5>1 DEF LogsOf, ToSet
        <5> QED
          BY <5>2
      <4>4. entry[k].hash = g.hash
        BY <2>2 DEF WrittenFrom
      <4> QED
        BY <2>2, <4>1, <4>2, <4>3, <4>4
    <3> QED
      BY <3>1, <3>2
  <2>4. WrittenFrom(g, k, entry'[k])
    BY <1>1, <2>1, <2>2, <2>3 DEF WrittenFrom, PlacedBy, Rehashed
  <2> QED
    BY <2>2, <2>4
<1>6. ASSUME NEW b \in synced' \ stale', NEW g \in ToSet(LogsOf(b))
      PROVE  Present(g, TRUE, entry')
  <2>1. b \in synced \ stale
    BY <1>1
  <2>2. Present(g, TRUE, entry)
    BY <1>2, <2>1 DEF CanonInv
  <2> QED
    BY <1>1, <2>2 DEF Present, Rehashed
<1>7. \A b : LogsOf(b)' = LogsOf(b)
  BY <1>1, LogsOfSame
<1>8. WellPlaced(entry)'
  BY <1>4 DEF WellPlaced, MinedIn, PlacedBy
<1>9. CanonInv'
  BY <1>5, <1>6, <1>7, <1>8 DEF CanonInv
<1> QED
  BY <1>3, <1>9 DEF ReplayInv

\* The logs the repair fetches are those of the chain.
LEMMA MetaMinedKept ==
  ASSUME SysTyping, MetaMined, RepairStep
  PROVE  MetaMined'
<1> DEFINE A == MinedIn(Blocks)
           S == Seq(A)
<1>1. meta \in MetaState /\ meta.logs \in S /\ version \in DOMAIN Versions
  BY DEF SysTyping, Typing, ExecInv, RepairInv, MetaMined
<1>2. CASE SelectBlocks
  BY <1>1, <1>2 DEF SelectBlocks, MetaState, MetaMined, MinedIn
<1>3. CASE FetchBlockLogs
  <2> DEFINE b == Least(meta.blocks)
  <2>1. b \in Blocks
    <3>1. meta.blocks \in SUBSET Blocks /\ meta.blocks # {} /\ meta.blocks \subseteq Nat
      BY <1>1, <1>3, LedgerAssumption DEF FetchBlockLogs, MetaState, Blocks
    <3>2. \E x \in meta.blocks : \A y \in meta.blocks : x <= y
      BY <3>1, LeastElement
    <3> QED
      BY <3>1, <3>2 DEF Least
  <2>2. meta' = [meta EXCEPT !.blocks = @ \ {b}, !.logs = LogsOf(b)]
    BY <1>3 DEF FetchBlockLogs
  <2> HIDE DEF b
  <2>3. LogsOf(b) \in S
    BY <1>1, <2>1, LogsOfMined
  <2>4. meta'.logs = LogsOf(b)
    BY <1>1, <2>2 DEF MetaState
  <2> QED
    BY <2>3, <2>4 DEF MetaMined, MinedIn
<1>4. CASE UpdateLogMetadata
  <2>1. meta'.logs = Tail(meta.logs) /\ meta.logs # <<>>
    BY <1>1, <1>4 DEF UpdateLogMetadata, MetaState
  <2>2. Tail(meta.logs) \in S
    <3> HIDE DEF A
    <3> QED
      BY <1>1, <2>1
  <2> QED
    BY <2>1, <2>2 DEF MetaMined, MinedIn
<1>5. CASE MetadataEnds
  <2>1. meta'.logs = <<>>
    BY <1>5 DEF MetadataEnds
  <2>2. <<>> \in S
    <3> HIDE DEF A
    <3> QED
      OBVIOUS
  <2> QED
    BY <2>1, <2>2 DEF MetaMined, MinedIn
<1>6. CASE UNCHANGED meta
  BY <1>1, <1>6 DEF MetaMined, MinedIn
<1> QED
  BY <1>2, <1>3, <1>4, <1>5, <1>6 DEF RepairStep, SelectTransactions, FetchMissingReceipt,
     PersistMissingReceipts, ReceiptsComplete, ReceiptsFail

\* What workers and clients do, and the repairs when they leave the tables alone.
LEMMA WorkersKeepLedger ==
  ASSUME SysTyping, StableLogs, Agreement, ReplayInv, [LgNext]_lgVars
  PROVE  Agreement' /\ ReplayInv'
BY LgStepKeeps, StepReplays DEF SysTyping, LgInv

LEMMA LedgerInvKept ==
  ASSUME SysTyping, StableLogs, LedgerInv, [SysNext]_sysVars
  PROVE  LedgerInv'
<1> USE DEF LedgerInv
<1>1. CASE LgNext /\ UNCHANGED repairVars
  <2>1. MetaMined'
    BY <1>1 DEF repairVars, MetaMined, MinedIn
  <2> QED
    BY <1>1, <2>1, WorkersKeepLedger
<1>2. CASE UpdateLogMetadata
  <2>1. WellPlaced(entry)
    BY DEF ReplayInv, CanonInv
  <2>2. Head(meta.logs) \in MinedIn(Blocks) /\ Rehashed(Head(meta.logs))
    BY <1>2, <2>1, MetadataRehashes
  <2> QED
    BY <1>2, <2>2, MetadataAgrees, MetadataReplays, MetaMinedKept DEF RepairStep
<1>3. CASE PersistMissingReceipts
  <2>1. UNCHANGED <<version, tables, exec, synced, stale>>
    BY <1>3 DEF PersistMissingReceipts
  <2>2. Undisturbed({}) /\ UNCHANGED <<version, entry, synced, stale, fetched, phase, job>>
    BY <2>1 DEF Undisturbed, exec, tables
  <2> QED
    BY <1>3, <2>2, UndisturbedKeeps, QuietReplays, MetaMinedKept DEF RepairStep
<1>4. CASE RepairStep /\ ~UpdateLogMetadata /\ ~PersistMissingReceipts
  <2>1. UNCHANGED lgVars
    BY <1>4 DEF RepairStep, SelectBlocks, FetchBlockLogs, MetadataEnds, SelectTransactions,
       FetchMissingReceipt, ReceiptsComplete, ReceiptsFail
  <2> QED
    BY <1>4, <2>1, WorkersKeepLedger, MetaMinedKept
<1>5. CASE UNCHANGED <<lgVars, repairVars>>
  <2>1. MetaMined'
    BY <1>5 DEF repairVars, MetaMined, MinedIn
  <2> QED
    BY <1>5, <2>1, WorkersKeepLedger
<1> QED
  BY <1>1, <1>2, <1>3, <1>4, <1>5 DEF SysNext, sysVars

LEMMA InitialLedger == SysInit => LedgerInv
<1> SUFFICES ASSUME SysInit PROVE LedgerInv
  OBVIOUS
<1>1. Agreement /\ ReplayInv
  BY LgInitCorrect, InitReplays DEF SysInit, LgInv
<1>2. MetaMined
  <2> DEFINE A == MinedIn(Blocks)
  <2>1. meta.logs = <<>>
    BY DEF SysInit, RpInit
  <2> HIDE DEF A
  <2>2. meta.logs \in Seq(A)
    BY <2>1
  <2> QED
    BY <2>2 DEF A, MetaMined
<1> QED
  BY <1>1, <1>2 DEF LedgerInv

\* With the repairs, the workers' invariant needs that mined logs are stable.
LEMMA LedgerSafe == SysSpec => [](StableLogs => LgInv /\ ReplayInv)
<1> DEFINE Safe == StableLogs => LedgerInv
<1>1. SysInit => Safe
  BY InitialLedger
<1>2. SysTyping /\ Safe /\ [SysNext]_sysVars => Safe'
  <2> SUFFICES ASSUME SysTyping, Safe, [SysNext]_sysVars, StableLogs PROVE LedgerInv'
    OBVIOUS
  <2> QED
    BY LedgerInvKept
<1>3. SysTyping /\ Safe => (StableLogs => LgInv /\ ReplayInv)
  BY DEF SysTyping, LgInv, LedgerInv
<1> HIDE DEF Safe
<1>4. SysSpec => []SysTyping
  BY SystemTypeCorrect
<1> QED
  BY <1>1, <1>2, <1>3, <1>4, PTL DEF SysSpec

\* When a log that is mined again keeps its block, sender and receiver, the
\* metadata repair may rewrite rows between any two steps of the workers:
\* token_balances stays the sum of the live ledger_entries, within the blocks
\* they were moved in.
THEOREM BalancesSurviveRepairs ==
  SysSpec => [](StableLogs => BalancesMatchLedger /\ MovementBounds)
<1>1. (StableLogs => LgInv /\ ReplayInv) => (StableLogs => BalancesMatchLedger /\ MovementBounds)
  BY BalancesFollow, MovementsFollow
<1> QED
  BY <1>1, LedgerSafe, PTL

\* The repair writes the block and the hash of an event and of its entries
\* together, also while a range of them is being orphaned statement by statement.
THEOREM EventsSurviveRepairs == SysSpec => [](StableLogs => LiveEntriesHaveLiveEvents)
<1>1. (StableLogs => LgInv /\ ReplayInv) => (StableLogs => LiveEntriesHaveLiveEvents)
  BY EntriesFollow, StableLogsDecode
<1> QED
  BY <1>1, LedgerSafe, PTL

\* Logs the repair fetched before a reorganisation undo a replay only of the blocks
\* that this marks as stale.
THEOREM ReplaysSurviveRepairs == SysSpec => [](StableLogs => CanonicalAfterReplay)
<1>1. (StableLogs => LgInv /\ ReplayInv) => (StableLogs => CanonicalAfterReplay)
  BY ReplaysCorrect
<1> QED
  BY <1>1, LedgerSafe, PTL
=============================================================================
