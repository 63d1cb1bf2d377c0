------------------------------- MODULE MCLedger -------------------------------
(***************************************************************************)
(* Small instances of the ledger: two holders of one token, two blocks.    *)
(***************************************************************************)
EXTENDS LedgerSystem

CONSTANTS w1, w2, w3, alice, bob

MCAccounts == {alice, bob}
WorkerSymmetry == Permutations({w1, w2})
Job(type, from, to) == [type |-> type, from |-> from, to |-> to]
Log(tx, index, entries) == [key |-> [tx |-> tx, log |-> index], entries |-> entries]
Move(from, to, amount) == [from |-> from, to |-> to, amount |-> amount]
Mint(to, amount) == Move(NoAccount, to, amount)
Version(fork, b0, b1) ==
  [fork |-> fork, logs |-> [b \in 0..1 |-> IF b = 0 THEN b0 ELSE b1]]

\* Overlapping jobs; the one for block 1 alone may run before block 0 is there.
MCWork == {Job("ingest", 0, 0), Job("ingest", 0, 1), Job("ingest", 1, 1),
           Job("replay", 0, 1), Job("replay", 1, 1)}

Indexed == {{}, {0, 1}}

\* Block 1 is replaced: "batch" (two entries) is mined again in the same place,
\* "gone" is not, "new" takes its log index.
Mint2 == Log("mint", 0, <<Mint(alice, 2)>>)
Batch == Log("batch", 0, <<Move(alice, bob, 1), Mint(bob, 1)>>)
Gone == Log("gone", 1, <<Mint(alice, 1)>>)
New == Log("new", 1, <<Move(alice, bob, 1)>>)
Replaced == <<Version(0, <<Mint2>>, <<Batch, Gone>>),
              Version(1, <<Mint2>>, <<Batch, New>>)>>

\* Both blocks are replaced and "moved" is mined one block later.
Moved == Log("moved", 0, <<Mint(bob, 1)>>)
Remined == <<Version(0, <<Moved>>, <<>>), Version(0, <<>>, <<Moved>>)>>

\* alice passes on what she received in the same range; no reorganisation.
Spent == <<Version(0, <<Mint2>>, <<Log("spend", 0, <<Move(alice, bob, 2)>>)>>)>>

\* "other" is in block 1 all the time; "moved" joins it there.
Other == Log("other", 1, <<Mint(alice, 1)>>)
Joining == <<Version(0, <<Moved>>, <<Other>>), Version(0, <<>>, <<Moved, Other>>)>>

Query(sort, limit, from, account) ==
  [sort |-> sort, limit |-> limit, from |-> from, to |-> 1, account |-> account]
MCQueries == {Query("asc", 1, 0, NoAccount), Query("desc", 2, 0, NoAccount),
              Query("desc", 1, 0, bob), Query("asc", 0, 0, NoAccount)}

\* What runs side by side: the workers that are up, how often they execute which
\* job, and which of the other programs are started.
Runs(up, executed, n, legacy, others) ==
  /\ phase = [w \in Workers |-> IF w \in up THEN "idle" ELSE "off"]
  /\ budget = [j \in Work |-> IF j \in executed THEN n ELSE 0]
  /\ meta.at = IF "metadata" \in others THEN "new" ELSE "ended"
  /\ missing.at = IF "receipts" \in others THEN "new" ELSE "ended"
  /\ IF "client" \in others THEN reading = "new"
     ELSE reading = "ended" /\ query = Query("asc", 1, 0, NoAccount)
  /\ legacy <=> event # <<>>

\* Two workers on overlapping jobs; a worker that fetches receipts next to both
\* repairs; a worker next to a client that reads.
SideBySide ==
  \/ Runs({w1, w2}, Work, MaxTries, FALSE, {})
  \/ Runs({w3}, {Job("replay", 0, 1), Job("ingest", 1, 1)}, 1, TRUE, {"metadata", "receipts"})
  \/ Runs({w1}, {Job("ingest", 0, 1), Job("replay", 1, 1)}, 1, FALSE, {"client"})
  \/ Runs({w1}, {Job("replay", 1, 1), Job("replay", 0, 1)}, 1, TRUE, {"client"})

SideBySideInit == SysInit /\ SideBySide
SideBySideSpec == SideBySideInit /\ [][SysNext]_sysVars

\* One ingest and a replay of everything it wrote.
WholeRange == Runs({w1}, {Job("ingest", 0, 1), Job("replay", 0, 1)}, MaxTries, FALSE, {})
WholeRangeInit == SysInit /\ WholeRange
WholeRangeSpec == WholeRangeInit /\ [][SysNext]_sysVars

\* A replay next to the repair of legacy rows.
RepairNextToReplay == Runs({w1}, {Job("replay", 1, 1)}, 1, TRUE, {"metadata"})
RepairNextToReplayInit == SysInit /\ RepairNextToReplay
RepairNextToReplaySpec == RepairNextToReplayInit /\ [][SysNext]_sysVars
=============================================================================
