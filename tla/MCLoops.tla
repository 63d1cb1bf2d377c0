------------------------------- MODULE MCLoops -------------------------------
(***************************************************************************)
(* The two loops whose inputs can be listed: next_contiguous_checkpoint_   *)
(* target over all sequences of up to three ranges, and ingest_source_     *)
(* range over all short chains with logs in up to two blocks.  A behaviour *)
(* runs one of them.                                                       *)
(***************************************************************************)
EXTENDS ContiguousTarget, LogIngest

MCInputs == UNION {[1..n -> RangeSet] : n \in 0..3}
MCFrontiers == -1..MaxBlock

-----------------------------------------------------------------------------
(* What contracts emit: the ABI encoding of transfers *)

Log(topics, data, ragged, std, entries) ==
  [topics |-> topics, data |-> data, ragged |-> ragged, standard |-> std,
   entries |-> entries]

Erc20 == Log(<<"Transfer", "a", "b">>, <<5>>, FALSE, "erc20",
             <<Entry("none", "a", "b", 0, 5, 0)>>)
Erc721 == Log(<<"Transfer", "a", "b", 7>>, <<>>, FALSE, "erc721",
              <<Entry("none", "a", "b", 7, 1, 0)>>)
Single == Log(<<"TransferSingle", "o", "a", "b">>, <<7, 5>>, FALSE, "erc1155",
              <<Entry("o", "a", "b", 7, 5, 0)>>)

\* Two arrays behind their two offsets; the amounts may come first.
BatchData(ids, amounts) ==
  <<64, 96 + 32 * Len(ids), Len(ids)>> \o ids \o <<Len(amounts)>> \o amounts
BatchDataAmountsFirst(ids, amounts) ==
  <<96 + 32 * Len(amounts), 64, Len(amounts)>> \o amounts \o <<Len(ids)>> \o ids

BatchTopics == <<"TransferBatch", "o", "a", "b">>
BatchEntries == <<Entry("o", "a", "b", 7, 5, 0), Entry("o", "a", "b", 8, 6, 1)>>
Batch == Log(BatchTopics, BatchData(<<7, 8>>, <<5, 6>>), FALSE, "erc1155", BatchEntries)
BatchAmountsFirst ==
  Log(BatchTopics, BatchDataAmountsFirst(<<7, 8>>, <<5, 6>>), FALSE, "erc1155",
      BatchEntries)
EmptyBatch == Log(BatchTopics, BatchData(<<>>, <<>>), FALSE, "erc1155", <<>>)

\* No standard describes these: a Transfer without the amount, one with bytes
\* left over, a batch of two ids and one amount, one cut short.
OddLogs ==
  {Log(<<"Transfer", "a", "b">>, <<>>, FALSE, "odd", <<>>),
   Log(<<"Transfer", "a", "b">>, <<5>>, TRUE, "odd", <<>>),
   Log(BatchTopics, BatchData(<<7, 8>>, <<5>>), FALSE, "odd", <<>>),
   Log(BatchTopics, <<64, 160, 2, 7>>, FALSE, "odd", <<>>)}

\* What one block may hold, besides nothing.
BlockLogs ==
  {<<Erc20>>, <<Erc20, Erc20>>, <<Erc721>>, <<Single, Batch>>,
   <<BatchAmountsFirst>>, <<EmptyBatch>>, <<Erc20, Single>>}
  \cup {<<odd>> : odd \in OddLogs}

MCEmitted ==
  {Erc20, Erc721, Single, Batch, BatchAmountsFirst, EmptyBatch} \cup OddLogs

Chains ==
  {[b \in U64 |-> IF b = x THEN s ELSE IF b = y THEN t ELSE <<>>] :
     x \in U64, y \in U64, s \in BlockLogs, t \in BlockLogs \cup {<<>>}}

MCTasks ==
  [chain : Chains, from : U64, to : U64, chunkSize : U64,
   standard : {"auto", "erc20", "erc721", "erc1155"}]

-----------------------------------------------------------------------------
NoTask == [chain |-> [b \in U64 |-> <<>>], from |-> 0, to |-> 0,
           chunkSize |-> 1, standard |-> "erc20"]

CtFinished == ranges = <<>> /\ frontier = -1 /\ sorted = TRUE /\ i = 1 /\ target = -1
LiFinished ==
  /\ task = NoTask /\ step = "decoded" /\ standard = "erc20" /\ chunkFrom = 0
  /\ prefetched = {} /\ logs = <<>> /\ decoded = <<>>

LoopsInit == (CtInit /\ LiFinished) \/ (LiInit /\ CtFinished)
LoopsNext == (CtNext /\ UNCHANGED liVars) \/ (LiNext /\ UNCHANGED ctVars)
LoopsSpec == LoopsInit /\ [][LoopsNext]_<<ctVars, liVars>> /\ WF_liVars(Ingest)
=============================================================================
