------------------------------- MODULE EvmLogs -------------------------------
(***************************************************************************)
(* Transfer logs and their decoding (application/evm.rs).                  *)
(*                                                                         *)
(* A log has its topics (the first one names the event), its data as a     *)
(* sequence of 32-byte words, and whether bytes are left over after the    *)
(* last whole word.  Hex, case and the width of a word are left out: a     *)
(* word or a topic is its value.  An operator that returns a Result gives  *)
(* Failure where the code bails.                                           *)
(***************************************************************************)
EXTENDS Naturals, Sequences, SequencesExt

Failure == [failed |-> TRUE, value |-> {}]
Success(v) == [failed |-> FALSE, value |-> v]

\* supported_topic0_values
Topic0Values(standard) ==
  CASE standard = "auto" -> {"Transfer", "TransferSingle", "TransferBatch"}
    [] standard \in {"erc20", "erc721"} -> {"Transfer"}
    [] standard = "erc1155" -> {"TransferSingle", "TransferBatch"}

TransferShapeIdInData(topics, words) ==   \* mutant: ERC-721 ids sought in the data
  CASE topics = 3 /\ words = 2 -> Success({"erc721"})
    [] topics = 3 /\ words = 1 -> Success({"erc20"})
    [] OTHER -> Failure

\* ERC-20 and ERC-721 share the event Transfer; its shape tells them apart.
TransferShape(topics, words) ==
  CASE topics = 4 /\ words = 0 -> Success({"erc721"})
    [] topics = 3 /\ words = 1 -> Success({"erc20"})
    [] OTHER -> Failure

\* detect_token_standard_from_log: a set of at most one standard.
StandardOfLog(log) ==
  CASE log.topics = <<>> -> Success({})
    [] log.topics[1] \in {"TransferSingle", "TransferBatch"} -> Success({"erc1155"})
    [] log.topics[1] = "Transfer" ->
         IF log.ragged THEN Failure
         ELSE TransferShape(Len(log.topics), Len(log.data))
    [] OTHER -> Success({})

\* One DecodedLedgerEntry; the token id of an ERC-20 transfer, an empty
\* string in the code, is 0, and "none" is an absent operator.
Entry(operator, from, to, token, amount, index) ==
  [operator |-> operator, from |-> from, to |-> to, token |-> token,
   amount |-> amount, index |-> index]

\* decode_transfer, after validate_transfer_shape_matches_standard.
DecodeTransfer(log, standard) ==
  IF StandardOfLog(log) # Success({standard})
  THEN Failure
  ELSE Success(<<IF standard = "erc20"
                 THEN Entry("none", log.topics[2], log.topics[3], 0, log.data[1], 0)
                 ELSE Entry("none", log.topics[2], log.topics[3], log.topics[4], 1, 0)>>)

\* decode_transfer_single: word_at asks for two words and allows more.
DecodeTransferSingle(log) ==
  IF Len(log.topics) # 4 \/ Len(log.data) < 2
  THEN Failure
  ELSE Success(<<Entry(log.topics[2], log.topics[3], log.topics[4],
                       log.data[1], log.data[2], 0)>>)

UintArrayFromLength(words, offset) ==   \* mutant: the items begin at the length
  LET start == offset \div 32
  IN  IF offset % 32 # 0 \/ start >= Len(words)
         \/ start + 1 + words[start + 1] > Len(words)
      THEN Failure
      ELSE Success([k \in 1..words[start + 1] |-> words[start + k]])

\* decode_dynamic_uint_array: the length at the offset, then the items.
UintArray(words, offset) ==
  LET start == offset \div 32
  IN  IF offset % 32 # 0 \/ start >= Len(words)
         \/ start + 1 + words[start + 1] > Len(words)
      THEN Failure
      ELSE Success([k \in 1..words[start + 1] |-> words[start + 1 + k]])

\* decode_transfer_batch: one entry per id, numbered from 0.
DecodeTransferBatch(log) ==
  IF Len(log.topics) # 4 \/ log.ragged \/ Len(log.data) < 2
  THEN Failure
  ELSE LET ids == UintArray(log.data, log.data[1])
           amounts == UintArray(log.data, log.data[2])
       IN  IF ids.failed \/ amounts.failed
           THEN Failure
           ELSE IF Len(ids.value) # Len(amounts.value)
           THEN Failure
           ELSE Success([k \in DOMAIN ids.value |->
                          Entry(log.topics[2], log.topics[3], log.topics[4],
                                ids.value[k], amounts.value[k], k - 1)])

\* decode_log: the entries of a log, none for a log of another standard.
DecodeLog(log, standard) ==
  CASE log.topics = <<>> -> Success(<<>>)
    [] log.topics[1] = "Transfer" /\ standard \in {"erc20", "erc721"} ->
         DecodeTransfer(log, standard)
    [] log.topics[1] = "TransferSingle" /\ standard = "erc1155" ->
         DecodeTransferSingle(log)
    [] log.topics[1] = "TransferBatch" /\ standard = "erc1155" ->
         DecodeTransferBatch(log)
    [] OTHER -> Success(<<>>)

-----------------------------------------------------------------------------
(* What a log means, from the side of the contract: the token standards    *)
(* and the ABI encoding, against which the decoding is checked.            *)

IsErc20(log) ==
  log.topics[1] = "Transfer" /\ Len(log.topics) = 3 /\ Len(log.data) = 1 /\ ~log.ragged

IsErc721(log) ==
  log.topics[1] = "Transfer" /\ Len(log.topics) = 4 /\ Len(log.data) = 0 /\ ~log.ragged

\* More data than the two words is allowed.
IsSingle(log) ==
  log.topics[1] = "TransferSingle" /\ Len(log.topics) = 4 /\ Len(log.data) >= 2

\* At an offset in bytes, the words hold an array of n items, the first of them
\* after the word with n.
ArrayAt(words, offset, n, first) ==
  /\ offset = 32 * (first - 2)
  /\ first - 1 \in DOMAIN words
  /\ words[first - 1] = n
  /\ first + n - 1 <= Len(words)

\* Two arrays of n items, which begin at words i and a.
IsBatchOf(log, n, i, a) ==
  /\ log.topics[1] = "TransferBatch" /\ Len(log.topics) = 4 /\ ~log.ragged
  /\ Len(log.data) >= 2
  /\ ArrayAt(log.data, log.data[1], n, i)
  /\ ArrayAt(log.data, log.data[2], n, a)

IsBatch(log) ==
  \E n \in 0..Len(log.data), i, a \in 2..(Len(log.data) + 1) : IsBatchOf(log, n, i, a)

\* A log carries its standard ("odd" if there is none that describes it) and the
\* transfers it stands for.
MeansTransfers(log) ==
  /\ log.topics # <<>> /\ log.data \in Seq(Nat) /\ log.ragged \in BOOLEAN
  /\ log.standard = CASE IsErc20(log) -> "erc20"
                       [] IsErc721(log) -> "erc721"
                       [] IsSingle(log) \/ IsBatch(log) -> "erc1155"
                       [] OTHER -> "odd"
  /\ IsErc20(log) =>
       log.entries = <<Entry("none", log.topics[2], log.topics[3], 0, log.data[1], 0)>>
  /\ IsErc721(log) =>
       log.entries = <<Entry("none", log.topics[2], log.topics[3], log.topics[4], 1, 0)>>
  /\ IsSingle(log) =>
       log.entries = <<Entry(log.topics[2], log.topics[3], log.topics[4],
                             log.data[1], log.data[2], 0)>>
  /\ \A n \in 0..Len(log.data), i, a \in 2..(Len(log.data) + 1) :
       IsBatchOf(log, n, i, a) =>
         log.entries = [k \in 1..n |->
                          Entry(log.topics[2], log.topics[3], log.topics[4],
                                log.data[i + k - 1], log.data[a + k - 1], k - 1)]
=============================================================================
