------------------------------ MODULE LogIngest ------------------------------
(***************************************************************************)
(* How ingest_source_range turns a block range into decoded transfers      *)
(* (application/ingest.rs): it finds out the token standard of the         *)
(* contract if the source says "auto", fetches the logs of the range chunk *)
(* by chunk, reusing the chunk the detection has already fetched, adds the *)
(* block times and decodes them all before any of them is persisted.       *)
(*                                                                         *)
(* Block numbers are u64: 0..MaxU64, with the arithmetic of the code at    *)
(* that edge.  The blocks asked for are final, so the chain is fixed.      *)
(***************************************************************************)
EXTENDS EvmLogs, Integers

CONSTANTS
  MaxU64,   \* u64::MAX
  Emitted,  \* the logs contracts emit
  Tasks     \* members of TaskSet: the chain's logs per block and the arguments
            \* of the call

Standards == {"erc20", "erc721", "erc1155"}
U64 == 0..MaxU64
TaskSet == [chain : [U64 -> Seq(Emitted)], from : U64, to : U64, chunkSize : U64,
            standard : Standards \cup {"auto"}]

ASSUME IngestAssumption ==
  /\ MaxU64 \in Nat
  /\ \A log \in Emitted : MeansTransfers(log)
  /\ Tasks \subseteq TaskSet

VARIABLES
  task,       \* the call
  step,       \* where it is
  standard,   \* the standard, once known
  chunkFrom,  \* chunk_from of the loop that runs
  prefetched, \* the chunk the detection kept, a set of at most one
  logs,       \* the logs fetched
  decoded     \* the entries decoded

liVars == <<task, step, standard, chunkFrom, prefetched, logs, decoded>>

Ended == {"decoded", "refused", "rpc_failed"}

\* scan-contract runs the detection before the call and passes the chunk on as
\* prefetched_logs: the same loops in the same order.
LiInit ==
  /\ task \in Tasks
  /\ step = "start"
  /\ standard = task.standard
  /\ chunkFrom = task.from
  /\ prefetched = {}
  /\ logs = <<>>
  /\ decoded = <<>>

-----------------------------------------------------------------------------
(* The chain *)

\* The logs of a block that have one of the topics of a standard, in order.
Selected(s, block) ==
  FlattenSeq([k \in DOMAIN block |->
                IF block[k].topics[1] \in Topic0Values(s) THEN <<block[k]>> ELSE <<>>])

\* EvmRpcClient::logs: eth_getLogs with the topics of a standard.
Logs(s, from, to) ==
  FlattenSeq([k \in 1..(to - from + 1) |-> Selected(s, task.chain[from + k - 1])])

-----------------------------------------------------------------------------
(* The loops.  Both step through from..to in chunks of chunk_size.         *)

\* chunk_from.saturating_add(chunk_size - 1).min(to)
ChunkTo ==
  LET end == chunkFrom + task.chunkSize - 1
  IN  IF end < task.to THEN end ELSE task.to

Refuse == step' = "refused" /\ UNCHANGED <<task, standard, chunkFrom, prefetched, logs, decoded>>

\* The checks at the top of ingest_source_range.
Begin ==
  /\ step = "start"
  /\ IF task.from > task.to \/ task.chunkSize = 0
     THEN Refuse
     ELSE /\ step' = IF task.standard = "auto" THEN "detecting" ELSE "fetching"
          /\ UNCHANGED <<task, standard, chunkFrom, prefetched, logs, decoded>>

\* detect_token_standard_from_logs: the standards of the logs of a chunk, or
\* a failure when there are two or when a Transfer has neither shape.
StandardsOf(chunk) ==
  LET found == {StandardOfLog(chunk[k]) : k \in DOMAIN chunk} \ {Success({})}
  IN  IF Failure \in found \/ \E x, y \in found : x # y
      THEN Failure
      ELSE Success(UNION {x.value : x \in found})

DetectAgainSaturating(chunkTo) ==   \* mutant: saturating_add(1), no break
  IF chunkTo = MaxU64 THEN {MaxU64} ELSE {chunkTo + 1}

\* Where the detection goes on after a chunk: nowhere after u64::MAX.
DetectAgain(chunkTo) == IF chunkTo = MaxU64 THEN {} ELSE {chunkTo + 1}

\* One turn of detect_token_standard_with_prefetched_logs.
DetectChunk ==
  LET chunk == Logs("auto", chunkFrom, ChunkTo)
      found == StandardsOf(chunk)
      again == {b \in DetectAgain(ChunkTo) : b <= task.to}
  IN /\ step = "detecting"
     /\ \/ /\ found.failed \/ (found.value = {} /\ again = {})
           /\ Refuse
        \/ /\ ~found.failed /\ found.value = {} /\ again # {}
           /\ chunkFrom' \in again
           /\ UNCHANGED <<task, step, standard, prefetched, logs, decoded>>
        \/ /\ ~found.failed /\ found.value # {}
           /\ standard' \in found.value
           /\ prefetched' = {[from |-> chunkFrom, to |-> ChunkTo, logs |-> chunk]}
           /\ step' = "fetching"
           /\ chunkFrom' = task.from
           /\ UNCHANGED <<task, logs, decoded>>

FetchAgainSaturating(chunkTo) ==   \* mutant: saturating_add(1), no break
  IF chunkTo = MaxU64 THEN {MaxU64} ELSE {chunkTo + 1}

\* Where the fetching goes on after a chunk.
FetchAgain(chunkTo) == IF chunkTo = MaxU64 THEN {} ELSE {chunkTo + 1}

\* One turn of fetch_logs_in_chunks_with_progress; the prefetched chunk is
\* taken if its bounds are those of this chunk.
FetchChunk ==
  LET kept == {c \in prefetched : c.from = chunkFrom /\ c.to = ChunkTo}
      again == {b \in FetchAgain(ChunkTo) : b <= task.to}
  IN /\ step = "fetching"
     /\ \E chunk \in IF kept = {} THEN {Logs(standard, chunkFrom, ChunkTo)}
                                  ELSE {c.logs : c \in kept} :
          logs' = logs \o chunk
     /\ prefetched' = prefetched \ kept
     /\ IF again = {}
        THEN step' = "stamping" /\ UNCHANGED chunkFrom
        ELSE chunkFrom' \in again /\ UNCHANGED step
     /\ UNCHANGED <<task, standard, decoded>>

\* attach_block_timestamps asks for the header of every block with a log; the
\* times themselves play no part here.
AttachBlockTimestamps ==
  /\ step = "stamping"
  /\ step' = "decoding"
  /\ UNCHANGED <<task, standard, chunkFrom, prefetched, logs, decoded>>

\* One log that does not decode refuses the whole range.
DecodeLogs ==
  LET results == [k \in DOMAIN logs |-> DecodeLog(logs[k], standard)]
  IN /\ step = "decoding"
     /\ IF \E k \in DOMAIN results : results[k].failed
        THEN Refuse
        ELSE /\ decoded' = FlattenSeq([k \in DOMAIN results |-> results[k].value])
             /\ step' = "decoded"
             /\ UNCHANGED <<task, standard, chunkFrom, prefetched, logs>>

\* An RPC call fails or runs into its timeout, and the call returns the error.
RpcFails ==
  /\ \/ step \in {"detecting", "fetching"}
     \/ step = "stamping" /\ logs # <<>>
  /\ step' = "rpc_failed"
  /\ UNCHANGED <<task, standard, chunkFrom, prefetched, logs, decoded>>

Ingest == Begin \/ DetectChunk \/ FetchChunk \/ AttachBlockTimestamps \/ DecodeLogs

LiNext == Ingest \/ RpcFails

\* The call runs on by itself (an RPC call returns or times out); that it
\* ends must not depend on a failure.
LiSpec == LiInit /\ [][LiNext]_liVars /\ WF_liVars(Ingest)

-----------------------------------------------------------------------------
(* Properties.  A log of the chain also says what the contract meant by    *)
(* it (MeansTransfers).                                                    *)

\* Through all chunks, the logs fetched are those of from..chunk_from - 1 (in
\* the end of from..to), each once and in order: reusing the prefetched chunk,
\* which was asked for with the topics of every standard, shows nowhere.
FetchedSoFar ==
  /\ step = "fetching" => logs = Logs(standard, task.from, chunkFrom - 1)
  /\ step \in {"stamping", "decoding", "decoded"} =>
       logs = Logs(standard, task.from, task.to)

\* The last blocks of the chunks, were the range to go on for ever.
ChunkEnds == {task.from + n * task.chunkSize - 1 : n \in 1..(MaxU64 + 1)}

\* A log that the requested standard selects and the one in use does not comes
\* in a later chunk than the first one with transfers: there the detection
\* has stopped, and the topic filter of what it found is silent about the log.
OthersComeLater ==
  \A b \in task.from..task.to : \A k \in DOMAIN task.chain[b] :
    LET topic == task.chain[b][k].topics[1]
    IN topic \in Topic0Values(task.standard) \ Topic0Values(standard) =>
         \E end \in ChunkEnds : end < b /\ Logs(task.standard, task.from, end) # <<>>

\* What is handed to the ledger is what the contract meant by its logs of the
\* standard in use, transfer by transfer, for the whole range: no chunk
\* boundary or batch layout drops, repeats or changes one.  With "auto" a log
\* of another standard is left out only if its chunk comes after the one in
\* which the standard was detected.
DecodedAsEmitted ==
  step = "decoded" =>
    LET meant == Logs(standard, task.from, task.to)
    IN  /\ decoded = FlattenSeq([k \in DOMAIN meant |-> meant[k].entries])
        /\ OthersComeLater

\* The logs of the range that the requested standard's topics select.
InScope ==
  LET scope == Logs(task.standard, task.from, task.to)
  IN  {scope[k] : k \in DOMAIN scope}

\* A range is refused only for a cause: bad arguments, a log no standard
\* describes, logs of a standard other than the source's or of two
\* standards, or nothing to tell the standard from.
RefusedForCause ==
  step = "refused" =>
    \/ task.from > task.to
    \/ task.chunkSize = 0
    \/ \E log \in InScope :
         \/ log.standard = "odd"
         \/ task.standard \notin {"auto", log.standard}
         \/ \E other \in InScope : other.standard # log.standard
    \/ task.standard = "auto" /\ InScope = {}

\* The loops end, also where the range ends at the highest block number.
IngestEnds == <>(step \in Ended)
=============================================================================
