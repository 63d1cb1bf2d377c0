----------------------------- MODULE LoopsProofs -----------------------------
(***************************************************************************)
(* The loop of next_contiguous_checkpoint_target is right for every number *)
(* of ranges, every overlap and every frontier; the loops of               *)
(* ingest_source_range and the decoding are right for every chain, range,  *)
(* chunk size and standard.                                                *)
(***************************************************************************)
EXTENDS ContiguousTarget, LogIngest, Induction

-----------------------------------------------------------------------------
(* The contiguous target *)

InOrder == \A k, m \in DOMAIN ranges : k < m => AtMost(ranges[k], ranges[m])

CtTypeOK ==
  /\ ranges \in Seq(RangeSet)
  /\ frontier \in -1..MaxBlock
  /\ sorted \in BOOLEAN
  /\ i \in 1..(Len(ranges) + 1)
  /\ target \in frontier..MaxBlock

Unbroken ==
  \A b \in (frontier + 1)..target : \E k \in DOMAIN ranges : b \in BlocksOf(ranges[k])

\* The ranges seen so far end at the target or lie beyond a gap.  Because the
\* later ones begin no earlier, the target never crosses that gap.
SeenBeyondGap ==
  \A k \in 1..(i - 1) : ranges[k].to <= target \/ ranges[k].from > target + 1

CtInv ==
  /\ CtTypeOK
  /\ sorted => InOrder
  /\ ~sorted => i = 1
  /\ Unbroken
  /\ SeenBeyondGap

\* Before the loop nothing has been seen and the target is the frontier.
LEMMA CtInvInit == CtInit => CtInv
<1> SUFFICES ASSUME CtInit PROVE CtInv
  OBVIOUS
<1>1. ranges \in Seq(RangeSet) /\ frontier \in -1..MaxBlock /\ MaxBlock \in Nat
  BY ContiguousAssumption DEF CtInit
<1>2. Len(ranges) \in Nat
  BY <1>1
<1>3. CtTypeOK
  <2>1. i = 1 /\ target = frontier /\ sorted \in BOOLEAN
    BY DEF CtInit
  <2>2. i \in 1..(Len(ranges) + 1) /\ target \in frontier..MaxBlock
    BY <1>1, <1>2, <2>1
  <2> QED
    BY <1>1, <2>1, <2>2 DEF CtTypeOK
<1>4. Unbroken /\ SeenBeyondGap
  BY <1>1 DEF CtInit, Unbroken, SeenBeyondGap
<1> QED
  BY <1>3, <1>4 DEF CtInit, CtInv

\* Sorting puts the ranges in order and loses none.
LEMMA SortStep == CtInv /\ Sort => CtInv'
<1> SUFFICES ASSUME CtInv, Sort PROVE CtInv'
  OBVIOUS
<1>1. PICK p \in [DOMAIN ranges -> DOMAIN ranges] :
        /\ \A k \in DOMAIN ranges : \E m \in DOMAIN ranges : p[m] = k
        /\ \A k, m \in DOMAIN ranges : k < m => AtMost(ranges[p[k]], ranges[p[m]])
        /\ ranges' = [k \in DOMAIN ranges |-> ranges[p[k]]]
  BY DEF Sort, SortRanges
<1>2. /\ ranges \in Seq(RangeSet) /\ DOMAIN ranges = 1..Len(ranges)
      /\ Len(ranges) \in Nat
  BY DEF CtInv, CtTypeOK
<1>3. \A k \in 1..Len(ranges) : ranges[p[k]] \in RangeSet
  BY <1>1, <1>2
<1>4. ranges' \in Seq(RangeSet) /\ Len(ranges') = Len(ranges)
  BY <1>1, <1>2, <1>3
<1>5. DOMAIN ranges' = DOMAIN ranges
  BY <1>1
<1>6. CtTypeOK' /\ i = 1
  BY <1>4 DEF CtInv, CtTypeOK, Sort
<1>7. InOrder'
  BY <1>1, <1>5 DEF InOrder
<1>8. Unbroken'
  <2> SUFFICES ASSUME NEW b \in (frontier + 1)..target
               PROVE  \E k \in DOMAIN ranges : b \in BlocksOf(ranges'[k])
    BY <1>5 DEF Unbroken, Sort
  <2>1. PICK k \in DOMAIN ranges : b \in BlocksOf(ranges[k])
    BY DEF CtInv, Unbroken
  <2>2. PICK m \in DOMAIN ranges : p[m] = k
    BY <1>1
  <2>3. ranges'[m] = ranges[k]
    BY <1>1, <2>2
  <2> QED
    BY <2>1, <2>3
<1>9. SeenBeyondGap'
  BY <1>6 DEF SeenBeyondGap, Sort
<1> QED
  BY <1>6, <1>7, <1>8, <1>9 DEF CtInv, Sort

\* A turn of the loop extends the run by a range that touches it, or leaves
\* the range behind a gap.
LEMMA ExtendStep == CtInv /\ Extend => CtInv'
<1> SUFFICES ASSUME CtInv, Extend PROVE CtInv'
  OBVIOUS
<1> DEFINE r == ranges[i]
<1>1. /\ ranges \in Seq(RangeSet) /\ DOMAIN ranges = 1..Len(ranges)
      /\ Len(ranges) \in Nat /\ i \in 1..Len(ranges) /\ sorted /\ InOrder
  BY DEF CtInv, CtTypeOK, Extend
<1>2. \A k \in 1..Len(ranges) :
        /\ ranges[k].from \in 0..MaxBlock /\ ranges[k].to \in 0..MaxBlock
        /\ ranges[k].from <= ranges[k].to
  BY <1>1 DEF RangeSet
<1>3. /\ MaxBlock \in Nat /\ frontier \in -1..MaxBlock
      /\ target \in frontier..MaxBlock
  BY ContiguousAssumption DEF CtInv, CtTypeOK
<1>4. UNCHANGED <<ranges, frontier, sorted>> /\ i' = i + 1
  BY DEF Extend
<1>5. CASE r.from <= SaturatingAddOne(target) /\ r.to > target
  <2>1. target' = r.to
    BY <1>5 DEF Extend
  <2>2. r.from <= target + 1 /\ r.to \in 0..MaxBlock /\ r.from \in 0..MaxBlock
    BY <1>1, <1>2, <1>3, <1>5 DEF SaturatingAddOne
  <2>3. CtTypeOK'
    BY <1>1, <1>3, <1>4, <1>5, <2>1, <2>2 DEF CtInv, CtTypeOK
  <2>4. Unbroken'
    <3> SUFFICES ASSUME NEW b \in (frontier + 1)..r.to
                 PROVE  \E k \in DOMAIN ranges : b \in BlocksOf(ranges[k])
      BY <1>4, <2>1 DEF Unbroken
    <3>1. CASE b <= target
      BY <3>1, <1>3, <2>2 DEF CtInv, Unbroken
    <3>2. CASE b > target
      BY <3>2, <1>1, <1>3, <2>2 DEF BlocksOf
    <3> QED
      BY <3>1, <3>2, <1>3, <2>2
  <2>5. SeenBeyondGap'
    <3> SUFFICES ASSUME NEW k \in 1..i PROVE ranges[k].to <= r.to
      BY <1>1, <1>4, <2>1 DEF SeenBeyondGap
    <3>1. CASE k = i
      BY <3>1, <2>2
    <3>2. CASE k < i
      <4>1. k \in 1..(i - 1) /\ k \in DOMAIN ranges
        BY <3>2, <1>1
      <4>2. ranges[k].from <= r.from
        BY <4>1, <1>1, <1>2, <3>2 DEF InOrder, AtMost
      <4>3. ranges[k].to <= target
        BY <4>1, <4>2, <2>2, <1>1, <1>2, <1>3 DEF CtInv, SeenBeyondGap
      <4> QED
        BY <4>1, <4>3, <1>1, <1>2, <1>3, <1>5
    <3> QED
      BY <3>1, <3>2, <1>1
  <2> QED
    BY <1>1, <1>4, <2>3, <2>4, <2>5 DEF CtInv, InOrder
<1>6. CASE ~(r.from <= SaturatingAddOne(target) /\ r.to > target)
  <2>1. target' = target
    BY <1>6 DEF Extend
  <2>2. r.to <= target \/ r.from > target + 1
    BY <1>1, <1>2, <1>3, <1>6 DEF SaturatingAddOne
  <2>3. CtTypeOK'
    BY <1>1, <1>3, <1>4, <2>1 DEF CtInv, CtTypeOK
  <2>4. Unbroken'
    BY <1>4, <2>1 DEF CtInv, Unbroken
  <2>5. SeenBeyondGap'
    <3> SUFFICES ASSUME NEW k \in 1..i
                 PROVE  ranges[k].to <= target \/ ranges[k].from > target + 1
      BY <1>1, <1>4, <2>1 DEF SeenBeyondGap
    <3>1. k = i \/ k \in 1..(i - 1)
      BY <1>1
    <3> QED
      BY <3>1, <2>2 DEF CtInv, SeenBeyondGap
  <2> QED
    BY <1>1, <1>4, <2>3, <2>4, <2>5 DEF CtInv, InOrder
<1> QED
  BY <1>5, <1>6

\* At the end of the loop the target is contiguous and maximal, for any
\* number of overlapping, nested, duplicate or disjoint ranges.
THEOREM TargetContiguousCorrect == CtSpec => []TargetContiguous
<1>1. CtInv /\ [CtNext]_ctVars => CtInv'
  <2>1. CtInv /\ UNCHANGED ctVars => CtInv'
    BY DEF CtInv, CtTypeOK, InOrder, Unbroken, SeenBeyondGap, ctVars
  <2> QED
    BY <2>1, SortStep, ExtendStep DEF CtNext
<1>2. CtInv => TargetContiguous
  <2> SUFFICES ASSUME CtInv, sorted, i > Len(ranges)
               PROVE  IsContiguousTarget(frontier, {ranges[k] : k \in DOMAIN ranges}, target)
    BY DEF TargetContiguous
  <2>1. /\ ranges \in Seq(RangeSet) /\ DOMAIN ranges = 1..Len(ranges)
        /\ Len(ranges) \in Nat /\ i - 1 = Len(ranges)
        /\ MaxBlock \in Nat /\ frontier \in Int /\ target \in Int
        /\ target >= frontier
    BY ContiguousAssumption DEF CtInv, CtTypeOK
  <2>2. \A b \in (frontier + 1)..target : Covers({ranges[k] : k \in DOMAIN ranges}, b)
    BY DEF CtInv, Unbroken, Covers
  <2>3. ASSUME NEW k \in DOMAIN ranges PROVE target + 1 \notin BlocksOf(ranges[k])
    <3>1. ranges[k].to <= target \/ ranges[k].from > target + 1
      BY <2>1 DEF CtInv, SeenBeyondGap
    <3>2. ranges[k].to \in Int /\ ranges[k].from \in Int
      BY <2>1 DEF RangeSet
    <3> QED
      BY <2>1, <3>1, <3>2 DEF BlocksOf
  <2> QED
    BY <2>1, <2>2, <2>3 DEF IsContiguousTarget, Covers
<1> QED
  BY <1>1, <1>2, CtInvInit, PTL DEF CtSpec

-----------------------------------------------------------------------------
(* Decoding *)

\* The standard that the code reads off a log with a topic it asked for is the
\* log's own, unless none describes the log.
LEMMA StandardOfLogCorrect ==
  ASSUME NEW log, MeansTransfers(log), log.topics[1] \in Topic0Values("auto")
  PROVE  \/ StandardOfLog(log) = Failure /\ log.standard = "odd"
         \/ \E s \in Standards :
              /\ StandardOfLog(log) = Success({s})
              /\ log.standard \in {s, "odd"}
              /\ log.topics[1] \in Topic0Values(s)
<1> USE DEF MeansTransfers, Topic0Values, Standards
<1>1. CASE log.topics[1] \in {"TransferSingle", "TransferBatch"}
  <2>1. StandardOfLog(log) = Success({"erc1155"})
    BY <1>1 DEF StandardOfLog
  <2>2. log.standard \in {"erc1155", "odd"}
    BY <1>1 DEF IsErc20, IsErc721
  <2> QED
    BY <1>1, <2>1, <2>2
<1>2. CASE log.topics[1] = "Transfer"
  <2>1. ~IsSingle(log) /\ ~IsBatch(log)
    BY <1>2 DEF IsSingle, IsBatch, IsBatchOf
  <2>2. StandardOfLog(log) = IF log.ragged THEN Failure
                             ELSE TransferShape(Len(log.topics), Len(log.data))
    BY <1>2 DEF StandardOfLog
  <2>3. CASE IsErc20(log)
    <3>1. StandardOfLog(log) = Success({"erc20"})
      BY <2>2, <2>3 DEF IsErc20, TransferShape
    <3>2. log.standard = "erc20"
      BY <2>1, <2>3 DEF IsErc721, IsErc20
    <3> QED
      BY <1>2, <3>1, <3>2
  <2>4. CASE IsErc721(log)
    <3>1. StandardOfLog(log) = Success({"erc721"})
      BY <2>2, <2>4 DEF IsErc721, TransferShape
    <3>2. log.standard = "erc721"
      BY <2>1, <2>4 DEF IsErc721, IsErc20
    <3> QED
      BY <1>2, <3>1, <3>2
  <2>5. CASE ~IsErc20(log) /\ ~IsErc721(log)
    <3>1. log.standard = "odd"
      BY <2>1, <2>5
    <3>2. StandardOfLog(log) = Failure
      BY <1>2, <2>2, <2>5 DEF IsErc20, IsErc721, TransferShape
    <3> QED
      BY <3>1, <3>2
  <2> QED
    BY <2>3, <2>4, <2>5
<1> QED
  BY <1>1, <1>2

ReadsArray(words, offset, n, first) ==
  UintArray(words, offset) = Success([k \in 1..n |-> words[first + k - 1]])

\* An array is read where the encoding says it is, and nowhere else.
LEMMA UintArrayCorrect ==
  ASSUME NEW words \in Seq(Nat), NEW offset \in Nat
  PROVE  /\ \A n \in Nat, first \in Nat :
              ArrayAt(words, offset, n, first) => ReadsArray(words, offset, n, first)
         /\ ~UintArray(words, offset).failed =>
              \E n \in 0..Len(words), first \in 2..(Len(words) + 1) :
                ArrayAt(words, offset, n, first)
<1> DEFINE start == offset \div 32
<1>1. /\ Len(words) \in Nat /\ DOMAIN words = 1..Len(words)
      /\ \A k \in 1..Len(words) : words[k] \in Nat
  OBVIOUS
<1>2. start \in Nat /\ (offset % 32 = 0 => offset = 32 * start)
  OBVIOUS
<1>3. ASSUME NEW n \in Nat, NEW first \in Nat, ArrayAt(words, offset, n, first)
      PROVE  ReadsArray(words, offset, n, first)
  <2>1. /\ offset = 32 * (first - 2) /\ first - 1 \in 1..Len(words)
        /\ words[first - 1] = n /\ first + n - 1 <= Len(words)
    BY <1>1, <1>3 DEF ArrayAt
  <2>2. start = first - 2 /\ offset % 32 = 0
    BY <2>1
  <2> HIDE DEF start
  <2>3. start + 1 = first - 1 /\ \A k \in 1..n : start + 1 + k = first + k - 1
    BY <2>2
  <2>4. ~(start >= Len(words)) /\ ~(start + 1 + n > Len(words))
    BY <1>1, <2>1, <2>2
  <2>5. UintArray(words, offset) =
          IF offset % 32 # 0 \/ start >= Len(words)
             \/ start + 1 + words[start + 1] > Len(words)
          THEN Failure
          ELSE Success([k \in 1..words[start + 1] |-> words[start + 1 + k]])
    BY DEF UintArray, start
  <2>6. [k \in 1..n |-> words[start + 1 + k]] = [k \in 1..n |-> words[first + k - 1]]
    BY <2>3
  <2> QED
    BY <2>1, <2>2, <2>3, <2>4, <2>5, <2>6 DEF ReadsArray
<1>4. ASSUME ~UintArray(words, offset).failed
      PROVE  \E n \in 0..Len(words), first \in 2..(Len(words) + 1) :
               ArrayAt(words, offset, n, first)
  <2>1. /\ offset % 32 = 0 /\ ~(start >= Len(words))
        /\ ~(start + 1 + words[start + 1] > Len(words))
    BY <1>4 DEF UintArray, Failure
  <2> HIDE DEF start
  <2> DEFINE n == words[start + 1]
             first == start + 2
  <2>2. start + 1 \in 1..Len(words) /\ n \in Nat
    BY <1>1, <1>2, <2>1
  <2>3. n \in 0..Len(words) /\ first \in 2..(Len(words) + 1)
    BY <1>1, <1>2, <2>1, <2>2
  <2>4. ArrayAt(words, offset, n, first)
    BY <1>1, <1>2, <2>1, <2>2 DEF ArrayAt
  <2> QED
    BY <2>3, <2>4
<1> QED
  BY <1>3, <1>4

\* A log decodes to the transfers it stands for, with the standard that describes
\* it, and with no other.
DecodesRight(log, s) ==
  IF log.standard = s THEN DecodeLog(log, s) = Success(log.entries)
  ELSE DecodeLog(log, s).failed

LEMMA TransferDecodesRight ==
  ASSUME NEW log, MeansTransfers(log), log.topics[1] = "Transfer",
         NEW s \in {"erc20", "erc721"}
  PROVE  DecodesRight(log, s)
<1>1. DecodeLog(log, s) = DecodeTransfer(log, s)
  BY DEF DecodeLog, MeansTransfers
<1>2. ~IsSingle(log) /\ ~IsBatch(log)
  BY DEF IsSingle, IsBatch, IsBatchOf
<1>3. StandardOfLog(log) = IF log.ragged THEN Failure
                           ELSE TransferShape(Len(log.topics), Len(log.data))
  BY DEF StandardOfLog, MeansTransfers
<1>4. CASE IsErc20(log)
  <2>1. StandardOfLog(log) = Success({"erc20"})
    BY <1>3, <1>4 DEF IsErc20, TransferShape
  <2>2. log.standard = "erc20"
    BY <1>2, <1>4 DEF IsErc721, IsErc20, MeansTransfers
  <2>3. CASE s = "erc20"
    BY <1>1, <1>4, <2>1, <2>2, <2>3 DEF DecodeTransfer, DecodesRight, MeansTransfers
  <2>4. CASE s = "erc721"
    BY <1>1, <2>1, <2>2, <2>4 DEF DecodeTransfer, DecodesRight, Success, Failure
  <2> QED
    BY <2>3, <2>4
<1>5. CASE IsErc721(log)
  <2>1. StandardOfLog(log) = Success({"erc721"})
    BY <1>3, <1>5 DEF IsErc721, TransferShape
  <2>2. log.standard = "erc721"
    BY <1>2, <1>5 DEF IsErc721, IsErc20, MeansTransfers
  <2>3. CASE s = "erc721"
    BY <1>1, <1>5, <2>1, <2>2, <2>3 DEF DecodeTransfer, DecodesRight, MeansTransfers
  <2>4. CASE s = "erc20"
    BY <1>1, <2>1, <2>2, <2>4 DEF DecodeTransfer, DecodesRight, Success, Failure
  <2> QED
    BY <2>3, <2>4
<1>6. CASE ~IsErc20(log) /\ ~IsErc721(log)
  <2>1. StandardOfLog(log) = Failure
    BY <1>3, <1>6 DEF IsErc20, IsErc721, TransferShape, MeansTransfers
  <2>2. log.standard = "odd"
    BY <1>2, <1>6 DEF MeansTransfers
  <2> QED
    BY <1>1, <2>1, <2>2 DEF DecodeTransfer, DecodesRight, Success, Failure
<1> QED
  BY <1>4, <1>5, <1>6

LEMMA SingleDecodesRight ==
  ASSUME NEW log, MeansTransfers(log), log.topics[1] = "TransferSingle"
  PROVE  DecodesRight(log, "erc1155")
<1>1. DecodeLog(log, "erc1155") = DecodeTransferSingle(log)
  BY DEF DecodeLog, MeansTransfers
<1>2. ~IsErc20(log) /\ ~IsErc721(log) /\ ~IsBatch(log)
  BY DEF IsErc20, IsErc721, IsBatch, IsBatchOf
<1>3. Len(log.data) \in Nat
  BY DEF MeansTransfers
<1>4. CASE IsSingle(log)
  <2>1. log.standard = "erc1155"
    BY <1>2, <1>4 DEF MeansTransfers
  <2> QED
    <3>1. ~(Len(log.topics) # 4 \/ Len(log.data) < 2)
      BY <1>3, <1>4 DEF IsSingle
    <3>2. DecodeTransferSingle(log) =
            Success(<<Entry(log.topics[2], log.topics[3], log.topics[4],
                            log.data[1], log.data[2], 0)>>)
      BY <3>1 DEF DecodeTransferSingle
    <3>3. log.entries = <<Entry(log.topics[2], log.topics[3], log.topics[4],
                                log.data[1], log.data[2], 0)>>
      BY <1>4 DEF MeansTransfers
    <3> QED
      BY <1>1, <2>1, <3>2, <3>3 DEF DecodesRight
<1>5. CASE ~IsSingle(log)
  <2>1. log.standard = "odd"
    BY <1>2, <1>5 DEF MeansTransfers
  <2> QED
    BY <1>1, <1>3, <1>5, <2>1 DEF IsSingle, DecodeTransferSingle, DecodesRight, Failure
<1> QED
  BY <1>4, <1>5

LEMMA BatchDecodesRight ==
  ASSUME NEW log, MeansTransfers(log), log.topics[1] = "TransferBatch"
  PROVE  DecodesRight(log, "erc1155")
<1> DEFINE data == log.data
           ids == UintArray(data, data[1])
           amounts == UintArray(data, data[2])
<1>1. DecodeLog(log, "erc1155") = DecodeTransferBatch(log)
  BY DEF DecodeLog, MeansTransfers
<1>2. ~IsErc20(log) /\ ~IsErc721(log) /\ ~IsSingle(log)
  BY DEF IsErc20, IsErc721, IsSingle
<1>3. data \in Seq(Nat) /\ Len(data) \in Nat
  BY DEF MeansTransfers
<1>4. log.standard = IF IsBatch(log) THEN "erc1155" ELSE "odd"
  BY <1>2 DEF MeansTransfers
<1>5. CASE IsBatch(log)
  <2>1. PICK n \in 0..Len(data), f \in 2..(Len(data) + 1), g \in 2..(Len(data) + 1) :
          IsBatchOf(log, n, f, g)
    BY <1>5 DEF IsBatch
  <2>2. data[1] \in Nat /\ data[2] \in Nat
    BY <1>3, <2>1 DEF IsBatchOf
  <2>3. /\ ids = Success([k \in 1..n |-> data[f + k - 1]])
        /\ amounts = Success([k \in 1..n |-> data[g + k - 1]])
    <3>1. n \in Nat /\ f \in Nat /\ g \in Nat
      BY <1>3
    <3>2. ArrayAt(data, data[1], n, f) /\ ArrayAt(data, data[2], n, g)
      BY <2>1 DEF IsBatchOf
    <3> HIDE DEF data
    <3>3. ReadsArray(data, data[1], n, f) /\ ReadsArray(data, data[2], n, g)
      BY <1>3, <2>2, <3>1, <3>2, UintArrayCorrect
    <3> QED
      BY <3>3 DEF ReadsArray, data
  <2>4. log.entries = [k \in 1..n |->
                         Entry(log.topics[2], log.topics[3], log.topics[4],
                               data[f + k - 1], data[g + k - 1], k - 1)]
    BY <2>1 DEF MeansTransfers
  <2>5. DecodeTransferBatch(log) = Success(log.entries)
    <3>1. /\ ~ids.failed /\ ids.value = [k \in 1..n |-> data[f + k - 1]]
          /\ ~amounts.failed /\ amounts.value = [k \in 1..n |-> data[g + k - 1]]
      BY <2>3 DEF Success
    <3>2. /\ Len(ids.value) = n /\ Len(amounts.value) = n /\ DOMAIN ids.value = 1..n
          /\ \A k \in 1..n : ids.value[k] = data[f + k - 1] /\ amounts.value[k] = data[g + k - 1]
      BY <3>1
    <3>3. ~(Len(log.topics) # 4 \/ log.ragged \/ Len(data) < 2)
      BY <1>3, <2>1 DEF IsBatchOf
    <3>4. DecodeTransferBatch(log) =
            Success([k \in DOMAIN ids.value |->
                       Entry(log.topics[2], log.topics[3], log.topics[4],
                             ids.value[k], amounts.value[k], k - 1)])
      BY <3>1, <3>2, <3>3 DEF DecodeTransferBatch
    <3> HIDE DEF ids, amounts
    <3>5. [k \in DOMAIN ids.value |->
             Entry(log.topics[2], log.topics[3], log.topics[4],
                   ids.value[k], amounts.value[k], k - 1)] = log.entries
      BY <2>4, <3>2
    <3> QED
      BY <3>4, <3>5
  <2> QED
    BY <1>1, <1>4, <1>5, <2>5 DEF DecodesRight
<1>6. CASE ~IsBatch(log)
  <2>1. SUFFICES ASSUME ~DecodeTransferBatch(log).failed PROVE FALSE
    BY <1>1, <1>4, <1>6 DEF DecodesRight
  <2>2. /\ Len(log.topics) = 4 /\ ~log.ragged /\ Len(data) >= 2
        /\ ~ids.failed /\ ~amounts.failed /\ Len(ids.value) = Len(amounts.value)
    BY <1>3, <2>1 DEF DecodeTransferBatch, Failure
  <2>3. data[1] \in Nat /\ data[2] \in Nat
    BY <1>3, <2>2
  <2>4. PICK n \in 0..Len(data), f \in 2..(Len(data) + 1) : ArrayAt(data, data[1], n, f)
    BY <1>3, <2>2, <2>3, UintArrayCorrect
  <2>5. PICK m \in 0..Len(data), g \in 2..(Len(data) + 1) : ArrayAt(data, data[2], m, g)
    BY <1>3, <2>2, <2>3, UintArrayCorrect
  <2>6. n = m
    <3>1. n \in Nat /\ m \in Nat /\ f \in Nat /\ g \in Nat
      BY <1>3
    <3>2. /\ ids = Success([k \in 1..n |-> data[f + k - 1]])
          /\ amounts = Success([k \in 1..m |-> data[g + k - 1]])
      <4> HIDE DEF data
      <4>1. ReadsArray(data, data[1], n, f) /\ ReadsArray(data, data[2], m, g)
        BY <1>3, <2>3, <2>4, <2>5, <3>1, UintArrayCorrect
      <4> QED
        BY <4>1 DEF ReadsArray, data
    <3>3. Len(ids.value) = n /\ Len(amounts.value) = m
      BY <3>1, <3>2 DEF Success
    <3> QED
      BY <2>2, <3>3
  <2>7. IsBatchOf(log, n, f, g)
    BY <2>2, <2>4, <2>5, <2>6 DEF IsBatchOf
  <2> QED
    BY <1>6, <2>7 DEF IsBatch
<1> QED
  BY <1>5, <1>6

LEMMA DecodeLogCorrect ==
  ASSUME NEW log, MeansTransfers(log), NEW s \in Standards,
         log.topics[1] \in Topic0Values(s)
  PROVE  DecodesRight(log, s)
BY TransferDecodesRight, SingleDecodesRight, BatchDecodesRight DEF Standards, Topic0Values

-----------------------------------------------------------------------------
(* What the node returns *)

\* The logs with a topic of the standard.
Chosen(s) == {log \in Emitted : log.topics[1] \in Topic0Values(s)}

\* Selected, before its parts are put together.
Picks(s, block) ==
  [k \in DOMAIN block |->
     IF block[k].topics[1] \in Topic0Values(s) THEN <<block[k]>> ELSE <<>>]

\* Logs, before its parts are put together.
Pieces(s, from, to) ==
  [k \in 1..(to - from + 1) |-> Selected(s, task.chain[from + k - 1])]

LEMMA PicksTyped ==
  ASSUME NEW s, NEW block \in Seq(Emitted)
  PROVE  /\ Picks(s, block) \in Seq(Seq(Chosen(s)))
         /\ Len(Picks(s, block)) = Len(block)
         /\ Selected(s, block) = FlattenSeq(Picks(s, block))
<1> DEFINE T == Seq(Chosen(s))
           pick == Picks(s, block)
<1>1. \A log \in Chosen(s) : <<log>> \in T
  OBVIOUS
<1>2. <<>> \in T
  OBVIOUS
<1>3. Len(block) \in Nat /\ DOMAIN block = 1..Len(block) /\ \A k \in 1..Len(block) : block[k] \in Emitted
  OBVIOUS
<1> HIDE DEF T
<1>4. \A k \in 1..Len(block) : pick[k] \in T
  BY <1>1, <1>2, <1>3 DEF Picks, Chosen
<1>5. pick = [k \in 1..Len(block) |-> pick[k]]
  BY <1>3 DEF Picks
<1> HIDE DEF pick
<1>6. pick \in Seq(T) /\ Len(pick) = Len(block)
  BY <1>3, <1>4, <1>5
<1>7. Selected(s, block) = FlattenSeq(Picks(s, block))
  BY DEF Selected, Picks
<1> QED
  BY <1>6, <1>7 DEF T, pick

LEMMA SelectedTyped ==
  ASSUME NEW s, NEW block \in Seq(Emitted)
  PROVE  /\ Selected(s, block) \in Seq(Chosen(s))
         /\ \A k \in 1..Len(block) : block[k] \in Chosen(s) =>
              \E m \in 1..Len(Selected(s, block)) : Selected(s, block)[m] = block[k]
<1>1. Selected(s, block) \in Seq(Chosen(s))
  BY PicksTyped, FlattenTyped
<1>2. ASSUME NEW k \in 1..Len(block), block[k] \in Chosen(s)
      PROVE  \E m \in 1..Len(Selected(s, block)) : Selected(s, block)[m] = block[k]
  <2> DEFINE pick == Picks(s, block)
  <2>1. pick[k] = <<block[k]>>
    BY <1>2 DEF Picks, Chosen
  <2>2. /\ pick \in Seq(Seq(Chosen(s))) /\ k \in 1..Len(pick)
        /\ Selected(s, block) = FlattenSeq(pick)
    BY PicksTyped
  <2>3. 1 \in 1..Len(pick[k]) /\ pick[k][1] = block[k]
    BY <2>1
  <2> HIDE DEF pick
  <2>4. \E m \in 1..Len(FlattenSeq(pick)) : FlattenSeq(pick)[m] = pick[k][1]
    BY <2>2, <2>3, FlattenElements
  <2> QED
    BY <2>2, <2>3, <2>4
<1> QED
  BY <1>1, <1>2

\* Bounds of a call to the node.
IsRange(from, to) == from \in Nat /\ to \in Int /\ from..to \subseteq U64

LEMMA PiecesTyped ==
  ASSUME task \in TaskSet, NEW s, NEW from, NEW to, IsRange(from, to)
  PROVE  /\ Pieces(s, from, to) \in Seq(Seq(Chosen(s)))
         /\ Len(Pieces(s, from, to)) = IF from <= to THEN to - from + 1 ELSE 0
         /\ \A b \in from..to : /\ b - from + 1 \in 1..Len(Pieces(s, from, to))
                                /\ Pieces(s, from, to)[b - from + 1] = Selected(s, task.chain[b])
         /\ Logs(s, from, to) = FlattenSeq(Pieces(s, from, to))
<1> DEFINE T == Seq(Chosen(s))
           N == IF from <= to THEN to - from + 1 ELSE 0
           pieces == Pieces(s, from, to)
<1>1. from \in Nat /\ to \in Int /\ from..to \subseteq U64 /\ N \in Nat /\ 1..(to - from + 1) = 1..N
  BY DEF IsRange
<1>2. \A b \in U64 : task.chain[b] \in Seq(Emitted)
  BY DEF TaskSet
<1> HIDE DEF T
<1>3. \A b \in U64 : Selected(s, task.chain[b]) \in T
  BY <1>2, SelectedTyped DEF T
<1>4. \A k \in 1..N : from + k - 1 \in U64
  <2>1. \A k \in 1..N : from + k - 1 \in from..to
    BY <1>1
  <2> QED
    BY <1>1, <2>1
<1>5. \A k \in 1..N : pieces[k] = Selected(s, task.chain[from + k - 1]) /\ pieces[k] \in T
  BY <1>1, <1>3, <1>4 DEF Pieces
<1>6. pieces = [k \in 1..N |-> pieces[k]]
  BY <1>1 DEF Pieces
<1> HIDE DEF pieces
<1>7. pieces \in Seq(T) /\ Len(pieces) = N
  <2>1. N \in Nat /\ \A k \in 1..N : pieces[k] \in T
    BY <1>1, <1>5
  <2> HIDE DEF N
  <2> QED
    BY <1>6, <2>1
<1>8. ASSUME NEW b \in from..to
      PROVE  b - from + 1 \in 1..N /\ pieces[b - from + 1] = Selected(s, task.chain[b])
  <2>1. b - from + 1 \in 1..N /\ from + (b - from + 1) - 1 = b
    BY <1>1
  <2> QED
    BY <1>5, <2>1
<1>9. Logs(s, from, to) = FlattenSeq(pieces)
  BY DEF Logs, Pieces, pieces
<1> QED
  BY <1>7, <1>8, <1>9 DEF T, pieces

\* Logs returns logs of the standard, and all of them.
LEMMA LogsCorrect ==
  ASSUME task \in TaskSet, NEW s, NEW from, NEW to, IsRange(from, to)
  PROVE  /\ Logs(s, from, to) \in Seq(Chosen(s))
         /\ \A b \in from..to : \A k \in 1..Len(task.chain[b]) :
              task.chain[b][k] \in Chosen(s) =>
                \E m \in 1..Len(Logs(s, from, to)) : Logs(s, from, to)[m] = task.chain[b][k]
<1> DEFINE pieces == Pieces(s, from, to)
           T == Chosen(s)
<1>1. pieces \in Seq(Seq(T)) /\ Logs(s, from, to) = FlattenSeq(pieces)
  BY PiecesTyped
<1>2. \A b \in U64 : task.chain[b] \in Seq(Emitted)
  BY DEF TaskSet
<1> HIDE DEF T
<1>3. Logs(s, from, to) \in Seq(T)
  BY <1>1, FlattenTyped
<1>4. ASSUME NEW b \in from..to, NEW k \in 1..Len(task.chain[b]), task.chain[b][k] \in T
      PROVE  \E m \in 1..Len(Logs(s, from, to)) : Logs(s, from, to)[m] = task.chain[b][k]
  <2> DEFINE n == b - from + 1
  <2>1. n \in 1..Len(pieces) /\ pieces[n] = Selected(s, task.chain[b]) /\ b \in U64
    BY PiecesTyped DEF IsRange
  <2>2. PICK m \in 1..Len(Selected(s, task.chain[b])) :
          Selected(s, task.chain[b])[m] = task.chain[b][k]
    BY <1>2, <1>4, <2>1, SelectedTyped DEF T
  <2> HIDE DEF n, pieces
  <2>3. m \in 1..Len(pieces[n]) /\ pieces[n][m] = task.chain[b][k]
    BY <2>1, <2>2
  <2>4. \E x \in 1..Len(FlattenSeq(pieces)) : FlattenSeq(pieces)[x] = pieces[n][m]
    BY <1>1, <2>1, <2>3, FlattenElements
  <2> QED
    BY <1>1, <2>3, <2>4
<1> QED
  BY <1>3, <1>4 DEF T

\* A range fetched in two parts.
LEMMA LogsSplit ==
  ASSUME task \in TaskSet, NEW s, NEW from, NEW mid, NEW to, IsRange(from, to),
         mid \in Int, from <= mid + 1, mid <= to
  PROVE  /\ IsRange(from, mid) /\ IsRange(mid + 1, to)
         /\ Logs(s, from, to) = Logs(s, from, mid) \o Logs(s, mid + 1, to)
<1>1. from \in Nat /\ to \in Int /\ from..to \subseteq U64
  BY DEF IsRange
<1>2. IsRange(from, mid) /\ IsRange(mid + 1, to)
  BY <1>1 DEF IsRange
<1> DEFINE S == Seq(Chosen(s))
           whole == Pieces(s, from, to)
           left == Pieces(s, from, mid)
           right == Pieces(s, mid + 1, to)
           M == mid - from + 1
           N == to - mid
<1>3. /\ whole \in Seq(S) /\ left \in Seq(S) /\ right \in Seq(S)
      /\ Logs(s, from, to) = FlattenSeq(whole) /\ Logs(s, from, mid) = FlattenSeq(left)
      /\ Logs(s, mid + 1, to) = FlattenSeq(right)
  BY <1>2, PiecesTyped
<1>4. M \in Nat /\ N \in Nat /\ Len(left) = M /\ Len(right) = N /\ Len(whole) = M + N
  <2>1. /\ Len(whole) = IF from <= to THEN to - from + 1 ELSE 0
        /\ Len(left) = IF from <= mid THEN mid - from + 1 ELSE 0
        /\ Len(right) = IF mid + 1 <= to THEN to - (mid + 1) + 1 ELSE 0
    BY <1>2, PiecesTyped
  <2> HIDE DEF whole, left, right
  <2> QED
    BY <1>1, <2>1
<1>5. ASSUME NEW k \in 1..(M + N) PROVE whole[k] = (left \o right)[k]
  <2>1. whole[k] = Selected(s, task.chain[from + k - 1])
    BY <1>1, <1>4 DEF Pieces
  <2>2. CASE k <= M
    <3>1. left[k] = Selected(s, task.chain[from + k - 1])
      BY <1>1, <1>4, <2>2 DEF Pieces
    <3> HIDE DEF whole, left, right
    <3>2. k \in 1..Len(left) /\ (left \o right)[k] = left[k]
      BY <1>3, <1>4, <2>2
    <3> QED
      BY <2>1, <3>1, <3>2
  <2>3. CASE k > M
    <3>1. k - M \in 1..N /\ mid + 1 + (k - M) - 1 = from + k - 1
      BY <1>1, <1>4, <2>3
    <3>2. right[k - M] = Selected(s, task.chain[from + k - 1])
      BY <1>1, <1>4, <3>1 DEF Pieces
    <3> HIDE DEF whole, left, right
    <3>3. (left \o right)[k] = right[k - M]
      <4>1. k \in 1..(Len(left) + Len(right)) /\ ~(k <= Len(left)) /\ k - M = k - Len(left)
        BY <1>4, <2>3
      <4> HIDE DEF S
      <4> QED
        BY <1>3, <4>1, ConcatProperties
    <3> QED
      BY <2>1, <3>2, <3>3
  <2> QED
    BY <1>1, <1>4, <2>2, <2>3
<1> HIDE DEF S, whole, left, right, M, N
<1>6. left \o right \in Seq(S) /\ Len(left \o right) = M + N
  BY <1>3, <1>4
<1>7. whole = left \o right
  BY <1>3, <1>4, <1>5, <1>6, SeqEqual
<1>8. FlattenSeq(left \o right) = FlattenSeq(left) \o FlattenSeq(right)
  BY <1>3, FlattenConcat DEF S
<1> QED
  BY <1>2, <1>3, <1>7, <1>8

\* When two standards choose the same logs of a range, they fetch the same.
LEMMA LogsEqual ==
  ASSUME task \in TaskSet, NEW s, NEW t, NEW from, NEW to, IsRange(from, to),
         \A b \in from..to : \A k \in 1..Len(task.chain[b]) :
           task.chain[b][k] \in Chosen(s) <=> task.chain[b][k] \in Chosen(t)
  PROVE  Logs(s, from, to) = Logs(t, from, to)
<1>1. from \in Nat /\ to \in Int /\ from..to \subseteq U64
  BY DEF IsRange
<1>2. ASSUME NEW b \in from..to
      PROVE  Selected(s, task.chain[b]) = Selected(t, task.chain[b])
  <2> DEFINE block == task.chain[b]
  <2>1. DOMAIN block = 1..Len(block) /\ \A k \in 1..Len(block) : block[k] \in Emitted
    <3>1. block \in Seq(Emitted)
      BY <1>1 DEF TaskSet
    <3> HIDE DEF block
    <3> QED
      BY <3>1
  <2>2. \A k \in DOMAIN block : block[k].topics[1] \in Topic0Values(s) <=>
                                block[k].topics[1] \in Topic0Values(t)
    BY <2>1 DEF Chosen
  <2> HIDE DEF block
  <2>3. Picks(s, block) = Picks(t, block)
    BY <2>2 DEF Picks
  <2> QED
    BY <2>3 DEF block, Selected, Picks
<1>3. \A k \in 1..(to - from + 1) : from + k - 1 \in from..to
  BY <1>1
<1>4. Pieces(s, from, to) = Pieces(t, from, to)
  BY <1>2, <1>3 DEF Pieces
<1> QED
  BY <1>4 DEF Logs, Pieces

LEMMA LogsOfNothing ==
  ASSUME NEW s, NEW from, NEW to, from \in Int, to \in Int, to < from
  PROVE  Logs(s, from, to) = <<>>
<1>1. 1..(to - from + 1) = {}
  OBVIOUS
<1>2. Pieces(s, from, to) = <<>>
  BY <1>1 DEF Pieces
<1>3. Logs(s, from, to) = FlattenSeq(Pieces(s, from, to))
  BY DEF Logs, Pieces
<1>4. Len(<<>>) = 0
  OBVIOUS
<1> QED
  BY <1>2, <1>3, <1>4 DEF FlattenSeq

\* Logs returns nothing but logs of the range.
LEMMA LogsOrigin ==
  ASSUME task \in TaskSet, NEW s, NEW from, NEW to, IsRange(from, to),
         NEW m \in 1..Len(Logs(s, from, to))
  PROVE  \E b \in from..to : \E k \in 1..Len(task.chain[b]) :
           /\ task.chain[b][k] \in Chosen(s)
           /\ Logs(s, from, to)[m] = task.chain[b][k]
<1> DEFINE pieces == Pieces(s, from, to)
           all == Logs(s, from, to)
<1>1. /\ pieces \in Seq(Seq(Chosen(s))) /\ all = FlattenSeq(pieces)
      /\ Len(pieces) = IF from <= to THEN to - from + 1 ELSE 0
      /\ \A b \in from..to : pieces[b - from + 1] = Selected(s, task.chain[b])
  BY PiecesTyped
<1>2. from \in Nat /\ to \in Int /\ from..to \subseteq U64
  BY DEF IsRange
<1> HIDE DEF pieces, all
<1>3. PICK n \in 1..Len(pieces) : \E k \in 1..Len(pieces[n]) : all[m] = pieces[n][k]
  <2>1. m \in 1..Len(FlattenSeq(pieces))
    BY <1>1 DEF all
  <2> QED
    BY <1>1, <2>1, FlattenOrigin
<1> DEFINE b == from + n - 1
           block == task.chain[b]
           picks == Picks(s, block)
<1>4. b \in from..to /\ b - from + 1 = n
  BY <1>1, <1>2
<1>5. block \in Seq(Emitted)
  BY <1>2, <1>4 DEF TaskSet
<1>6. pieces[n] = FlattenSeq(picks) /\ picks \in Seq(Seq(Chosen(s))) /\ Len(picks) = Len(block)
  <2>1. pieces[n] = Selected(s, block)
    BY <1>1, <1>4
  <2> HIDE DEF block
  <2> QED
    BY <1>5, <2>1, PicksTyped
<1>7. \A k \in 1..Len(block) :
        picks[k] = IF block[k].topics[1] \in Topic0Values(s) THEN <<block[k]>> ELSE <<>>
  BY <1>5 DEF Picks
<1>8. \A k \in 1..Len(block) : block[k] \in Emitted
  BY <1>5
<1> HIDE DEF picks, block
<1>9. PICK k \in 1..Len(picks) : \E x \in 1..Len(picks[k]) : all[m] = picks[k][x]
  BY <1>3, <1>6, FlattenOrigin
<1>10. PICK x \in 1..Len(picks[k]) : all[m] = picks[k][x]
  BY <1>9
<1>11. block[k].topics[1] \in Topic0Values(s) /\ all[m] = block[k] /\ k \in 1..Len(block)
  <2>1. picks[k] = IF block[k].topics[1] \in Topic0Values(s) THEN <<block[k]>> ELSE <<>>
    BY <1>6, <1>7
  <2>2. picks[k] # <<>>
    BY <1>10
  <2>3. picks[k] = <<block[k]>> /\ block[k].topics[1] \in Topic0Values(s)
    BY <2>1, <2>2
  <2>4. x = 1
    BY <1>10, <2>3
  <2> QED
    BY <1>6, <1>10, <2>3, <2>4
<1> QED
  BY <1>4, <1>8, <1>11 DEF all, block, Chosen

\* What the detection makes of a chunk.
LEMMA DetectionCorrect ==
  ASSUME task \in TaskSet, NEW a, NEW b, IsRange(a, b), NEW chunk,
         chunk = Logs("auto", a, b)
  PROVE  /\ StandardsOf(chunk).failed =>
              \E k, m \in 1..Len(chunk) : \/ chunk[k].standard = "odd"
                                          \/ chunk[k].standard # chunk[m].standard
         /\ ~StandardsOf(chunk).failed /\ StandardsOf(chunk).value = {} => chunk = <<>>
         /\ ~StandardsOf(chunk).failed => \A s \in StandardsOf(chunk).value :
              /\ s \in Standards
              /\ \E k \in 1..Len(chunk) : StandardOfLog(chunk[k]) = Success({s})
              /\ chunk = Logs(s, a, b)
<1> DEFINE found == {StandardOfLog(chunk[k]) : k \in DOMAIN chunk} \ {Success({})}
           N == Len(chunk)
<1>1. /\ chunk \in Seq(Chosen("auto")) /\ DOMAIN chunk = 1..N
      /\ \A k \in 1..N : chunk[k] \in Chosen("auto")
  BY LogsCorrect
<1>2. \A s, t : Success(s) # Failure /\ (Success(s) = Success(t) => s = t) /\ Success(s).value = s
  BY DEF Success, Failure
<1>3. ASSUME NEW k \in 1..N
      PROVE  /\ StandardOfLog(chunk[k]) \in found
             /\ \/ StandardOfLog(chunk[k]) = Failure /\ chunk[k].standard = "odd"
                \/ \E s \in Standards :
                     /\ StandardOfLog(chunk[k]) = Success({s})
                     /\ chunk[k].standard \in {s, "odd"}
                     /\ chunk[k].topics[1] \in Topic0Values(s)
  <2>1. MeansTransfers(chunk[k]) /\ chunk[k].topics[1] \in Topic0Values("auto")
    BY <1>1, IngestAssumption DEF Chosen
  <2>2. \/ StandardOfLog(chunk[k]) = Failure /\ chunk[k].standard = "odd"
        \/ \E s \in Standards :
             /\ StandardOfLog(chunk[k]) = Success({s})
             /\ chunk[k].standard \in {s, "odd"}
             /\ chunk[k].topics[1] \in Topic0Values(s)
    BY <2>1, StandardOfLogCorrect
  <2>3. StandardOfLog(chunk[k]) # Success({})
    BY <1>2, <2>2
  <2> QED
    BY <1>1, <2>2, <2>3
<1>4. \A x \in found : \E k \in 1..N : x = StandardOfLog(chunk[k])
  BY <1>1
<1>5. StandardsOf(chunk) = IF Failure \in found \/ \E x, y \in found : x # y
                           THEN Failure ELSE Success(UNION {x.value : x \in found})
  BY DEF StandardsOf
<1> HIDE DEF found
<1>6. ASSUME StandardsOf(chunk).failed
      PROVE  \E k, m \in 1..Len(chunk) : \/ chunk[k].standard = "odd"
                                         \/ chunk[k].standard # chunk[m].standard
  <2>1. Failure \in found \/ \E x, y \in found : x # y
    BY <1>5, <1>6 DEF Success
  <2>2. CASE Failure \in found
    <3>1. PICK k \in 1..N : StandardOfLog(chunk[k]) = Failure
      BY <1>4, <2>2
    <3>2. chunk[k].standard = "odd"
      BY <1>2, <1>3, <3>1
    <3> QED
      BY <3>2
  <2>3. CASE \E x, y \in found : x # y
    <3>1. PICK k \in 1..N, m \in 1..N : StandardOfLog(chunk[k]) # StandardOfLog(chunk[m])
      BY <1>4, <2>3
    <3>2. CASE chunk[k].standard = "odd" \/ chunk[m].standard = "odd"
      BY <3>2
    <3>3. CASE chunk[k].standard # "odd" /\ chunk[m].standard # "odd"
      <4>1. /\ StandardOfLog(chunk[k]) = Success({chunk[k].standard})
            /\ StandardOfLog(chunk[m]) = Success({chunk[m].standard})
        BY <1>3, <3>3
      <4>2. chunk[k].standard # chunk[m].standard
        BY <3>1, <4>1
      <4> QED
        BY <4>2
    <3> QED
      BY <3>2, <3>3
  <2> QED
    BY <2>1, <2>2, <2>3
<1>7. ASSUME ~StandardsOf(chunk).failed
      PROVE  /\ Failure \notin found /\ \A x, y \in found : x = y
             /\ StandardsOf(chunk).value = UNION {x.value : x \in found}
  BY <1>2, <1>5, <1>7 DEF Failure
<1>8. ASSUME ~StandardsOf(chunk).failed, StandardsOf(chunk).value = {}
      PROVE  chunk = <<>>
  <2>1. ASSUME NEW k \in 1..N PROVE FALSE
    <3>1. PICK s \in Standards : StandardOfLog(chunk[k]) = Success({s})
      BY <1>3, <1>7, <1>8
    <3>2. s \in UNION {x.value : x \in found}
      <4>1. Success({s}) \in found /\ s \in Success({s}).value
        BY <1>2, <1>3, <3>1
      <4> QED
        BY <4>1
    <3> QED
      BY <1>7, <1>8, <3>2
  <2> QED
    BY <1>1, <2>1
<1>9. ASSUME ~StandardsOf(chunk).failed, NEW s \in StandardsOf(chunk).value
      PROVE  /\ s \in Standards
             /\ \E k \in 1..Len(chunk) : StandardOfLog(chunk[k]) = Success({s})
             /\ chunk = Logs(s, a, b)
  <2>1. PICK x \in found : s \in x.value
    BY <1>7, <1>9
  <2>2. PICK k \in 1..N : x = StandardOfLog(chunk[k])
    BY <1>4
  <2>3. s \in Standards /\ x = Success({s})
    <3>1. PICK t \in Standards : x = Success({t})
      BY <1>3, <1>7, <1>9, <2>2
    <3>2. s = t
      <4>1. Success({t}).value = {t}
        BY <1>2
      <4> QED
        BY <2>1, <3>1, <4>1
    <3> QED
      BY <3>1, <3>2
  <2>4. \A m \in 1..N : chunk[m].topics[1] \in Topic0Values(s)
    <3> SUFFICES ASSUME NEW m \in 1..N PROVE chunk[m].topics[1] \in Topic0Values(s)
      OBVIOUS
    <3>1. StandardOfLog(chunk[m]) = Success({s})
      BY <1>3, <1>7, <1>9, <2>3
    <3>2. PICK t \in Standards :
            StandardOfLog(chunk[m]) = Success({t}) /\ chunk[m].topics[1] \in Topic0Values(t)
      BY <1>2, <1>3, <3>1
    <3>3. {s} = {t}
      BY <1>2, <3>1, <3>2
    <3>4. s = t
      BY <3>3
    <3> QED
      BY <3>2, <3>4
  <2>5. Topic0Values(s) \subseteq Topic0Values("auto")
    BY <2>3 DEF Topic0Values, Standards
  <2>6. \A c \in a..b : \A m \in 1..Len(task.chain[c]) :
          task.chain[c][m] \in Chosen("auto") <=> task.chain[c][m] \in Chosen(s)
    <3> SUFFICES ASSUME NEW c \in a..b, NEW m \in 1..Len(task.chain[c])
                 PROVE  task.chain[c][m] \in Chosen("auto") <=> task.chain[c][m] \in Chosen(s)
      OBVIOUS
    <3>1. ASSUME task.chain[c][m] \in Chosen("auto")
          PROVE  task.chain[c][m] \in Chosen(s)
      <4>1. PICK n \in 1..N : chunk[n] = task.chain[c][m]
        BY <3>1, LogsCorrect
      <4> QED
        BY <2>4, <3>1, <4>1 DEF Chosen
    <3>2. ASSUME task.chain[c][m] \in Chosen(s)
          PROVE  task.chain[c][m] \in Chosen("auto")
      BY <2>5, <3>2 DEF Chosen
    <3> QED
      BY <3>1, <3>2
  <2>7. chunk = Logs(s, a, b)
    BY <2>6, LogsEqual
  <2> QED
    BY <2>2, <2>3, <2>7
<1> QED
  BY <1>6, <1>8, <1>9

-----------------------------------------------------------------------------
(* The loops of ingest_source_range *)

Steps == {"start", "detecting", "fetching", "stamping", "decoding"} \cup Ended

\* The standard is the source's, or the one of a log of the range.
StandardKnown ==
  /\ standard \in Standards
  /\ \/ task.standard = standard
     \/ /\ task.standard = "auto"
        /\ \E log \in InScope : StandardOfLog(log) = Success({standard})

AtStart ==
  step = "start" =>
    standard = task.standard /\ chunkFrom = task.from /\ prefetched = {} /\ logs = <<>>

InTheRange ==
  step \in {"detecting", "fetching"} => task.chunkSize # 0 /\ chunkFrom \in task.from..task.to

\* The detection goes from chunk to chunk.
Aligned == step = "detecting" => chunkFrom + task.chunkSize - 1 \in ChunkEnds

\* The detection goes on only after chunks without a log.
NothingDetected ==
  step = "detecting" =>
    /\ task.standard = "auto" /\ prefetched = {} /\ logs = <<>>
    /\ Logs("auto", task.from, chunkFrom - 1) = <<>>

\* The chunk asked for with the topics of every standard is what asking for the
\* detected one returns.
KeptAsFetched ==
  step = "fetching" => \A c \in prefetched : c.logs = Logs(standard, c.from, c.to)

Decidable ==
  step \in {"fetching", "stamping", "decoding", "decoded"} =>
    task.from <= task.to /\ StandardKnown /\ OthersComeLater

LiInv ==
  /\ task \in TaskSet
  /\ step \in Steps
  /\ AtStart
  /\ InTheRange
  /\ Aligned
  /\ NothingDetected
  /\ KeptAsFetched
  /\ Decidable
  /\ FetchedSoFar
  /\ DecodedAsEmitted
  /\ RefusedForCause

\* The chain and the range do not change.
LEMMA SameTask ==
  ASSUME task' = task
  PROVE  /\ \A s, from, to : Logs(s, from, to)' = Logs(s, from, to)
         /\ InScope' = InScope /\ ChunkEnds' = ChunkEnds
         /\ standard' = standard => (OthersComeLater' <=> OthersComeLater)
<1>1. \A s, from, to : Logs(s, from, to)' = Logs(s, from, to)
  BY DEF Logs
<1>2. ChunkEnds' = ChunkEnds
  BY DEF ChunkEnds
<1> QED
  BY <1>1, <1>2 DEF InScope, OthersComeLater

LEMMA TaskTyped ==
  ASSUME task \in TaskSet
  PROVE  /\ task.from \in Nat /\ task.to \in Nat /\ task.chunkSize \in Nat
         /\ task.to <= MaxU64 /\ MaxU64 \in Nat
         /\ task.standard \in Standards \cup {"auto"}
         /\ IsRange(task.from, task.to)
BY IngestAssumption DEF TaskSet, U64, IsRange

\* A chunk is a part of the range and not empty.
LEMMA ChunkCorrect ==
  ASSUME LiInv, step \in {"detecting", "fetching"}
  PROVE  /\ chunkFrom \in Nat /\ ChunkTo \in Nat
         /\ task.from <= chunkFrom /\ chunkFrom <= ChunkTo /\ ChunkTo <= task.to
         /\ IsRange(chunkFrom, ChunkTo)
         /\ chunkFrom..ChunkTo \subseteq task.from..task.to
<1>1. chunkFrom \in task.from..task.to /\ task.chunkSize # 0 /\ task \in TaskSet
  BY DEF LiInv, InTheRange
<1>2. /\ chunkFrom \in Nat /\ ChunkTo \in Nat
      /\ task.from <= chunkFrom /\ chunkFrom <= ChunkTo /\ ChunkTo <= task.to
  BY <1>1, TaskTyped DEF ChunkTo
<1>3. chunkFrom..ChunkTo \subseteq task.from..task.to
  BY <1>1, <1>2, TaskTyped
<1>4. IsRange(chunkFrom, ChunkTo)
  BY <1>1, <1>2, <1>3, TaskTyped DEF IsRange
<1> QED
  BY <1>2, <1>3, <1>4

LEMMA LiInvInit == LiInit => LiInv
BY IngestAssumption
   DEF LiInit, LiInv, Steps, AtStart, InTheRange, Aligned, NothingDetected, KeptAsFetched, Decidable,
       FetchedSoFar, DecodedAsEmitted, RefusedForCause

\* A call that fails promises nothing.
LEMMA RpcFailsStep == LiInv /\ RpcFails => LiInv'
<1> SUFFICES ASSUME LiInv, RpcFails PROVE LiInv'
  OBVIOUS
<1>1. task' = task /\ step' = "rpc_failed"
  BY DEF RpcFails
<1> QED
  BY <1>1 DEF LiInv, Steps, Ended, AtStart, InTheRange, Aligned, NothingDetected, KeptAsFetched,
              Decidable, FetchedSoFar, DecodedAsEmitted, RefusedForCause

\* A refusal needs its cause, and nothing else.
LEMMA RefuseStep ==
  ASSUME LiInv, task' = task, step' = "refused", RefusedForCause'
  PROVE  LiInv'
BY DEF LiInv, Steps, Ended, AtStart, InTheRange, Aligned, NothingDetected, KeptAsFetched,
       Decidable, FetchedSoFar, DecodedAsEmitted

LEMMA BeginStep == LiInv /\ Begin => LiInv'
<1> SUFFICES ASSUME LiInv, Begin PROVE LiInv'
  OBVIOUS
<1>1. /\ task \in TaskSet /\ task' = task
      /\ standard = task.standard /\ chunkFrom = task.from /\ prefetched = {} /\ logs = <<>>
  BY DEF LiInv, AtStart, Begin, Refuse
<1>2. CASE task.from > task.to \/ task.chunkSize = 0
  <2>1. step' = "refused"
    BY <1>2 DEF Begin, Refuse
  <2>2. RefusedForCause'
    BY <1>1, <1>2 DEF RefusedForCause
  <2> QED
    BY <1>1, <2>1, <2>2, RefuseStep
<1>3. CASE ~(task.from > task.to \/ task.chunkSize = 0)
  <2>1. /\ step' = IF task.standard = "auto" THEN "detecting" ELSE "fetching"
        /\ UNCHANGED <<task, standard, chunkFrom, prefetched, logs, decoded>>
    BY <1>3 DEF Begin
  <2>2. task.from <= task.to /\ task.from \in task.from..task.to
    BY <1>1, <1>3, TaskTyped
  <2>3. \A s : Logs(s, task.from, task.from - 1) = <<>>
    BY <1>1, TaskTyped, LogsOfNothing
  <2>4. \A s : Logs(s, task.from, task.from - 1)' = <<>>
    BY <1>1, <2>3, SameTask
  <2>5. task.standard # "auto" => StandardKnown' /\ OthersComeLater'
    BY <1>1, <2>1, TaskTyped DEF StandardKnown, OthersComeLater
  <2>6. /\ (task \in TaskSet)' /\ (step \in Steps)' /\ AtStart' /\ DecodedAsEmitted'
        /\ RefusedForCause'
    BY <1>1, <2>1 DEF Steps, AtStart, DecodedAsEmitted, RefusedForCause
  <2>7. InTheRange' /\ Decidable'
    BY <1>1, <1>3, <2>1, <2>2, <2>5 DEF InTheRange, Decidable
  <2>8. NothingDetected' /\ KeptAsFetched'
    BY <1>1, <2>1, <2>4 DEF NothingDetected, KeptAsFetched
  <2>8a. Aligned'
    <3>1. 1 \in 1..(MaxU64 + 1) /\ task.from + task.chunkSize - 1 = task.from + 1 * task.chunkSize - 1
      BY <1>1, TaskTyped
    <3>2. task.from + task.chunkSize - 1 \in ChunkEnds
      BY <3>1 DEF ChunkEnds
    <3> QED
      BY <1>1, <2>1, <3>2, SameTask DEF Aligned
  <2>9. FetchedSoFar'
    BY <1>1, <2>1, <2>4 DEF FetchedSoFar
  <2> QED
    BY <2>6, <2>7, <2>8, <2>9, <2>8a DEF LiInv
<1> QED
  BY <1>2, <1>3

LEMMA AttachStep == LiInv /\ AttachBlockTimestamps => LiInv'
<1> SUFFICES ASSUME LiInv, AttachBlockTimestamps PROVE LiInv'
  OBVIOUS
<1>1. /\ step = "stamping" /\ step' = "decoding"
      /\ UNCHANGED <<task, standard, chunkFrom, prefetched, logs, decoded>>
  BY DEF AttachBlockTimestamps
<1>2. /\ StandardKnown => StandardKnown'
      /\ OthersComeLater => OthersComeLater'
  BY <1>1, SameTask DEF StandardKnown
<1>3. FetchedSoFar'
  BY <1>1, SameTask DEF LiInv, FetchedSoFar
<1> QED
  BY <1>1, <1>2, <1>3 DEF LiInv, Steps, AtStart, InTheRange, Aligned, NothingDetected, KeptAsFetched,
                          Decidable, DecodedAsEmitted, RefusedForCause

\* The chunk that is added, asked for or kept, is that of the standard.
LEMMA FetchStep == LiInv /\ FetchChunk => LiInv'
<1> SUFFICES ASSUME LiInv, FetchChunk PROVE LiInv'
  OBVIOUS
<1> DEFINE to == ChunkTo
           kept == {c \in prefetched : c.from = chunkFrom /\ c.to = to}
           again == {b \in FetchAgain(to) : b <= task.to}
           before == Logs(standard, task.from, chunkFrom - 1)
           chunk == Logs(standard, chunkFrom, to)
<1>1. /\ step = "fetching"
      /\ \E c \in IF kept = {} THEN {chunk} ELSE {d.logs : d \in kept} : logs' = logs \o c
      /\ prefetched' = prefetched \ kept
      /\ IF again = {} THEN step' = "stamping" /\ chunkFrom' = chunkFrom
                       ELSE chunkFrom' \in again /\ step' = step
      /\ task' = task /\ standard' = standard /\ decoded' = decoded
  BY DEF FetchChunk
<1>2. /\ task \in TaskSet /\ task.from <= task.to /\ StandardKnown /\ task.chunkSize # 0
      /\ logs = before
      /\ \A c \in prefetched : c.logs = Logs(standard, c.from, c.to)
  BY <1>1 DEF LiInv, Decidable, InTheRange, FetchedSoFar, KeptAsFetched
<1>3. /\ chunkFrom \in Nat /\ to \in Nat
      /\ task.from <= chunkFrom /\ chunkFrom <= to /\ to <= task.to
  BY <1>1, ChunkCorrect
<1>4. task.from \in Nat /\ task.to \in Nat /\ task.to <= MaxU64 /\ MaxU64 \in Nat
      /\ IsRange(task.from, task.to)
  BY <1>2, TaskTyped
<1>5. IsRange(task.from, to)
  BY <1>3, <1>4 DEF IsRange
<1>6. \A c \in kept : c.logs = chunk
  BY <1>2
<1>7. logs' = before \o chunk
  BY <1>1, <1>2, <1>6
<1>8. Logs(standard, task.from, to) = before \o chunk
  <2> DEFINE mid == chunkFrom - 1
  <2>1. mid \in Int /\ task.from <= mid + 1 /\ mid <= to /\ mid + 1 = chunkFrom
    BY <1>3, <1>4
  <2>2. Logs(standard, task.from, to)
          = Logs(standard, task.from, mid) \o Logs(standard, mid + 1, to)
    <3> HIDE DEF mid, to
    <3> QED
      BY <1>2, <1>5, <2>1, LogsSplit
  <2> QED
    BY <2>1, <2>2
<1>9. again = {} => to = task.to
  BY <1>3, <1>4 DEF FetchAgain
<1>10. again # {} => chunkFrom' = to + 1 /\ to + 1 <= task.to
  BY <1>1 DEF FetchAgain
<1> HIDE DEF to, again, chunk, before
<1>11. FetchedSoFar'
  <2>1. \A s, a, b : Logs(s, a, b)' = Logs(s, a, b)
    BY <1>1, SameTask
  <2>2. logs' = Logs(standard, task.from, to)
    BY <1>7, <1>8
  <2>3. CASE again = {}
    <3>1. step' = "stamping" /\ to = task.to
      BY <1>1, <1>9, <2>3
    <3> QED
      BY <1>1, <2>1, <2>2, <3>1 DEF FetchedSoFar
  <2>4. CASE again # {}
    <3>1. step' = "fetching" /\ chunkFrom' - 1 = to
      BY <1>1, <1>3, <1>10, <2>4
    <3> QED
      BY <1>1, <2>1, <2>2, <3>1 DEF FetchedSoFar
  <2> QED
    BY <2>3, <2>4
<1>12. StandardKnown'
  BY <1>1, <1>2, SameTask DEF StandardKnown
<1>13. KeptAsFetched'
  BY <1>1, <1>2, SameTask DEF KeptAsFetched
<1>14. step' \in {"fetching", "stamping"}
  BY <1>1
<1>15. InTheRange'
  BY <1>1, <1>2, <1>3, <1>4, <1>10, <1>14 DEF InTheRange
<1>16. OthersComeLater'
  BY <1>1, SameTask DEF LiInv, Decidable
<1> QED
  BY <1>1, <1>2, <1>11, <1>12, <1>13, <1>14, <1>15, <1>16
     DEF LiInv, Steps, AtStart, Aligned, NothingDetected, Decidable, DecodedAsEmitted,
         RefusedForCause

\* The logs that count for a refusal are those the node can return.
LEMMA InScopeCorrect ==
  ASSUME task \in TaskSet
  PROVE  /\ InScope \subseteq Chosen(task.standard)
         /\ \A s, a, b : /\ Chosen(s) \subseteq Chosen(task.standard)
                         /\ IsRange(a, b) /\ a..b \subseteq task.from..task.to
                         => \A k \in 1..Len(Logs(s, a, b)) : Logs(s, a, b)[k] \in InScope
<1> DEFINE scope == Logs(task.standard, task.from, task.to)
<1>1. scope \in Seq(Chosen(task.standard)) /\ IsRange(task.from, task.to)
  BY TaskTyped, LogsCorrect
<1>2. /\ DOMAIN scope = 1..Len(scope) /\ InScope = {scope[k] : k \in DOMAIN scope}
      /\ \A k \in 1..Len(scope) : scope[k] \in Chosen(task.standard)
  BY <1>1 DEF InScope
<1>3. ASSUME NEW s, NEW a, NEW b, Chosen(s) \subseteq Chosen(task.standard),
             IsRange(a, b), a..b \subseteq task.from..task.to,
             NEW k \in 1..Len(Logs(s, a, b))
      PROVE  Logs(s, a, b)[k] \in InScope
  <2>1. PICK c \in a..b : \E n \in 1..Len(task.chain[c]) :
          task.chain[c][n] \in Chosen(s) /\ Logs(s, a, b)[k] = task.chain[c][n]
    BY <1>3, LogsOrigin
  <2>2. PICK n \in 1..Len(task.chain[c]) :
          task.chain[c][n] \in Chosen(s) /\ Logs(s, a, b)[k] = task.chain[c][n]
    BY <2>1
  <2>3. c \in task.from..task.to /\ task.chain[c][n] \in Chosen(task.standard)
    BY <1>3, <2>2
  <2>4. PICK m \in 1..Len(scope) : scope[m] = task.chain[c][n]
    BY <1>1, <2>3, LogsCorrect
  <2> QED
    BY <1>2, <2>2, <2>4
<1> QED
  BY <1>2, <1>3

\* The detection refuses for a cause, goes on after chunks without a log, and
\* chooses the standard of a log of the range.
LEMMA DetectStep == LiInv /\ DetectChunk => LiInv'
<1> SUFFICES ASSUME LiInv, DetectChunk PROVE LiInv'
  OBVIOUS
<1> DEFINE to == ChunkTo
           chunk == Logs("auto", chunkFrom, to)
           found == StandardsOf(chunk)
           again == {b \in DetectAgain(to) : b <= task.to}
<1>1. /\ step = "detecting" /\ task' = task
      /\ \/ (found.failed \/ (found.value = {} /\ again = {})) /\ step' = "refused"
         \/ /\ ~found.failed /\ found.value = {} /\ again # {}
            /\ chunkFrom' \in again
            /\ UNCHANGED <<step, standard, prefetched, logs, decoded>>
         \/ /\ ~found.failed /\ found.value # {}
            /\ standard' \in found.value
            /\ prefetched' = {[from |-> chunkFrom, to |-> to, logs |-> chunk]}
            /\ step' = "fetching" /\ chunkFrom' = task.from
            /\ UNCHANGED <<logs, decoded>>
  BY DEF DetectChunk, Refuse
<1>2. /\ task \in TaskSet /\ task.chunkSize # 0
      /\ task.standard = "auto" /\ prefetched = {} /\ logs = <<>>
      /\ Logs("auto", task.from, chunkFrom - 1) = <<>>
  BY <1>1 DEF LiInv, InTheRange, Aligned, NothingDetected
<1>3. /\ chunkFrom \in Nat /\ to \in Nat
      /\ task.from <= chunkFrom /\ chunkFrom <= to /\ to <= task.to
      /\ IsRange(chunkFrom, to) /\ chunkFrom..to \subseteq task.from..task.to
  BY <1>1, ChunkCorrect
<1>4. task.from \in Nat /\ task.to \in Nat /\ task.to <= MaxU64 /\ MaxU64 \in Nat
      /\ IsRange(task.from, task.to)
  BY <1>2, TaskTyped
<1>5. \A k \in 1..Len(chunk) : chunk[k] \in InScope
  BY <1>2, <1>3, InScopeCorrect
<1>6. /\ found.failed =>
           \E k, m \in 1..Len(chunk) : \/ chunk[k].standard = "odd"
                                       \/ chunk[k].standard # chunk[m].standard
      /\ ~found.failed /\ found.value = {} => chunk = <<>>
      /\ ~found.failed => \A s \in found.value :
           /\ s \in Standards
           /\ \E k \in 1..Len(chunk) : StandardOfLog(chunk[k]) = Success({s})
           /\ chunk = Logs(s, chunkFrom, to)
  <2> HIDE DEF to
  <2> QED
    BY <1>2, <1>3, DetectionCorrect
<1>7. chunk = <<>> => Logs("auto", task.from, to) = <<>>
  <2> DEFINE mid == chunkFrom - 1
  <2>1. mid \in Int /\ task.from <= mid + 1 /\ mid <= to /\ mid + 1 = chunkFrom
        /\ IsRange(task.from, to)
    BY <1>3, <1>4 DEF IsRange
  <2>2. Logs("auto", task.from, to)
          = Logs("auto", task.from, mid) \o Logs("auto", mid + 1, to)
    <3> HIDE DEF mid, to
    <3> QED
      BY <1>2, <2>1, LogsSplit
  <2>3. <<>> \o <<>> = <<>>
    OBVIOUS
  <2> QED
    BY <1>2, <2>1, <2>2, <2>3
<1>8. again = {} => to = task.to
  BY <1>3, <1>4 DEF DetectAgain
<1>9. again # {} /\ chunkFrom' \in again => chunkFrom' = to + 1 /\ to + 1 <= task.to
  BY DEF DetectAgain
<1>9a. to < task.to => to = chunkFrom + task.chunkSize - 1 /\ to \in ChunkEnds
  <2>1. chunkFrom + task.chunkSize - 1 \in ChunkEnds
    BY <1>1 DEF LiInv, Aligned
  <2> QED
    BY <1>2, <1>3, <1>4, <2>1, TaskTyped DEF ChunkTo
<1>10. \A s, a, b : Logs(s, a, b)' = Logs(s, a, b)
  BY <1>1, SameTask
<1>11. InScope' = InScope
  BY <1>1, SameTask
\* Up to the end of the chunk every log has the topics of its standard.
<1>11a. ASSUME NEW s, chunk = Logs(s, chunkFrom, to), chunk # <<>>,
              NEW b \in task.from..task.to, NEW k \in DOMAIN task.chain[b],
              task.chain[b][k].topics[1] \in Topic0Values("auto"),
              task.chain[b][k].topics[1] \notin Topic0Values(s)
       PROVE  to \in ChunkEnds /\ to < b /\ Logs("auto", task.from, to) # <<>>
  <2> DEFINE log == task.chain[b][k]
             mid == chunkFrom - 1
             seen == Logs("auto", task.from, mid)
  <2>1. b \in U64 /\ b \in Nat /\ task.chain[b] \in Seq(Emitted)
    BY <1>2, <1>4 DEF U64, TaskSet
  <2>2. k \in 1..Len(task.chain[b]) /\ log \in Chosen("auto") /\ log \notin Chosen(s)
    BY <1>11a, <2>1 DEF Chosen
  <2>3. mid \in Int /\ mid <= to /\ task.from <= mid + 1 /\ mid + 1 = chunkFrom
        /\ IsRange(task.from, to) /\ IsRange(task.from, mid)
    BY <1>3, <1>4 DEF IsRange
  <2>4. seen = <<>>
    BY <1>2
  <2> HIDE DEF log, mid
  <2>5. ~(b \in task.from..mid)
    <3> SUFFICES ASSUME b \in task.from..mid PROVE FALSE
      OBVIOUS
    <3>1. PICK m \in 1..Len(seen) : seen[m] = log
      BY <1>2, <2>2, <2>3, LogsCorrect DEF log
    <3> QED
      BY <2>4, <3>1
  <2>6. ~(b \in chunkFrom..to)
    <3> SUFFICES ASSUME b \in chunkFrom..to PROVE FALSE
      OBVIOUS
    <3> HIDE DEF to
    <3>1. PICK m \in 1..Len(chunk) : chunk[m] = log
      BY <1>2, <1>3, <2>2, LogsCorrect DEF log
    <3>2. chunk \in Seq(Chosen(s))
      BY <1>2, <1>3, <1>11a, LogsCorrect
    <3> HIDE DEF chunk
    <3>3. chunk[m] \in Chosen(s)
      BY <3>1, <3>2
    <3> QED
      BY <2>2, <3>1, <3>3
  <2>7. to < b /\ to < task.to
    BY <1>3, <1>4, <2>1, <2>3, <2>5, <2>6
  <2>8. Logs("auto", task.from, to) = seen \o Logs("auto", mid + 1, to)
    <3> HIDE DEF to
    <3> QED
      BY <1>2, <2>3, LogsSplit
  <2>9. seen \o Logs("auto", mid + 1, to) = chunk
    <3>1. chunk \in Seq(Chosen("auto"))
      <4> HIDE DEF to
      <4> QED
        BY <1>2, <1>3, LogsCorrect
    <3>2. Logs("auto", mid + 1, to) = chunk
      BY <2>3
    <3> HIDE DEF chunk, seen
    <3> QED
      BY <2>4, <3>1, <3>2
  <2> QED
    BY <1>9a, <1>11a, <2>7, <2>8, <2>9
<1> HIDE DEF to, again, chunk, found
<1>12. CASE (found.failed \/ (found.value = {} /\ again = {})) /\ step' = "refused"
  <2>1. CASE found.failed
    <3>1. PICK k \in 1..Len(chunk), m \in 1..Len(chunk) :
            chunk[k].standard = "odd" \/ chunk[k].standard # chunk[m].standard
      BY <1>6, <2>1
    <3>2. chunk[k] \in InScope' /\ chunk[m] \in InScope'
      BY <1>5, <1>11
    <3>3. RefusedForCause'
      BY <3>1, <3>2 DEF RefusedForCause
    <3> QED
      BY <1>1, <1>12, <3>3, RefuseStep
  <2>2. CASE ~found.failed /\ found.value = {} /\ again = {}
    <3>1. Logs("auto", task.from, task.to) = <<>>
      BY <1>6, <1>7, <1>8, <2>2
    <3>2. InScope = {}
      <4>1. DOMAIN (<<>>) = {}
        OBVIOUS
      <4> QED
        BY <1>2, <3>1, <4>1 DEF InScope
    <3>3. RefusedForCause'
      BY <1>1, <1>2, <1>11, <3>2 DEF RefusedForCause
    <3> QED
      BY <1>1, <1>12, <3>3, RefuseStep
  <2> QED
    BY <1>12, <2>1, <2>2
<1>13. CASE /\ ~found.failed /\ found.value = {} /\ again # {} /\ chunkFrom' \in again
            /\ UNCHANGED <<step, standard, prefetched, logs, decoded>>
  <2>1. chunkFrom' = to + 1 /\ to + 1 <= task.to
    BY <1>9, <1>13
  <2>2. Logs("auto", task.from, to) = <<>>
    BY <1>6, <1>7, <1>13
  <2>3. chunkFrom' - 1 = to /\ chunkFrom' \in task.from..task.to
    BY <1>3, <1>4, <2>1
  <2>4. NothingDetected'
    BY <1>1, <1>2, <1>10, <1>13, <2>2, <2>3 DEF NothingDetected
  <2>5. InTheRange'
    BY <1>1, <1>2, <2>3 DEF InTheRange
  <2>6. Aligned'
    <3>1. to = chunkFrom + task.chunkSize - 1 /\ to \in ChunkEnds
      BY <1>3, <1>4, <1>9a, <2>1
    <3>2. PICK n \in 1..(MaxU64 + 1) : to = task.from + n * task.chunkSize - 1
      BY <3>1 DEF ChunkEnds
    <3>3. n + 1 \in 1..(MaxU64 + 1)
      <4> DEFINE c == task.chunkSize
                 d == n * c
      <4>1. c \in Nat /\ c >= 1 /\ n \in Nat
        BY <1>2, <1>4, TaskTyped
      <4>2. n <= d /\ d \in Nat
        <5> HIDE DEF c
        <5> QED
          BY <4>1
      <4>3. to = task.from + d - 1
        BY <3>2
      <4> HIDE DEF d
      <4> QED
        BY <1>4, <2>1, <4>1, <4>2, <4>3
    <3>4. chunkFrom' + task.chunkSize - 1 = task.from + (n + 1) * task.chunkSize - 1
      <4>1. task.chunkSize \in Nat /\ n \in Nat
        BY <1>2, <1>4, TaskTyped
      <4> DEFINE c == task.chunkSize
      <4>2. (n + 1) * c = n * c + c /\ n * c \in Nat
        <5> HIDE DEF c
        <5> QED
          BY <4>1 DEF c
      <4> QED
        BY <1>4, <2>1, <3>2, <4>1, <4>2
    <3>5. chunkFrom' + task.chunkSize - 1 \in ChunkEnds
      BY <3>3, <3>4 DEF ChunkEnds
    <3> QED
      BY <1>1, <3>5, SameTask DEF Aligned
  <2> QED
    BY <1>1, <1>2, <1>13, <2>4, <2>5, <2>6
       DEF LiInv, AtStart, KeptAsFetched, Decidable, FetchedSoFar, DecodedAsEmitted,
           RefusedForCause
<1>14. CASE /\ ~found.failed /\ standard' \in found.value
            /\ prefetched' = {[from |-> chunkFrom, to |-> to, logs |-> chunk]}
            /\ step' = "fetching" /\ chunkFrom' = task.from
            /\ UNCHANGED <<logs, decoded>>
  <2>1. PICK s \in found.value : s = standard'
    BY <1>14
  <2>2. /\ s \in Standards /\ chunk = Logs(s, chunkFrom, to)
        /\ \E k \in 1..Len(chunk) : StandardOfLog(chunk[k]) = Success({s})
    BY <1>6, <1>14
  <2>3. StandardKnown'
    BY <1>1, <1>2, <1>5, <1>11, <2>1, <2>2 DEF StandardKnown
  <2>4. KeptAsFetched'
    BY <1>10, <1>14, <2>1, <2>2 DEF KeptAsFetched
  <2>5. FetchedSoFar'
    <3>1. Logs(s, task.from, task.from - 1) = <<>>
      BY <1>4, LogsOfNothing
    <3> QED
      BY <1>1, <1>2, <1>10, <1>14, <2>1, <3>1 DEF FetchedSoFar
  <2>6. task.from <= task.to /\ task.from \in task.from..task.to
    BY <1>3, <1>4
  <2>6a. chunk # <<>>
    BY <2>2
  <2>6b. OthersComeLater'
    BY <1>1, <1>2, <1>10, <1>11a, <2>1, <2>2, <2>6a, SameTask DEF OthersComeLater
  <2>7. InTheRange' /\ Decidable'
    BY <1>1, <1>2, <1>14, <2>3, <2>6, <2>6b DEF InTheRange, Decidable
  <2> QED
    BY <1>1, <1>2, <1>14, <2>4, <2>5, <2>7
       DEF LiInv, Steps, AtStart, Aligned, NothingDetected, DecodedAsEmitted, RefusedForCause
<1> QED
  BY <1>1, <1>12, <1>13, <1>14

\* A log of the range that the source's standard does not describe.
AtOdds ==
  \E log \in InScope :
    \/ log.standard = "odd"
    \/ task.standard \notin {"auto", log.standard}
    \/ \E other \in InScope : other.standard # log.standard

\* The logs fetched decode to what they stand for, or one of them gives the cause
\* for a refusal.
LEMMA DecodeStep == LiInv /\ DecodeLogs => LiInv'
<1> SUFFICES ASSUME LiInv, DecodeLogs PROVE LiInv'
  OBVIOUS
<1> DEFINE results == [k \in DOMAIN logs |-> DecodeLog(logs[k], standard)]
           N == Len(logs)
<1>1. /\ step = "decoding" /\ task' = task
      /\ IF \E k \in DOMAIN results : results[k].failed
         THEN step' = "refused"
         ELSE /\ decoded' = FlattenSeq([k \in DOMAIN results |-> results[k].value])
              /\ step' = "decoded"
              /\ UNCHANGED <<standard, chunkFrom, prefetched, logs>>
  BY DEF DecodeLogs, Refuse
<1>2. /\ task \in TaskSet /\ task.from <= task.to /\ StandardKnown
      /\ logs = Logs(standard, task.from, task.to)
  BY <1>1 DEF LiInv, Decidable, FetchedSoFar
<1>3. IsRange(task.from, task.to) /\ standard \in Standards /\ standard # "auto"
  BY <1>2, TaskTyped DEF StandardKnown, Standards
<1>4. logs \in Seq(Chosen(standard))
  BY <1>2, <1>3, LogsCorrect
<1>5. N \in Nat /\ DOMAIN logs = 1..N /\ \A k \in 1..N : logs[k] \in Chosen(standard)
  BY <1>4
<1>6. Chosen(standard) \subseteq Chosen(task.standard)
  BY <1>2 DEF StandardKnown, Chosen, Topic0Values, Standards
<1>7. \A k \in 1..N : logs[k] \in InScope
  BY <1>2, <1>3, <1>6, InScopeCorrect
<1>8. \A k \in 1..N : DecodesRight(logs[k], standard)
  BY <1>3, <1>5, DecodeLogCorrect, IngestAssumption DEF Chosen
<1>9. /\ DOMAIN results = 1..N
      /\ \A k \in 1..N : results[k] = DecodeLog(logs[k], standard)
  BY <1>5
<1>10. CASE \E k \in 1..N : results[k].failed
  <2>1. PICK k \in 1..N : results[k].failed
    BY <1>10
  <2> DEFINE log == logs[k]
  <2>2. log.standard # standard
    <3>1. DecodeLog(log, standard).failed /\ DecodesRight(log, standard)
      BY <1>8, <1>9, <2>1
    <3>2. \A v : ~Success(v).failed
      BY DEF Success
    <3> HIDE DEF log
    <3> QED
      BY <3>1, <3>2 DEF DecodesRight
  <2>3. log \in InScope
    BY <1>7
  <2> HIDE DEF log
  <2>4. AtOdds
    <3>1. CASE task.standard = standard
      BY <1>3, <2>2, <2>3, <3>1 DEF AtOdds
    <3>2. CASE task.standard = "auto"
      <4>1. PICK other \in InScope : StandardOfLog(other) = Success({standard})
        BY <1>2, <1>3, <3>2 DEF StandardKnown
      <4>2. other.standard \in {standard, "odd"}
        <5>1. MeansTransfers(other) /\ other.topics[1] \in Topic0Values("auto")
          BY <1>2, <3>2, InScopeCorrect, IngestAssumption DEF Chosen
        <5>2. \A s, t : Success(s) # Failure /\ (Success(s) = Success(t) => s = t)
          BY DEF Success, Failure
        <5>3. PICK s \in Standards :
                StandardOfLog(other) = Success({s}) /\ other.standard \in {s, "odd"}
          BY <4>1, <5>1, <5>2, StandardOfLogCorrect
        <5>4. {s} = {standard}
          BY <4>1, <5>2, <5>3
        <5> QED
          BY <5>3, <5>4
      <4> QED
        BY <2>2, <2>3, <4>1, <4>2 DEF AtOdds
    <3> QED
      BY <1>2, <3>1, <3>2 DEF StandardKnown
  <2>5. step' = "refused"
    BY <1>1, <1>9, <1>10
  <2>6. RefusedForCause'
    BY <1>1, <2>4, SameTask DEF RefusedForCause, AtOdds
  <2> QED
    BY <1>1, <2>5, <2>6, RefuseStep
<1>11. CASE ~\E k \in 1..N : results[k].failed
  <2>1. /\ decoded' = FlattenSeq([k \in DOMAIN results |-> results[k].value])
        /\ step' = "decoded"
        /\ UNCHANGED <<standard, chunkFrom, prefetched, logs>>
    BY <1>1, <1>9, <1>11
  <2>2. \A k \in 1..N : results[k].value = logs[k].entries
    <3> SUFFICES ASSUME NEW k \in 1..N PROVE results[k].value = logs[k].entries
      OBVIOUS
    <3> DEFINE log == logs[k]
    <3>1. DecodesRight(log, standard) /\ ~DecodeLog(log, standard).failed
          /\ results[k] = DecodeLog(log, standard)
      BY <1>8, <1>9, <1>11
    <3>2. \A v : Success(v).value = v
      BY DEF Success
    <3> HIDE DEF log, results
    <3>3. results[k].value = log.entries
      BY <3>1, <3>2 DEF DecodesRight
    <3> QED
      BY <3>3 DEF log
  <2> HIDE DEF results
  <2>3. [k \in DOMAIN results |-> results[k].value] = [k \in DOMAIN logs |-> logs[k].entries]
    BY <1>5, <1>9, <2>2
  <2>4. decoded' = FlattenSeq([k \in DOMAIN logs |-> logs[k].entries])
    BY <2>1, <2>3
  <2>5. Logs(standard, task.from, task.to)' = logs
    BY <1>1, <1>2, <2>1, SameTask
  <2>6. DecodedAsEmitted'
    BY <1>1, <2>1, <2>4, <2>5, SameTask DEF DecodedAsEmitted, LiInv, Decidable
  <2>7. FetchedSoFar'
    BY <2>1, <2>5 DEF FetchedSoFar
  <2>8. StandardKnown'
    BY <1>1, <1>2, <2>1, SameTask DEF StandardKnown
  <2>9. OthersComeLater'
    BY <1>1, <2>1, SameTask DEF LiInv, Decidable
  <2> QED
    BY <1>1, <1>2, <2>1, <2>6, <2>7, <2>8, <2>9
       DEF LiInv, Steps, Ended, AtStart, InTheRange, Aligned, NothingDetected, KeptAsFetched,
           Decidable, RefusedForCause
<1> QED
  BY <1>10, <1>11

LEMMA LiInvStep == LiInv /\ [LiNext]_liVars => LiInv'
<1> SUFFICES ASSUME LiInv, [LiNext]_liVars PROVE LiInv'
  OBVIOUS
<1>1. CASE LiNext
  BY <1>1, BeginStep, DetectStep, FetchStep, AttachStep, DecodeStep, RpcFailsStep
     DEF LiNext, Ingest
<1>2. CASE UNCHANGED liVars
  <2>1. /\ UNCHANGED <<task, step, standard, chunkFrom, prefetched, logs, decoded>>
        /\ InScope' = InScope /\ \A s, from, to : Logs(s, from, to)' = Logs(s, from, to)
    BY <1>2, SameTask DEF liVars
  <2>2. /\ StandardKnown => StandardKnown'
        /\ OthersComeLater => OthersComeLater'
        /\ ChunkEnds' = ChunkEnds
    BY <2>1, SameTask DEF StandardKnown
  <2> QED
    BY <2>1, <2>2 DEF LiInv, AtStart, InTheRange, Aligned, NothingDetected, KeptAsFetched, Decidable,
                     FetchedSoFar, DecodedAsEmitted, RefusedForCause
<1> QED
  BY <1>1, <1>2

\* Whatever the chunk size, the chain and the standard, and with or without the chunk
\* the detection kept, fetch_logs_in_chunks_with_progress returns the logs of
\* the range, each once and in order.
THEOREM FetchedLogsCorrect == LiSpec => []FetchedSoFar
<1>1. LiInv => FetchedSoFar
  BY DEF LiInv
<1> QED
  BY <1>1, LiInvInit, LiInvStep, PTL DEF LiSpec

\* What ingest_source_range decodes is what the contract emitted in the range
\* in its logs of the standard in use, transfer by transfer; a log of another
\* standard is left out only after the chunk in which "auto" found the standard.
THEOREM DecodedCorrect == LiSpec => []DecodedAsEmitted
<1>1. LiInv => DecodedAsEmitted
  BY DEF LiInv
<1> QED
  BY <1>1, LiInvInit, LiInvStep, PTL DEF LiSpec

\* ingest_source_range refuses a range only for its arguments or for a log in it
\* that the source's standard does not describe.
THEOREM RefusalsCorrect == LiSpec => []RefusedForCause
<1>1. LiInv => RefusedForCause
  BY DEF LiInv
<1> QED
  BY <1>1, LiInvInit, LiInvStep, PTL DEF LiSpec
=============================================================================
