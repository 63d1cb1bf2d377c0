--------------------------- MODULE ContiguousTarget ---------------------------
(***************************************************************************)
(* The loop of next_contiguous_checkpoint_target: the succeeded ranges and *)
(* the job's own range, sorted, folded into the highest block reached      *)
(* without a gap.  Indexer uses what the loop computes; here is how.       *)
(***************************************************************************)
EXTENDS Ranges, Sequences

CONSTANTS
  Inputs,    \* the sequences of ranges the query and the push may give
  Frontiers, \* the frontiers: the checkpoint, or start_block - 1
  MaxBlock   \* i64::MAX

RangeSet == {r \in [from : 0..MaxBlock, to : 0..MaxBlock] : r.from <= r.to}

ASSUME ContiguousAssumption ==
  /\ MaxBlock \in Nat
  /\ Inputs \subseteq Seq(RangeSet)
  /\ Frontiers \subseteq -1..MaxBlock

VARIABLES ranges, frontier, sorted, i, target

ctVars == <<ranges, frontier, sorted, i, target>>

CtInit ==
  /\ ranges \in Inputs
  /\ frontier \in Frontiers
  /\ sorted = FALSE
  /\ i = 1
  /\ target = frontier

\* The order of (i64, i64) tuples.
AtMost(r, s) == r.from < s.from \/ (r.from = s.from /\ r.to <= s.to)

SortRangesNot == UNCHANGED ranges  \* mutant: the rows stay in query order

\* sort_unstable: any arrangement of the ranges that is in order.
SortRanges ==
  \E p \in [DOMAIN ranges -> DOMAIN ranges] :
    /\ \A k \in DOMAIN ranges : \E m \in DOMAIN ranges : p[m] = k
    /\ \A k, m \in DOMAIN ranges : k < m => AtMost(ranges[p[k]], ranges[p[m]])
    /\ ranges' = [k \in DOMAIN ranges |-> ranges[p[k]]]

Sort ==
  /\ ~sorted
  /\ SortRanges
  /\ sorted' = TRUE
  /\ UNCHANGED <<frontier, i, target>>

SaturatingAddOne(b) == IF b = MaxBlock THEN MaxBlock ELSE b + 1

\* One turn of the loop.
Extend ==
  /\ sorted
  /\ i <= Len(ranges)
  /\ target' = IF ranges[i].from <= SaturatingAddOne(target) /\ ranges[i].to > target
               THEN ranges[i].to ELSE target
  /\ i' = i + 1
  /\ UNCHANGED <<ranges, frontier, sorted>>

CtNext == Sort \/ Extend

CtSpec == CtInit /\ [][CtNext]_ctVars

-----------------------------------------------------------------------------

\* When the loop ends, target is the end of the unbroken run of covered blocks
\* after the frontier, for every order in which the ranges arrive and however
\* they overlap: one pass over the sorted ranges is enough.
TargetContiguous ==
  sorted /\ i > Len(ranges) =>
    IsContiguousTarget(frontier, {ranges[k] : k \in DOMAIN ranges}, target)
=============================================================================
