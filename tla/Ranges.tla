-------------------------------- MODULE Ranges --------------------------------
(***************************************************************************)
(* Inclusive block ranges, as the columns from_block and to_block of a job *)
(* describe them, and what it means to be contiguous.                      *)
(***************************************************************************)
EXTENDS Integers

BlocksOf(j) == j.from..j.to

Covers(R, b) == \E j \in R : b \in BlocksOf(j)

\* t is the end of the unbroken run of covered blocks after the frontier.
IsContiguousTarget(frontier, R, t) ==
  /\ t >= frontier
  /\ \A b \in (frontier + 1)..t : Covers(R, b)
  /\ ~Covers(R, t + 1)
=============================================================================
