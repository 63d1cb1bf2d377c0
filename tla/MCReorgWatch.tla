----------------------------- MODULE MCReorgWatch -----------------------------
(***************************************************************************)
(* A small instance of ReorgWatch: three blocks of which the middle one    *)
(* has not been indexed yet, a replay of the first two, a verification of  *)
(* all of them or of the first two, and two processes that take up two     *)
(* pieces of work between them.                                            *)
(***************************************************************************)
EXTENDS ReorgWatch, TLC

MCIngests == {[from |-> 0, to |-> MaxBlock]}
MCReplays == {[from |-> 0, to |-> 1]}
MCChecks == {[from |-> 0, to |-> MaxBlock], [from |-> 0, to |-> 1]}

\* The last block is empty once it is replaced.
MCHasLogs == [h \in Hashes |-> IF h = 0 THEN Blocks ELSE Blocks \ {MaxBlock}]

\* The processes are interchangeable.
Symmetry == Permutations(Processes)
=============================================================================
