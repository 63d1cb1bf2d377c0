--------------------------- MODULE JobQueueService ---------------------------
(***************************************************************************)
(* The job queue as its users see it: the refinement mapping from the      *)
(* tables and the worker loop to JobService.                               *)
(***************************************************************************)
EXTENDS JobQueue

\* The worker loop has j in hand: its lease is committed and neither a mark_*
\* transaction nor the end of the process has taken it away.
InHand(j) == \E w \in Workers : pc[w] \in {"leased", "executing"} /\ held[w] = j

PhaseOf(s) ==
  CASE s = "absent" -> "absent"
    [] s \in {"queued"} \cup Active -> "pending"
    [] s = "succeeded" -> "succeeded"
    [] s = "dead_lettered" -> "dead"

servicePhase == [j \in Jobs |-> PhaseOf(status[j])]

\* A row whose lessee is gone keeps leased_by until it is reclaimed; nobody
\* works on it.
serviceOwner == [j \in Jobs |-> IF InHand(j) THEN leasedBy[j] ELSE NoWorker]

Service == INSTANCE JobService
             WITH phase <- servicePhase, owner <- serviceOwner,
                  takes <- attempts

\* While leases outlive all work, the queue is a JobService: lease scans,
\* SKIP LOCKED, expiries, reclaims, crashes, restarts and unchecked mark_*
\* calls show as nothing but jobs submitted, taken by one worker at a time,
\* abandoned, failed and finished, and mark_failed dead-letters on exactly
\* the attempts max_attempts says.
ImplementsJobService == Service!Spec
=============================================================================
