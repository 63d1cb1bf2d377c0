----------------------------- MODULE JobService -----------------------------
(***************************************************************************)
(* What the durable job queue promises its users: a submitted job is       *)
(* worked on by one worker at a time, by one that works on nothing else,   *)
(* until it succeeds or fails for the last time.  A worker that dies or is *)
(* shut down leaves the job to another one.                                *)
(***************************************************************************)
EXTENDS Naturals

CONSTANTS
  Jobs,         \* the jobs that may be submitted
  Workers,      \* who may take them
  NoWorker,     \* "nobody"
  MaxAttempts   \* MaxAttempts[j]: a failure after that many takes is final

VARIABLES
  phase,   \* "absent", "pending", "succeeded" or "dead"
  owner,   \* who works on a job
  takes    \* how often a job was taken

serviceVars == <<phase, owner, takes>>

Init ==
  /\ phase = [j \in Jobs |-> "absent"]
  /\ owner = [j \in Jobs |-> NoWorker]
  /\ takes = [j \in Jobs |-> 0]

Submit(j) ==
  /\ phase[j] = "absent"
  /\ phase' = [phase EXCEPT ![j] = "pending"]
  /\ UNCHANGED <<owner, takes>>

Take(j, w) ==
  /\ phase[j] = "pending"
  /\ owner[j] = NoWorker
  /\ \A k \in Jobs : owner[k] # w
  /\ owner' = [owner EXCEPT ![j] = w]
  /\ takes' = [takes EXCEPT ![j] = @ + 1]
  /\ UNCHANGED phase

\* The owner is done with j, which is then in phase p.
Leave(j, p) ==
  /\ phase[j] = "pending"
  /\ owner[j] # NoWorker
  /\ phase' = [phase EXCEPT ![j] = p]
  /\ owner' = [owner EXCEPT ![j] = NoWorker]
  /\ UNCHANGED takes

Succeed(j) == Leave(j, "succeeded")

Fail(j) == Leave(j, IF takes[j] >= MaxAttempts[j] THEN "dead" ELSE "pending")

\* The owner dies or is shut down; the job does not fail by that.
Abandon(j) == Leave(j, "pending")

Next ==
  \E j \in Jobs : \/ Submit(j)
                  \/ \E w \in Workers : Take(j, w)
                  \/ Succeed(j)
                  \/ Fail(j)
                  \/ Abandon(j)

Spec == Init /\ [][Next]_serviceVars
=============================================================================
