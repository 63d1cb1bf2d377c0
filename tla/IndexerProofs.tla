---------------------------- MODULE IndexerProofs ----------------------------
(***************************************************************************)
(* Theorems about Indexer, for every chain length, every set of CLI        *)
(* commands, every set of workers and every bound.                         *)
(***************************************************************************)
EXTENDS Indexer, JobQueueProofs

-----------------------------------------------------------------------------
(* The pipeline is a job queue: every theorem about JobQueue holds of it.  *)

\* A step of the pipeline, seen on the tables jobs and job_attempts and on
\* the worker loops, is a step of the job queue.
LEMMA StepIsQueueStep == [IxNext]_ixVars => [Next]_vars
<1> SUFFICES ASSUME [IxNext]_ixVars PROVE [Next]_vars
  OBVIOUS
<1>1. CASE QueueStep
  BY <1>1 DEF QueueStep, Next, WorkerStep
<1>2. ASSUME NEW w \in Workers,
             FinishSucceeded(w) \/ FinishFailed(w) \/ BeginExecute(w)
      PROVE  Next
  BY <1>2 DEF FinishSucceeded, FinishFailed, BeginExecute, Next, WorkerStep
<1>3. ASSUME NEW w \in Workers, Interrupt(w) \/ CrashExecuting(w) PROVE Next
  BY <1>3 DEF Interrupt, CrashExecuting, Next
<1>4. ASSUME NEW j \in Jobs, InsertJob(j) PROVE [Next]_vars
  BY <1>4 DEF InsertJob, Next
<1>5. ASSUME NEW r \in Requests,
             \/ ResolveRange(r) \/ EnsureSource(r) \/ PlanBackfill(r)
             \/ EnqueueContract(r) \/ EnqueueReplay(r) \/ ScanContract(r)
      PROVE  UNCHANGED vars
  BY <1>5 DEF ResolveRange, EnsureSource, PlanBackfill, EnqueueContract,
              EnqueueReplay, ScanContract, Plan
<1>6. ASSUME NEW w \in Workers,
             \/ ObserveHead(w) \/ OrphanRange(w) \/ IngestSourceRange(w)
             \/ PersistReceipts(w) \/ ComputeTarget(w) \/ FetchHash(w)
             \/ AdvanceCheckpoint(w) \/ InsertCheckpoint(w) \/ ExecutionFails(w)
      PROVE  UNCHANGED vars
  BY <1>6 DEF ObserveHead, OrphanRange, IngestSourceRange, PersistReceipts,
              ComputeTarget, FetchHash, AdvanceCheckpoint, InsertCheckpoint,
              ExecutionFails
<1>7. CASE HeadAdvances \/ \E b \in Blocks : Reorg(b)
  BY <1>7 DEF HeadAdvances, Reorg
<1>8. CASE UNCHANGED ixVars
  BY <1>8 DEF ixVars
<1> QED
  BY <1>1, <1>2, <1>3, <1>4, <1>5, <1>6, <1>7, <1>8
     DEF IxNext, CliStep, ExecutionStep

\* The pipeline implements the job queue.
THEOREM ImplementsJobQueue == IxSpec => Spec
<1>1. IxInit => Init
  BY DEF IxInit
<1> QED
  BY <1>1, StepIsQueueStep, PTL DEF IxSpec, Spec

-----------------------------------------------------------------------------
(* Type correctness *)

\* A worker is inside execute_job exactly while its loop says so.
PhaseMatches == \A w \in Workers : phase[w] # "none" <=> pc[w] = "executing"

\* A command that is about to plan or to scan has resolved a proper range.
RequestInv ==
  \A r \in Requests : request[r] \in {"resolved", "ensured"} =>
    upTo[r] \in Blocks /\ r.from <= upTo[r]

Starts == {r.from : r \in Requests}

\* Jobs exist only for a source, whose start block some command requested;
\* an execution works with such a start block, perhaps an old one.
StartInv ==
  /\ start # None => start \in Starts
  /\ start = None =>
       /\ planned = {}
       /\ \A r \in Requests : request[r] # "ensured"
       /\ \A j \in Jobs : status[j] = "absent"
  /\ \A w \in Workers : phase[w] # "none" => startSeen[w] \in Starts

\* A worker that is about to write the checkpoint has a proper target.
Targeting == {"hash", "advance", "insert"}
TargetInv == \A w \in Workers : phase[w] \in Targeting => target[w] \in Blocks

IxTypeInv ==
  AuditInv /\ IxTypeOK /\ PhaseMatches /\ RequestInv /\ StartInv /\ TargetInv

\* The chunks of split_inclusive_range lie within the range it splits.
LEMMA SplitLemma ==
  ASSUME NEW from \in Nat, NEW to \in Blocks
  PROVE  SplitInclusiveRange(from, to) \subseteq Jobs
<1> SUFFICES ASSUME NEW a \in from..to
             PROVE  [type |-> "ingest", from |-> a,
                     to |-> MinOf(a + RangeSize - 1, to)] \in Jobs
  BY DEF SplitInclusiveRange
<1>1. RangeSize \in Nat /\ RangeSize > 0 /\ to \in Nat /\ to <= MaxHead /\ MaxHead \in Nat
  BY IndexerAssumption DEF Blocks
<1>2. a \in Blocks /\ a \in Nat
  BY <1>1 DEF Blocks
<1>3. MinOf(a + RangeSize - 1, to) \in Blocks /\ a <= MinOf(a + RangeSize - 1, to)
  BY <1>1, <1>2 DEF MinOf, Blocks
<1> QED
  BY <1>2, <1>3, IndexerAssumption

\* head.saturating_sub(finality_confirmations) is a block of the chain.
LEMMA FinalizedHeadLemma ==
  ASSUME head \in Blocks
  PROVE  FinalizedHead \in Blocks /\ FinalizedHead <= head
BY IndexerAssumption DEF FinalizedHead, MaxOf, Blocks

\* Every start block is a block.
LEMMA StartsLemma == Starts \subseteq Blocks
BY IndexerAssumption DEF Starts, RequestSet

\* The initial database, before any command, is well typed.
LEMMA IxTypeInit == IxInit => IxTypeInv
<1> SUFFICES ASSUME IxInit PROVE IxTypeInv
  OBVIOUS
<1>1. AuditInv
  BY AuditInit DEF IxInit
<1>2. IxTypeOK
  BY IndexerAssumption DEF IxInit, IxTypeOK, Phase, Blocks
<1>3. PhaseMatches /\ RequestInv /\ StartInv /\ TargetInv
  BY DEF IxInit, Init, PhaseMatches, RequestInv, StartInv, TargetInv, Targeting
<1> QED
  BY <1>1, <1>2, <1>3 DEF IxTypeInv

\* A job with an attempt is in the table.
LEMMA AttemptedIsPresent ==
  ASSUME AuditInv, NEW j \in Jobs, attempts[j] > 0
  PROVE  status[j] # "absent"
<1>1. /\ Len(trail[j]) = attempts[j] /\ attempts[j] \in Nat
      /\ AttemptMatches(status[j], trail[j][attempts[j]])
  BY DEF AuditInv, AuditTrail, JobAudited, TypeInv, TypeOK
<1>2. trail[j][attempts[j]] \in AttemptRow
  BY <1>1 DEF AuditInv, TypeInv, TypeOK
<1> QED
  BY <1>1, <1>2 DEF AttemptMatches, AttemptRow, AttemptStatus

\* Leaving execute_job keeps everything but the worker's own locals.
LEMMA LeaveType ==
  ASSUME IxTypeInv, NEW w \in Workers, LeaveExecution(w),
         pc'[w] # "executing", \A v \in Workers \ {w} : pc'[v] = pc[v],
         \A j \in Jobs : status[j] = "absent" => status'[j] = "absent"
  PROVE  IxTypeOK' /\ PhaseMatches' /\ RequestInv' /\ StartInv' /\ TargetInv'
<1> USE DEF LeaveExecution, Goto, IxTypeInv, chainVars, cliVars, cpVars
<1>1. IxTypeOK'
  BY DEF IxTypeOK, Phase
<1>2. /\ phase'[w] = "none"
      /\ \A v \in Workers \ {w} : /\ phase'[v] = phase[v]
                                   /\ startSeen'[v] = startSeen[v]
                                   /\ target'[v] = target[v]
  BY DEF IxTypeOK
<1>3. PhaseMatches' /\ TargetInv'
  BY <1>2 DEF PhaseMatches, TargetInv, Targeting
<1>4. RequestInv' /\ StartInv'
  BY <1>2 DEF RequestInv, StartInv
<1> QED
  BY <1>1, <1>3, <1>4

\* Every step of the pipeline keeps the types, the requests, the start blocks
\* and the targets in order.
LEMMA IxTypeStep == IxTypeInv /\ [IxNext]_ixVars => IxTypeInv'
<1> SUFFICES ASSUME IxTypeInv, [IxNext]_ixVars PROVE IxTypeInv'
  OBVIOUS
<1> DEFINE Rest == IxTypeOK /\ PhaseMatches /\ RequestInv /\ StartInv /\ TargetInv
<1>a. AuditInv'
  BY StepIsQueueStep, AuditStep DEF IxTypeInv
<1>b. \A w \in Workers : phase[w] # "none" => held[w] \in Jobs
  BY DEF IxTypeInv, PhaseMatches, AuditInv, TypeInv, HoldsJob
<1>c. TypeOK
  BY DEF IxTypeInv, AuditInv, TypeInv
<1> SUFFICES Rest'
  BY <1>a DEF IxTypeInv
<1> USE DEF IxTypeInv, IxTypeOK, PhaseMatches, RequestInv, StartInv, TargetInv,
            Targeting, Phase, chainVars, cliVars, cpVars, execVars, vars
<1>1. CASE HeadAdvances
  <2>1. head' \in Blocks
    BY <1>1, IndexerAssumption DEF HeadAdvances, Blocks
  <2> QED
    BY <1>1, <2>1 DEF HeadAdvances
<1>2. ASSUME NEW b \in Blocks, Reorg(b) PROVE Rest'
  BY <1>2 DEF Reorg
<1>3. ASSUME NEW r \in Requests, ResolveRange(r) PROVE Rest'
  <2>1. r \in RequestSet
    BY IndexerAssumption
  <2> DEFINE to == IF r.to = None THEN FinalizedHead ELSE r.to
  <2>2. to \in Blocks
    BY <2>1, FinalizedHeadLemma DEF RequestSet
  <2>3. /\ upTo' = [upTo EXCEPT ![r] = to]
        /\ request' = [request EXCEPT ![r] = IF r.from > to THEN "done" ELSE "resolved"]
        /\ UNCHANGED <<vars, chainVars, start, planned, block, cpVars, execVars>>
    BY <1>3 DEF ResolveRange
  <2>4. r.from <= to \/ r.from > to
    BY <2>1, <2>2, IndexerAssumption DEF RequestSet, Blocks
  <2> HIDE DEF to
  <2> QED
    BY <2>2, <2>3, <2>4
<1>4. ASSUME NEW r \in Requests, EnsureSource(r) PROVE Rest'
  <2>1. r.from \in Starts /\ r.from \in Blocks /\ r.from # None
    BY StartsLemma DEF Starts, Blocks, None
  <2> QED
    BY <1>4, <2>1 DEF EnsureSource
<1>5. ASSUME NEW r \in Requests, NEW before \in {"new", "ensured"},
             NEW new \in SUBSET Jobs, Plan(r, before, new), start # None
      PROVE  Rest'
  BY <1>5 DEF Plan
<1>6. ASSUME NEW r \in Requests, PlanBackfill(r) PROVE Rest'
  <2>1. upTo[r] \in Blocks /\ start # None
    BY <1>6 DEF PlanBackfill, Plan
  <2>2. MaxOf(r.from, processed + 1) \in Nat
    BY StartsLemma, IndexerAssumption DEF Starts, MaxOf, Blocks, None
  <2>3. SplitInclusiveRange(MaxOf(r.from, processed + 1), upTo[r]) \subseteq Jobs
    BY <2>1, <2>2, SplitLemma
  <2> QED
    BY <1>5, <1>6, <2>1, <2>3 DEF PlanBackfill
<1>7. ASSUME NEW r \in Requests, EnqueueContract(r) PROVE Rest'
  <2>1. upTo[r] \in Blocks /\ r.from <= upTo[r] /\ start # None
    BY <1>7 DEF EnqueueContract, Plan
  <2>2. {[type |-> "ingest", from |-> r.from, to |-> upTo[r]]} \subseteq Jobs
    BY <2>1, IndexerAssumption DEF RequestSet
  <2> QED
    BY <1>5, <1>7, <2>1, <2>2 DEF EnqueueContract
<1>8. ASSUME NEW r \in Requests, EnqueueReplay(r) PROVE Rest'
  <2>1. r.to \in Blocks /\ r.from <= r.to /\ start # None
    BY <1>8, IndexerAssumption DEF EnqueueReplay, RequestSet, Blocks, None
  <2>2. {[type |-> "replay", from |-> r.from, to |-> r.to]} \subseteq Jobs
    BY <2>1, IndexerAssumption DEF RequestSet
  <2> QED
    BY <1>5, <1>8, <2>1, <2>2 DEF EnqueueReplay
<1>9. ASSUME NEW r \in Requests, ScanContract(r) PROVE Rest'
  BY <1>9 DEF ScanContract, Persisted
<1>10. ASSUME NEW j \in Jobs, InsertJob(j) PROVE Rest'
  BY <1>10 DEF InsertJob, Enqueue
<1>11. CASE QueueStep
  <2>1. UNCHANGED <<chainVars, cliVars, block, cpVars, execVars>>
    BY <1>11 DEF QueueStep
  <2>2. \A v \in Workers : pc'[v] = "executing" <=> pc[v] = "executing"
    <3>1. CASE \E j \in Jobs : LeaseExpires(j)
      BY <3>1 DEF LeaseExpires
    <3>2. ASSUME NEW w \in Workers,
                 \/ LockNextCandidate(w) \/ NoCandidate(w) \/ CommitLease(w)
                 \/ Restart(w)
          PROVE  \A v \in Workers : pc'[v] = "executing" <=> pc[v] = "executing"
      <4>1. /\ pc[w] # "executing"
            /\ \E p \in {"first", "second", "down", "locking", "leased"} :
                 pc' = [pc EXCEPT ![w] = p]
        BY <3>2 DEF LockNextCandidate, NoCandidate, CommitLease, Restart
      <4> QED
        BY <4>1, <1>c DEF TypeOK
    <3> QED
      BY <1>11, <3>1, <3>2 DEF QueueStep
  <2>3. \A j \in Jobs : status[j] = "absent" => status'[j] = "absent"
    <3>1. ASSUME NEW w \in Workers, CommitLease(w), NEW j \in Jobs, status[j] = "absent"
          PROVE  status'[j] = "absent"
      BY <3>1, <1>c DEF CommitLease, TypeOK, AuditInv, LockDiscipline, Claimable, Active
    <3> QED
      BY <1>11, <3>1 DEF QueueStep, LeaseExpires, LockNextCandidate, NoCandidate,
         Restart, jobVars
  <2> QED
    BY <2>1, <2>2, <2>3
<1>12. ASSUME NEW w \in Workers, BeginExecute(w) PROVE Rest'
  <2>1. held[w] \in Jobs /\ attempts[held[w]] > 0
    BY <1>12 DEF BeginExecute, MarkRunning, MayMark, AuditInv, TypeInv, HoldsJob,
       LeasedJobHasAttempt
  <2>2. status[held[w]] # "absent"
    BY <2>1, AttemptedIsPresent
  <2>3. start \in Starts /\ start # None
    BY <2>1, <2>2
  <2>4. /\ phase' = [phase EXCEPT ![w] = "head"]
        /\ startSeen' = [startSeen EXCEPT ![w] = start]
        /\ pc' = [pc EXCEPT ![w] = "executing"]
        /\ UNCHANGED <<chainVars, cliVars, block, cpVars, observed, target, hashSeen>>
    BY <1>12 DEF BeginExecute, MarkRunning, Goto
  <2> QED
    BY <2>3, <2>4, <1>c DEF TypeOK
<1>13. ASSUME NEW w \in Workers, ObserveHead(w) PROVE Rest'
  BY <1>13, FinalizedHeadLemma DEF ObserveHead, Goto
<1>14. ASSUME NEW w \in Workers, OrphanRange(w) \/ IngestSourceRange(w) PROVE Rest'
  BY <1>14 DEF OrphanRange, IngestSourceRange, Orphaned, Persisted, Goto
<1>15. ASSUME NEW w \in Workers, PersistReceipts(w) \/ ExecutionFails(w) PROVE Rest'
  BY <1>15 DEF PersistReceipts, ExecutionFails, Goto
<1>16. ASSUME NEW w \in Workers, ComputeTarget(w) PROVE Rest'
  <2> DEFINE frontier == IF processed # None THEN processed ELSE startSeen[w] - 1
  <2>1. startSeen[w] \in Blocks
    BY <1>16, StartsLemma DEF ComputeTarget
  <2>2. frontier \in Blocks \cup {None}
    BY <2>1, IndexerAssumption DEF Blocks, None
  <2>3. PICK t \in {frontier} \cup Blocks :
          /\ target' = [target EXCEPT ![w] = t]
          /\ phase' = [phase EXCEPT ![w] = IF t > frontier /\ t <= observed[w]
                                          THEN "hash" ELSE "done"]
    BY <1>16 DEF ComputeTarget, Goto
  <2>4. t > frontier => t \in Blocks
    BY <2>2, <2>3, IndexerAssumption DEF Blocks, None
  <2>5. /\ phase[w] = "target"
        /\ UNCHANGED <<vars, chainVars, cliVars, block, cpVars, startSeen, observed,
                       hashSeen>>
    BY <1>16 DEF ComputeTarget
  <2> HIDE DEF frontier
  <2> QED
    BY <2>2, <2>3, <2>4, <2>5
<1>17. ASSUME NEW w \in Workers, FetchHash(w) PROVE Rest'
  <2>1. hashOf[target[w]] \in Nat
    BY <1>17 DEF FetchHash
  <2> QED
    BY <1>17, <2>1 DEF FetchHash, Goto
<1>18. ASSUME NEW w \in Workers, AdvanceCheckpoint(w) PROVE Rest'
  <2>1. target[w] \in Blocks /\ observed[w] \in Blocks \cup {None}
    BY <1>18 DEF AdvanceCheckpoint
  <2>2. /\ MaxOf(processed, target[w]) \in Blocks \cup {None}
        /\ MaxOf(finalized, observed[w]) \in Blocks \cup {None}
    BY <2>1 DEF MaxOf
  <2>3. /\ \E p \in {"insert", "failed", "done"} : phase' = [phase EXCEPT ![w] = p]
        /\ phase[w] = "advance"
        /\ UNCHANGED <<vars, chainVars, cliVars, block, startSeen, observed, target,
                       hashSeen>>
    BY <1>18 DEF AdvanceCheckpoint, Goto
  <2>4. UNCHANGED cpVars \/ CheckpointRow(w)
    BY <1>18 DEF AdvanceCheckpoint
  <2>5. /\ processed' \in Blocks \cup {None}
        /\ finalized' \in Blocks \cup {None}
        /\ cpHash' \in Nat \cup {None}
    BY <2>2, <2>4 DEF CheckpointRow
  <2> QED
    BY <2>1, <2>3, <2>5
<1>19. ASSUME NEW w \in Workers, InsertCheckpoint(w) PROVE Rest'
  BY <1>19 DEF InsertCheckpoint, Goto
<1>20. ASSUME NEW w \in Workers,
              \/ FinishSucceeded(w) \/ FinishFailed(w) \/ Interrupt(w)
              \/ CrashExecuting(w)
       PROVE  Rest'
  <2>1. LeaveExecution(w)
    BY <1>20 DEF FinishSucceeded, FinishFailed, Interrupt, CrashExecuting
  <2>2. \E p \in {"first", "down"} : pc' = [pc EXCEPT ![w] = p]
    BY <1>20 DEF FinishSucceeded, FinishFailed, Interrupt, CrashExecuting,
       MarkSucceeded, MarkFailed, MarkInterrupted, Crash, BackToLoop
  <2>3. ASSUME NEW j \in Jobs, status[j] = "absent" PROVE status'[j] = "absent"
    <3>1. UNCHANGED status \/ \E st \in JobStatus : status' = [status EXCEPT ![held[w]] = st]
      BY <1>20 DEF FinishSucceeded, FinishFailed, Interrupt, CrashExecuting,
         MarkSucceeded, MarkFailed, MarkInterrupted, Crash, ReleaseJob, JobStatus,
         Active, Settled, jobVars
    <3>2. CASE CrashExecuting(w)
      BY <2>3, <3>2 DEF CrashExecuting, Crash, jobVars
    <3>3. CASE FinishSucceeded(w) \/ FinishFailed(w) \/ Interrupt(w)
      <4>1. pc[w] = "executing"
        BY <3>3 DEF FinishSucceeded, FinishFailed, Interrupt, MarkSucceeded,
           MarkFailed, MarkInterrupted, MayMark
      <4>2. held[w] \in Jobs /\ attempts[held[w]] > 0
        BY <4>1 DEF AuditInv, TypeInv, HoldsJob, LeasedJobHasAttempt
      <4>3. status[held[w]] # "absent"
        BY <4>2, AttemptedIsPresent
      <4> QED
        BY <2>3, <3>1, <4>3, <1>c DEF TypeOK
    <3> QED
      BY <1>20, <3>2, <3>3
  <2>4. pc'[w] # "executing" /\ \A v \in Workers \ {w} : pc'[v] = pc[v]
    BY <2>2, <1>c DEF TypeOK
  <2> QED
    BY <2>1, <2>3, <2>4, LeaveType
<1>21. CASE UNCHANGED ixVars
  BY <1>21 DEF ixVars
<1> QED
  BY <1>1, <1>2, <1>3, <1>4, <1>6, <1>7, <1>8, <1>9, <1>10, <1>11, <1>12, <1>13,
     <1>14, <1>15, <1>16, <1>17, <1>18, <1>19, <1>20, <1>21
     DEF IxNext, CliStep, ExecutionStep

\* The invariant behind the theorems on the pipeline.
LEMMA IxTypeInvariance == IxSpec => []IxTypeInv
BY IxTypeInit, IxTypeStep, PTL DEF IxSpec

\* Every reachable state of the pipeline is well typed; planning only ever
\* produces proper ranges of the chain.
THEOREM IxTypeCorrect == IxSpec => []IxTypeOK
<1>1. IxTypeInv => IxTypeOK
  BY DEF IxTypeInv
<1> QED
  BY <1>1, IxTypeInvariance, PTL

-----------------------------------------------------------------------------
(* What a step can do to one execution, to the checkpoint and to the head. *)

Locals(v) == <<phase[v], startSeen[v], observed[v], target[v], hashSeen[v]>>

\* The steps inside execute_job after the head has been asked for.
WorkStep(v) ==
  \/ ObserveHead(v) \/ OrphanRange(v) \/ IngestSourceRange(v)
  \/ PersistReceipts(v) \/ ComputeTarget(v) \/ FetchHash(v)
  \/ AdvanceCheckpoint(v) \/ InsertCheckpoint(v)

\* An execution moves only by its own worker's steps: it starts, fails, takes
\* a step of execute_job, or stays as it is.
LEMMA ExecutionFrame ==
  ASSUME IxTypeInv, [IxNext]_ixVars, NEW v \in Workers, phase'[v] # "none"
  PROVE  /\ held'[v] = held[v] /\ held[v] \in Jobs
         /\ \/ UNCHANGED Locals(v)
            \/ phase'[v] \in {"head", "failed"}
            \/ WorkStep(v)
<1>a. TypeOK /\ HoldsJob /\ IxTypeOK
  BY DEF IxTypeInv, AuditInv, TypeInv
<1>b. (held'[v] = held[v] /\ UNCHANGED Locals(v)) => held[v] \in Jobs
  BY <1>a DEF IxTypeInv, PhaseMatches, Locals, HoldsJob
<1> DEFINE G == /\ held'[v] = held[v] /\ held[v] \in Jobs
                /\ \/ UNCHANGED Locals(v)
                   \/ phase'[v] \in {"head", "failed"}
                   \/ WorkStep(v)
<1> USE DEF Locals
<1>1. ASSUME UNCHANGED <<held, execVars>> PROVE G
  BY <1>1, <1>b DEF execVars
<1>2. ASSUME NEW w \in Workers, WorkStep(w) PROVE G
  <2>1. CASE w = v
    <3>1. held'[v] = held[v] /\ phase[v] # "none"
      BY <1>2, <2>1 DEF WorkStep, ObserveHead, OrphanRange, IngestSourceRange,
         PersistReceipts, ComputeTarget, FetchHash, AdvanceCheckpoint,
         InsertCheckpoint, vars
    <3>2. held[v] \in Jobs
      BY <3>1, <1>a DEF IxTypeInv, PhaseMatches, HoldsJob
    <3> QED
      BY <1>2, <2>1, <3>1, <3>2
  <2>2. CASE w # v
    <3>1. /\ held' = held
          /\ \E p \in Phase : phase' = [phase EXCEPT ![w] = p]
          /\ startSeen' = startSeen
          /\ observed' = observed \/ \E o : observed' = [observed EXCEPT ![w] = o]
          /\ target' = target \/ \E t : target' = [target EXCEPT ![w] = t]
          /\ hashSeen' = hashSeen \/ \E h : hashSeen' = [hashSeen EXCEPT ![w] = h]
      BY <1>2 DEF WorkStep, ObserveHead, OrphanRange, IngestSourceRange,
         PersistReceipts, ComputeTarget, FetchHash, AdvanceCheckpoint,
         InsertCheckpoint, vars, Goto, Phase
    <3>2. UNCHANGED Locals(v)
      BY <2>2, <3>1, <1>a DEF IxTypeOK
    <3> QED
      BY <3>1, <3>2, <1>b
  <2> QED
    BY <2>1, <2>2
<1>3. ASSUME NEW w \in Workers, ExecutionFails(w) PROVE G
  <2>1. /\ held' = held
        /\ phase' = [phase EXCEPT ![w] = "failed"] /\ phase[w] # "none"
        /\ UNCHANGED <<startSeen, observed, target, hashSeen>>
    BY <1>3 DEF ExecutionFails, Goto, vars
  <2>2. CASE w = v
    BY <2>1, <2>2, <1>a DEF IxTypeInv, IxTypeOK, PhaseMatches, HoldsJob
  <2>3. CASE w # v
    BY <2>1, <2>3, <1>a, <1>b DEF IxTypeOK
  <2> QED
    BY <2>2, <2>3
<1>4. ASSUME NEW w \in Workers, BeginExecute(w) PROVE G
  <2>1. /\ held' = held
        /\ phase' = [phase EXCEPT ![w] = "head"] /\ pc[w] = "leased"
        /\ startSeen' = [startSeen EXCEPT ![w] = start]
        /\ UNCHANGED <<observed, target, hashSeen>>
    BY <1>4 DEF BeginExecute, MarkRunning, MayMark, Goto
  <2>2. CASE w = v
    BY <2>1, <2>2, <1>a DEF IxTypeOK, HoldsJob
  <2>3. CASE w # v
    BY <2>1, <2>3, <1>a, <1>b DEF IxTypeOK
  <2> QED
    BY <2>2, <2>3
<1>5. ASSUME NEW w \in Workers, LeaveExecution(w), held' = [held EXCEPT ![w] = NoJob]
      PROVE  G
  <2>1. /\ phase' = [phase EXCEPT ![w] = "none"]
        /\ startSeen' = [startSeen EXCEPT ![w] = None]
        /\ observed' = [observed EXCEPT ![w] = None]
        /\ target' = [target EXCEPT ![w] = None]
        /\ hashSeen' = [hashSeen EXCEPT ![w] = None]
    BY <1>5 DEF LeaveExecution, Goto
  <2>2. w # v
    BY <2>1, <1>a DEF IxTypeOK
  <2> QED
    BY <1>5, <2>1, <2>2, <1>a, <1>b DEF IxTypeOK, TypeOK
<1>6. CASE QueueStep
  <2>1. UNCHANGED execVars
    BY <1>6 DEF QueueStep
  <2>2. pc[v] = "executing"
    BY <2>1 DEF execVars, IxTypeInv, PhaseMatches
  <2>3. held'[v] = held[v]
    <3>1. ASSUME NEW w \in Workers, LockNextCandidate(w) PROVE held'[v] = held[v]
      BY <3>1, <2>2, <1>a DEF LockNextCandidate, TypeOK
    <3> QED
      BY <1>6, <3>1 DEF QueueStep, LeaseExpires, NoCandidate, CommitLease, Restart
  <2> QED
    BY <2>1, <2>3, <1>b DEF execVars
<1>7. ASSUME NEW w \in Workers,
             \/ FinishSucceeded(w) \/ FinishFailed(w) \/ Interrupt(w)
             \/ CrashExecuting(w)
      PROVE  LeaveExecution(w) /\ held' = [held EXCEPT ![w] = NoJob]
  BY <1>7 DEF FinishSucceeded, FinishFailed, Interrupt, CrashExecuting,
     MarkSucceeded, MarkFailed, MarkInterrupted, Crash, BackToLoop
<1>8. CASE HeadAdvances \/ (\E b \in Blocks : Reorg(b)) \/ CliStep \/ UNCHANGED ixVars
  <2>1. UNCHANGED <<held, execVars>>
    BY <1>8 DEF HeadAdvances, Reorg, CliStep, ResolveRange, EnsureSource,
       PlanBackfill, EnqueueContract, EnqueueReplay, ScanContract, Plan, InsertJob,
       Enqueue, ixVars, vars
  <2> QED
    BY <2>1, <1>1
<1> QED
  BY <1>2, <1>3, <1>4, <1>5, <1>6, <1>7, <1>8 DEF IxNext, ExecutionStep, WorkStep

\* Only advance_checkpoint writes the checkpoint: over a row that it locked,
\* or as the first row.
LEMMA CheckpointFrame ==
  ASSUME [IxNext]_ixVars
  PROVE  \/ UNCHANGED cpVars
         \/ \E w \in Workers :
              /\ phase[w] = "advance" /\ processed # None /\ CheckpointRow(w)
              /\ target[w] = processed => hashSeen[w] = cpHash
         \/ \E w \in Workers :
              /\ phase[w] = "insert" /\ processed = None
              /\ processed' = target[w] /\ finalized' = observed[w]
<1>1. CASE QueueStep \/ HeadAdvances \/ \E b \in Blocks : Reorg(b)
  BY <1>1 DEF QueueStep, HeadAdvances, Reorg
<1>2. CASE CliStep
  BY <1>2 DEF CliStep, ResolveRange, EnsureSource, PlanBackfill, EnqueueContract,
     EnqueueReplay, ScanContract, Plan, InsertJob
<1>3. ASSUME NEW w \in Workers, AdvanceCheckpoint(w)
      PROVE  \/ UNCHANGED cpVars
             \/ /\ phase[w] = "advance" /\ processed # None /\ CheckpointRow(w)
                /\ target[w] = processed => hashSeen[w] = cpHash
  BY <1>3 DEF AdvanceCheckpoint
<1>4. ASSUME NEW w \in Workers, InsertCheckpoint(w)
      PROVE  \/ UNCHANGED cpVars
             \/ /\ phase[w] = "insert" /\ processed = None
                /\ processed' = target[w] /\ finalized' = observed[w]
  BY <1>4 DEF InsertCheckpoint
<1>5. ASSUME NEW w \in Workers,
             \/ BeginExecute(w) \/ ObserveHead(w) \/ OrphanRange(w)
             \/ IngestSourceRange(w) \/ PersistReceipts(w) \/ ComputeTarget(w)
             \/ FetchHash(w) \/ ExecutionFails(w) \/ LeaveExecution(w)
      PROVE  UNCHANGED cpVars
  BY <1>5 DEF BeginExecute, ObserveHead, OrphanRange, IngestSourceRange,
     PersistReceipts, ComputeTarget, FetchHash, ExecutionFails, LeaveExecution
<1>6. ASSUME NEW w \in Workers,
             \/ FinishSucceeded(w) \/ FinishFailed(w) \/ Interrupt(w)
             \/ CrashExecuting(w)
      PROVE  UNCHANGED cpVars
  BY <1>5, <1>6 DEF FinishSucceeded, FinishFailed, Interrupt, CrashExecuting
<1>7. CASE UNCHANGED ixVars
  BY <1>7 DEF ixVars
<1> QED
  BY <1>1, <1>2, <1>3, <1>4, <1>5, <1>6, <1>7 DEF IxNext, ExecutionStep

\* The finalized head never moves back.
LEMMA FinalizedHeadGrows ==
  ASSUME IxTypeInv, [IxNext]_ixVars
  PROVE  FinalizedHead' >= FinalizedHead
<1>1. head' = head \/ head' = head + 1
  <2>1. CASE HeadAdvances
    BY <2>1 DEF HeadAdvances
  <2>2. CASE QueueStep \/ CliStep \/ \E b \in Blocks : Reorg(b)
    BY <2>2 DEF QueueStep, Reorg, CliStep, ResolveRange, EnsureSource, PlanBackfill,
       EnqueueContract, EnqueueReplay, ScanContract, Plan, InsertJob, chainVars
  <2>3. ASSUME NEW w \in Workers, ExecutionStep(w) \/ Interrupt(w) \/ CrashExecuting(w)
        PROVE  head' = head
    BY <2>3 DEF ExecutionStep, BeginExecute, ObserveHead, OrphanRange,
       IngestSourceRange, PersistReceipts, ComputeTarget, FetchHash,
       AdvanceCheckpoint, InsertCheckpoint, ExecutionFails, FinishSucceeded,
       FinishFailed, Interrupt, CrashExecuting, LeaveExecution, chainVars
  <2>4. CASE UNCHANGED ixVars
    BY <2>4 DEF ixVars, chainVars
  <2> QED
    BY <2>1, <2>2, <2>3, <2>4 DEF IxNext
<1>2. head \in Int /\ Confirmations \in Nat
  BY IndexerAssumption DEF IxTypeInv, IxTypeOK, Blocks
<1> QED
  BY <1>1, <1>2 DEF FinalizedHead, MaxOf

-----------------------------------------------------------------------------
(* The checkpoint and finality.  CheckpointFinalized is not inductive: it  *)
(* needs that what a worker observed before it fetched anything is still   *)
(* final when it writes, and that its target does not exceed it.           *)

Observing == Phase \ {"none", "head", "failed"}

FinalInv ==
  /\ \A w \in Workers : phase[w] \in Observing =>
       observed[w] \in Blocks /\ observed[w] <= FinalizedHead
  /\ \A w \in Workers : phase[w] \in Targeting => target[w] <= observed[w]
  /\ processed = None <=> finalized = None
  /\ CheckpointFinalized

\* Every step keeps observed heads, targets and the checkpoint row within the
\* finalized part of the chain.
LEMMA FinalStepLemma == IxTypeInv /\ FinalInv /\ [IxNext]_ixVars => FinalInv'
<1> SUFFICES ASSUME IxTypeInv, FinalInv, [IxNext]_ixVars PROVE FinalInv'
  OBVIOUS
<1>a. IxTypeOK /\ IxTypeOK'
  BY IxTypeStep DEF IxTypeInv
<1>b. /\ FinalizedHead \in Int /\ FinalizedHead' \in Int
      /\ FinalizedHead' >= FinalizedHead
  <2>1. FinalizedHead \in Int
    BY <1>a, IndexerAssumption DEF IxTypeOK, FinalizedHead, MaxOf, Blocks
  <2>2. FinalizedHead' \in Int
    <3>1. head' \in Int /\ Confirmations \in Int
      BY <1>a, IndexerAssumption DEF IxTypeOK, Blocks
    <3>2. FinalizedHead' = head' - Confirmations \/ FinalizedHead' = 0
      BY <3>1 DEF FinalizedHead, MaxOf
    <3> QED
      BY <3>1, <3>2
  <2> QED
    BY <2>1, <2>2, FinalizedHeadGrows
<1>1. ASSUME NEW v \in Workers, phase'[v] \in Observing
      PROVE  /\ observed'[v] \in Blocks /\ observed'[v] <= FinalizedHead'
             /\ phase'[v] \in Targeting => target'[v] <= observed'[v]
  <2>1. \/ UNCHANGED Locals(v)
        \/ WorkStep(v)
    BY <1>1, ExecutionFrame DEF Observing
  <2>2. CASE UNCHANGED Locals(v)
    BY <1>1, <2>2, <1>a, <1>b DEF FinalInv, Locals, Blocks
  <2>3. CASE ObserveHead(v)
    <3>1. /\ observed'[v] = FinalizedHead /\ FinalizedHead \in Blocks
          /\ phase'[v] \notin Targeting
      BY <2>3, <1>a, FinalizedHeadLemma DEF ObserveHead, Goto, IxTypeOK, Targeting
    <3> QED
      BY <3>1, <1>b
  <2>4. CASE ComputeTarget(v)
    <3>1. /\ phase[v] \in Observing /\ observed'[v] = observed[v]
          /\ phase'[v] \in Targeting => target'[v] <= observed[v]
      BY <2>4, <1>a DEF ComputeTarget, Goto, IxTypeOK, Targeting, Observing, Phase
    <3> QED
      BY <3>1, <1>a, <1>b DEF FinalInv, Blocks
  <2>5. CASE OrphanRange(v) \/ IngestSourceRange(v) \/ PersistReceipts(v)
    <3>1. /\ phase[v] \in Observing /\ observed'[v] = observed[v]
          /\ phase'[v] \notin Targeting
      BY <2>5, <1>a DEF OrphanRange, IngestSourceRange, PersistReceipts, Goto,
         IxTypeOK, Targeting, Observing, Phase
    <3> QED
      BY <3>1, <1>a, <1>b DEF FinalInv, Blocks
  <2>6. CASE FetchHash(v) \/ AdvanceCheckpoint(v) \/ InsertCheckpoint(v)
    <3>1. /\ phase[v] \in Observing /\ phase[v] \in Targeting
          /\ observed'[v] = observed[v] /\ target'[v] = target[v]
      BY <2>6 DEF FetchHash, AdvanceCheckpoint, InsertCheckpoint, Targeting,
         Observing, Phase
    <3> QED
      BY <3>1, <1>a, <1>b DEF FinalInv, Blocks
  <2> QED
    BY <2>1, <2>2, <2>3, <2>4, <2>5, <2>6 DEF WorkStep
<1>2. (processed' = None <=> finalized' = None) /\ CheckpointFinalized'
  <2>1. CASE UNCHANGED cpVars
    BY <2>1, <1>a, <1>b DEF cpVars, FinalInv, CheckpointFinalized, IxTypeOK, Blocks, None
  <2>2. ASSUME NEW w \in Workers, phase[w] \in {"advance", "insert"}
        PROVE  /\ target[w] \in Blocks /\ observed[w] \in Blocks
               /\ target[w] <= observed[w] /\ observed[w] <= FinalizedHead
    BY <2>2 DEF FinalInv, IxTypeInv, TargetInv, Targeting, Observing, Phase
  <2>3. ASSUME NEW w \in Workers, phase[w] = "advance", processed # None, CheckpointRow(w)
        PROVE  (processed' = None <=> finalized' = None) /\ CheckpointFinalized'
    <3>1. processed \in Blocks /\ finalized \in Blocks /\ processed <= finalized
          /\ finalized <= FinalizedHead
      BY <2>3, <1>a DEF FinalInv, CheckpointFinalized, IxTypeOK
    <3>2. /\ processed' = MaxOf(processed, target[w])
          /\ finalized' = MaxOf(finalized, observed[w])
      BY <2>3 DEF CheckpointRow
    <3> QED
      BY <2>2, <2>3, <3>1, <3>2, <1>b DEF MaxOf, Blocks, None, CheckpointFinalized
  <2>4. ASSUME NEW w \in Workers, phase[w] = "insert",
               processed' = target[w], finalized' = observed[w]
        PROVE  (processed' = None <=> finalized' = None) /\ CheckpointFinalized'
    BY <2>2, <2>4, <1>b DEF Blocks, None, CheckpointFinalized
  <2> QED
    BY <2>1, <2>3, <2>4, CheckpointFrame
<1> QED
  BY <1>1, <1>2 DEF FinalInv, Targeting, Observing, Phase

\* Initially nothing is observed and there is no checkpoint.
LEMMA FinalInit == IxInit => FinalInv
BY DEF IxInit, FinalInv, Observing, Targeting, Phase, CheckpointFinalized

\* The finality invariant in every reachable state.
LEMMA FinalInvariance == IxSpec => []FinalInv
BY FinalInit, FinalStepLemma, IxTypeInvariance, PTL DEF IxSpec

\* The checkpoint row never promises more than is final: processed_block <=
\* finalized_block <= the chain's finalized head, whichever worker's
\* advance_checkpoint comes last.
THEOREM CheckpointFinalizedCorrect == IxSpec => []CheckpointFinalized
<1>1. FinalInv => CheckpointFinalized
  BY DEF FinalInv
<1> QED
  BY <1>1, FinalInvariance, PTL

\* No advance_checkpoint, however late, moves the checkpoint back or replaces
\* the hash of the block it names.
THEOREM CheckpointOnlyAdvancesCorrect == IxSpec => CheckpointOnlyAdvances
<1> DEFINE A == /\ processed' >= processed
                /\ finalized' >= finalized
                /\ cpHash' # cpHash => processed' > processed
<1>1. ASSUME IxTypeInv, FinalInv, [IxNext]_ixVars PROVE A
  <2>1. /\ processed \in Blocks \cup {None} /\ finalized \in Blocks \cup {None}
        /\ Blocks \subseteq Nat
    BY <1>1 DEF IxTypeInv, IxTypeOK, Blocks
  <2>2. CASE UNCHANGED cpVars
    BY <2>1, <2>2 DEF cpVars, None
  <2>3. ASSUME NEW w \in Workers, phase[w] \in {"advance", "insert"}
        PROVE  target[w] \in Nat /\ observed[w] \in Nat
    BY <1>1, <2>1, <2>3 DEF FinalInv, IxTypeInv, TargetInv, Targeting, Observing, Phase
  <2>4. ASSUME NEW w \in Workers, phase[w] = "advance", processed # None, CheckpointRow(w)
        PROVE  A
    BY <2>1, <2>3, <2>4 DEF CheckpointRow, MaxOf, None
  <2>5. ASSUME NEW w \in Workers, phase[w] = "insert", processed = None,
               processed' = target[w], finalized' = observed[w]
        PROVE  A
    BY <1>1, <2>3, <2>5 DEF None, FinalInv
  <2> QED
    BY <1>1, <2>2, <2>4, <2>5, CheckpointFrame
<1>2. IxTypeInv /\ FinalInv /\ [IxNext]_ixVars => [A]_ixVars
  BY <1>1
<1> QED
  BY <1>2, IxTypeInvariance, FinalInvariance, PTL DEF IxSpec, CheckpointOnlyAdvances

-----------------------------------------------------------------------------
(* The ledger's blocks, and what a step can do to them.                    *)

\* Only scans, replays and ingests change what the ledger holds.
LEMMA BlockFrame ==
  ASSUME [IxNext]_ixVars
  PROVE  \/ block' = block
         \/ \E w \in Workers : OrphanRange(w) \/ IngestSourceRange(w)
         \/ \E r \in Requests : ScanContract(r)
<1>1. CASE QueueStep \/ HeadAdvances \/ \E b \in Blocks : Reorg(b)
  BY <1>1 DEF QueueStep, HeadAdvances, Reorg
<1>2. ASSUME NEW r \in Requests,
             \/ ResolveRange(r) \/ EnsureSource(r) \/ PlanBackfill(r)
             \/ EnqueueContract(r) \/ EnqueueReplay(r)
      PROVE  block' = block
  BY <1>2 DEF ResolveRange, EnsureSource, PlanBackfill, EnqueueContract,
     EnqueueReplay, Plan
<1>3. ASSUME NEW j \in Jobs, InsertJob(j) PROVE block' = block
  BY <1>3 DEF InsertJob
<1>4. ASSUME NEW w \in Workers,
             \/ BeginExecute(w) \/ ObserveHead(w) \/ PersistReceipts(w)
             \/ ComputeTarget(w) \/ FetchHash(w) \/ AdvanceCheckpoint(w)
             \/ InsertCheckpoint(w) \/ ExecutionFails(w) \/ LeaveExecution(w)
      PROVE  block' = block
  BY <1>4 DEF BeginExecute, ObserveHead, PersistReceipts, ComputeTarget, FetchHash,
     AdvanceCheckpoint, InsertCheckpoint, ExecutionFails, LeaveExecution
<1>5. ASSUME NEW w \in Workers,
             \/ FinishSucceeded(w) \/ FinishFailed(w) \/ Interrupt(w)
             \/ CrashExecuting(w)
      PROVE  block' = block
  BY <1>4, <1>5 DEF FinishSucceeded, FinishFailed, Interrupt, CrashExecuting
<1>6. CASE UNCHANGED ixVars
  BY <1>6 DEF ixVars
<1> QED
  BY <1>1, <1>2, <1>3, <1>4, <1>5, <1>6 DEF IxNext, CliStep, ExecutionStep

\* A block that was ingested stays in the ledger, live or orphaned: replays
\* keep audit history.
LEMMA BlocksStay ==
  ASSUME IxTypeInv, [IxNext]_ixVars, NEW b \in Blocks, block[b] # "missing"
  PROVE  block'[b] # "missing"
BY BlockFrame
   DEF IxTypeInv, IxTypeOK, OrphanRange, IngestSourceRange, ScanContract,
       Orphaned, Persisted

\* The block numbers between two block numbers are block numbers.
LEMMA BlocksBetween ==
  ASSUME NEW from \in Blocks, NEW to \in Blocks
  PROVE  from..to \subseteq Blocks
BY IndexerAssumption DEF Blocks

\* A range that was ingested stays ingested.
LEMMA IngestedStays ==
  ASSUME IxTypeInv, [IxNext]_ixVars, NEW from \in Blocks, NEW to \in Blocks,
         Ingested(from, to)
  PROVE  Ingested(from, to)'
BY BlocksStay, BlocksBetween DEF Ingested

\* ingest_source_range leaves no block of the job's range missing.
LEMMA IngestCovers ==
  ASSUME IxTypeInv, NEW w \in Workers, IngestSourceRange(w), held[w] \in Jobs
  PROVE  Ingested(held[w].from, held[w].to)'
<1>1. held[w].from \in Blocks /\ held[w].to \in Blocks
  BY IndexerAssumption
<1>2. ASSUME NEW b \in held[w].from..held[w].to PROVE block'[b] # "missing"
  <2>1. b \in Blocks /\ b \in BlocksOf(held[w])
    BY <1>1, <1>2, BlocksBetween DEF BlocksOf
  <2> QED
    BY <2>1 DEF IngestSourceRange, Persisted
<1> QED
  BY <1>2 DEF Ingested, IngestSourceRange, vars

\* A job becomes succeeded only when its worker's execution is done.
LEMMA SucceedsWhenDone ==
  ASSUME IxTypeInv, [IxNext]_ixVars, NEW j \in Jobs, status'[j] = "succeeded"
  PROVE  \/ status[j] = "succeeded"
         \/ \E w \in Workers : phase[w] = "done" /\ held[w] = j
<1>a. TypeOK
  BY DEF IxTypeInv, AuditInv, TypeInv
<1>1. CASE UNCHANGED status
  BY <1>1
<1>2. ASSUME NEW w \in Workers, FinishSucceeded(w)
      PROVE  status[j] = "succeeded" \/ (phase[w] = "done" /\ held[w] = j)
  BY <1>2, <1>a DEF FinishSucceeded, MarkSucceeded, ReleaseJob, TypeOK
<1>3. ASSUME NEW w \in Workers,
             \/ FinishFailed(w) \/ Interrupt(w) \/ BeginExecute(w) \/ CommitLease(w)
      PROVE  status[j] = "succeeded"
  <2>1. UNCHANGED status \/ \E st \in {"queued", "dead_lettered", "running", "leased"} :
           status' = [status EXCEPT ![held[w]] = st]
    BY <1>3 DEF FinishFailed, Interrupt, BeginExecute, CommitLease, MarkFailed,
       MarkInterrupted, MarkRunning, ReleaseJob, jobVars
  <2> QED
    BY <2>1, <1>a DEF TypeOK
<1>4. ASSUME NEW k \in Jobs, InsertJob(k) PROVE status[j] = "succeeded"
  BY <1>4, <1>a DEF InsertJob, Enqueue, TypeOK, vars
<1>5. ASSUME NEW w \in Workers,
             \/ CrashExecuting(w) \/ LockNextCandidate(w) \/ NoCandidate(w)
             \/ Restart(w) \/ WorkStep(w) \/ ExecutionFails(w)
      PROVE  UNCHANGED status
  BY <1>5 DEF CrashExecuting, Crash, LockNextCandidate, NoCandidate, Restart,
     WorkStep, ObserveHead, OrphanRange, IngestSourceRange, PersistReceipts,
     ComputeTarget, FetchHash, AdvanceCheckpoint, InsertCheckpoint,
     ExecutionFails, vars, jobVars
<1>6. ASSUME NEW k \in Jobs, LeaseExpires(k) PROVE UNCHANGED status
  BY <1>6 DEF LeaseExpires
<1>7. ASSUME NEW r \in Requests,
             \/ ResolveRange(r) \/ EnsureSource(r) \/ PlanBackfill(r)
             \/ EnqueueContract(r) \/ EnqueueReplay(r) \/ ScanContract(r)
      PROVE  UNCHANGED status
  BY <1>7 DEF ResolveRange, EnsureSource, PlanBackfill, EnqueueContract,
     EnqueueReplay, ScanContract, Plan, vars
<1>8. CASE HeadAdvances \/ (\E b \in Blocks : Reorg(b)) \/ UNCHANGED ixVars
  BY <1>1, <1>8 DEF HeadAdvances, Reorg, ixVars, vars
<1> QED
  BY <1>1, <1>2, <1>3, <1>4, <1>5, <1>6, <1>7, <1>8
     DEF IxNext, CliStep, ExecutionStep, QueueStep, WorkStep

-----------------------------------------------------------------------------
(* Contiguity.  The target of a worker is computed from the ranges of      *)
(* succeeded jobs, its hash is fetched, and only then is the row written;  *)
(* the invariant says that what was covered when the target was computed   *)
(* is covered by ingested blocks for good.                                 *)

IngestedPhases == {"receipts", "target", "done"} \cup Targeting

\* Everything from a requested start block up to t has been ingested.
Reached(t) == \E r \in Requests : r.from <= t /\ Ingested(r.from, t)

CoverInv ==
  /\ \A j \in Jobs : status[j] = "succeeded" => Ingested(j.from, j.to)
  /\ \A w \in Workers : phase[w] \in IngestedPhases =>
       Ingested(held[w].from, held[w].to)
  /\ \A w \in Workers : phase[w] \in Targeting => Reached(target[w])
  /\ CheckpointContiguous

\* next_contiguous_checkpoint_target only reaches over ingested blocks.
LEMMA TargetReached ==
  ASSUME IxTypeInv, CoverInv, NEW w \in Workers, ComputeTarget(w),
         held[w] \in Jobs, phase'[w] = "hash"
  PROVE  Reached(target'[w])
<1> DEFINE frontier == IF processed # None THEN processed ELSE startSeen[w] - 1
           R == CompletedRanges(w, frontier)
<1>1. IxTypeOK /\ startSeen[w] \in Starts /\ startSeen[w] \in Blocks
  BY StartsLemma DEF IxTypeInv, StartInv, ComputeTarget
<1>2. PICK t \in {frontier} \cup Blocks :
        /\ IsContiguousTarget(frontier, R, t)
        /\ target' = [target EXCEPT ![w] = t]
        /\ phase' = [phase EXCEPT ![w] = IF t > frontier /\ t <= observed[w]
                                        THEN "hash" ELSE "done"]
  BY DEF ComputeTarget, Goto
<1>3. t > frontier /\ target'[w] = t
  BY <1>1, <1>2 DEF IxTypeOK
<1>4. Blocks \subseteq Nat /\ frontier \in Blocks \cup {None} /\ None = -1
  BY <1>1, IndexerAssumption DEF IxTypeOK, Blocks, None
<1>5. t \in Blocks
  BY <1>2, <1>3, <1>4
<1>6. ASSUME NEW b \in (frontier + 1)..t PROVE block[b] # "missing"
  <2>1. PICK j \in R : b \in j.from..j.to
    BY <1>2, <1>6 DEF IsContiguousTarget, Covers, BlocksOf
  <2>2. Ingested(j.from, j.to)
    BY <2>1 DEF CompletedRanges, SucceededRanges, CoverInv, ComputeTarget,
       IngestedPhases
  <2> QED
    BY <2>1, <2>2 DEF Ingested
<1>7. CASE processed # None
  <2>1. PICK r \in Requests : r.from <= processed /\ Ingested(r.from, processed)
    BY <1>7 DEF CoverInv, CheckpointContiguous
  <2>2. r.from \in Nat /\ processed \in Nat /\ t \in Nat /\ frontier = processed
    BY <1>1, <1>4, <1>5, <1>7, StartsLemma DEF Starts, IxTypeOK
  <2>3. r.from <= t
    BY <1>3, <2>1, <2>2
  <2>4. ASSUME NEW b \in r.from..t PROVE block[b] # "missing"
    <3>1. b \in r.from..processed \/ b \in (frontier + 1)..t
      BY <2>2, <2>4
    <3> QED
      BY <3>1, <2>1, <1>6 DEF Ingested
  <2> QED
    BY <1>3, <2>3, <2>4 DEF Reached, Ingested
<1>8. CASE processed = None
  <2>1. PICK r \in Requests : r.from = startSeen[w]
    BY <1>1 DEF Starts
  <2>2. frontier + 1 = r.from /\ r.from <= t
    <3>1. frontier = r.from - 1 /\ r.from \in Nat /\ t \in Nat
      BY <1>1, <1>4, <1>5, <1>8, <2>1
    <3> HIDE DEF frontier
    <3> QED
      BY <3>1, <1>3
  <2> QED
    BY <1>3, <1>6, <2>2 DEF Reached, Ingested
<1> QED
  BY <1>7, <1>8

\* What was reached stays reached.
LEMMA ReachedStays ==
  ASSUME IxTypeInv, [IxNext]_ixVars, NEW t \in Blocks, Reached(t)
  PROVE  \E r \in Requests :
           r.from <= t /\ \A b \in r.from..t : block'[b] # "missing"
<1>1. PICK r \in Requests : r.from <= t /\ Ingested(r.from, t)
  BY DEF Reached
<1>2. r.from \in Blocks
  BY StartsLemma DEF Starts
<1> QED
  BY <1>1, <1>2, BlocksStay, BlocksBetween DEF Ingested

\* Every step keeps what succeeded jobs, targets and the checkpoint claim.
LEMMA CoverStep == IxTypeInv /\ CoverInv /\ [IxNext]_ixVars => CoverInv'
<1> SUFFICES ASSUME IxTypeInv, CoverInv, [IxNext]_ixVars PROVE CoverInv'
  OBVIOUS
<1>a. IxTypeOK /\ IxTypeOK' /\ TargetInv'
  BY IxTypeStep DEF IxTypeInv
<1>b. \A j \in Jobs : j.from \in Blocks /\ j.to \in Blocks
  BY IndexerAssumption
<1>c. \A w \in Workers : phase[w] # "none" => held[w] \in Jobs
  BY DEF IxTypeInv, PhaseMatches, AuditInv, TypeInv, HoldsJob
<1>1. ASSUME NEW j \in Jobs, status'[j] = "succeeded" PROVE Ingested(j.from, j.to)'
  <2>1. Ingested(j.from, j.to)
    BY <1>1, SucceedsWhenDone DEF CoverInv, IngestedPhases
  <2> QED
    BY <2>1, <1>b, IngestedStays
<1>2. ASSUME NEW v \in Workers, phase'[v] \in IngestedPhases
      PROVE  Ingested(held[v].from, held[v].to)' /\ held'[v] = held[v]
  <2>1. /\ held'[v] = held[v] /\ held[v] \in Jobs
        /\ UNCHANGED Locals(v) \/ WorkStep(v)
    BY <1>2, ExecutionFrame DEF IngestedPhases, Targeting
  <2>2. CASE IngestSourceRange(v)
    BY <2>1, <2>2, IngestCovers
  <2>3. ASSUME ~IngestSourceRange(v) PROVE Ingested(held[v].from, held[v].to)'
    <3>1. phase[v] \in IngestedPhases
      BY <1>2, <2>1, <2>3, <1>a DEF Locals, WorkStep, ObserveHead, OrphanRange,
         PersistReceipts, ComputeTarget, FetchHash, AdvanceCheckpoint,
         InsertCheckpoint, Goto, IngestedPhases, Targeting, IxTypeOK
    <3> QED
      BY <2>1, <3>1, <1>b, IngestedStays DEF CoverInv
  <2> QED
    BY <2>1, <2>2, <2>3
<1>3. ASSUME NEW v \in Workers, phase'[v] \in Targeting
      PROVE  \E r \in Requests :
               /\ r.from <= target'[v]
               /\ \A b \in r.from..target'[v] : block'[b] # "missing"
  <2>1. /\ held[v] \in Jobs
        /\ UNCHANGED Locals(v) \/ WorkStep(v)
    BY <1>3, ExecutionFrame DEF Targeting
  <2>2. target'[v] \in Blocks
    BY <1>3, <1>a DEF TargetInv
  <2>3. Reached(target'[v])
    <3>1. CASE ComputeTarget(v)
      <4>1. phase'[v] = "hash"
        BY <1>3, <3>1, <1>a DEF ComputeTarget, Goto, IxTypeOK, Targeting
      <4> QED
        BY <2>1, <3>1, <4>1, TargetReached
    <3>2. CASE ~ComputeTarget(v)
      <4>1. phase[v] \in Targeting /\ target'[v] = target[v]
        BY <1>3, <2>1, <3>2, <1>a DEF Locals, WorkStep, ObserveHead, OrphanRange,
           IngestSourceRange, PersistReceipts, FetchHash, AdvanceCheckpoint,
           InsertCheckpoint, Goto, Targeting, IxTypeOK
      <4> QED
        BY <4>1 DEF CoverInv
    <3> QED
      BY <3>1, <3>2
  <2> QED
    BY <2>2, <2>3, ReachedStays
<1>4. CheckpointContiguous'
  <2> SUFFICES ASSUME processed' # None
               PROVE  \E r \in Requests :
                        /\ r.from <= processed'
                        /\ \A b \in r.from..processed' : block'[b] # "missing"
    BY DEF CheckpointContiguous, Ingested
  <2>1. processed' \in Blocks
    BY <1>a DEF IxTypeOK
  <2>2. \/ processed' = processed /\ processed # None
        \/ \E w \in Workers : phase[w] \in Targeting /\ processed' = target[w]
    BY CheckpointFrame DEF cpVars, CheckpointRow, MaxOf, Targeting
  <2>3. Reached(processed')
    BY <2>2 DEF CoverInv, CheckpointContiguous, Reached
  <2> QED
    BY <2>1, <2>3, ReachedStays
<1>5. \A v \in Workers : phase'[v] \in Targeting => Reached(target[v])'
  BY <1>3 DEF Reached, Ingested
<1> QED
  BY <1>1, <1>2, <1>4, <1>5 DEF CoverInv, Ingested

\* Initially no job has succeeded and there is no checkpoint.
LEMMA CoverInit == IxInit => CoverInv
BY DEF IxInit, Init, CoverInv, IngestedPhases, Targeting, CheckpointContiguous

\* The checkpoint is contiguous progress from a requested start block, for
\* every number of workers, also with overrun leases, crashes and a start
\* block that ensure_source overwrites under running jobs.
THEOREM CheckpointContiguousCorrect == IxSpec => []CheckpointContiguous
<1>1. CoverInv => CheckpointContiguous
  BY DEF CoverInv
<1> QED
  BY <1>1, CoverInit, CoverStep, IxTypeInvariance, PTL DEF IxSpec

-----------------------------------------------------------------------------
(* Finality of the ledger, when scan-contract leaves --to-block at its     *)
(* default.                                                                *)

ScansDefaultToFinalized == \A r \in Requests : r.cmd = "scan" => r.to = None

LedgerFinalInv ==
  /\ \A r \in Requests : r.cmd = "scan" /\ request[r] \in {"resolved", "ensured"} =>
       upTo[r] <= FinalizedHead
  /\ \A w \in Workers : phase[w] \in {"orphan", "fetch"} => held[w].to <= FinalizedHead
  /\ OnlyFinalizedIngested

\* A command's resolved range only changes when it is resolved.
LEMMA RequestFrame ==
  ASSUME IxTypeInv, [IxNext]_ixVars, NEW r \in Requests,
         request'[r] \in {"resolved", "ensured"}
  PROVE  \/ ResolveRange(r)
         \/ upTo'[r] = upTo[r] /\ request[r] \in {"resolved", "ensured"}
<1>a. IxTypeOK
  BY DEF IxTypeInv
<1>1. CASE UNCHANGED cliVars
  BY <1>1 DEF cliVars
<1>2. ASSUME NEW q \in Requests,
             \/ ResolveRange(q) \/ EnsureSource(q) \/ PlanBackfill(q)
             \/ EnqueueContract(q) \/ EnqueueReplay(q) \/ ScanContract(q)
      PROVE  \/ ResolveRange(r)
             \/ upTo'[r] = upTo[r] /\ request[r] \in {"resolved", "ensured"}
  <2>1. CASE ResolveRange(q)
    BY <2>1, <1>a DEF ResolveRange, IxTypeOK
  <2>2. CASE EnsureSource(q)
    BY <2>2, <1>a DEF EnsureSource, IxTypeOK
  <2>3. CASE PlanBackfill(q) \/ EnqueueContract(q) \/ EnqueueReplay(q) \/ ScanContract(q)
    <3>1. request' = [request EXCEPT ![q] = "done"] /\ upTo' = upTo
      BY <2>3 DEF PlanBackfill, EnqueueContract, EnqueueReplay, ScanContract, Plan
    <3> QED
      BY <3>1, <1>a DEF IxTypeOK
  <2> QED
    BY <1>2, <2>1, <2>2, <2>3
<1>3. ASSUME NEW j \in Jobs, InsertJob(j) PROVE request' = request /\ upTo' = upTo
  BY <1>3 DEF InsertJob
<1>4. CASE HeadAdvances \/ (\E b \in Blocks : Reorg(b)) \/ QueueStep \/ UNCHANGED ixVars
  BY <1>1, <1>4 DEF HeadAdvances, Reorg, QueueStep, ixVars
<1>5. ASSUME NEW w \in Workers, ExecutionStep(w) \/ Interrupt(w) \/ CrashExecuting(w)
      PROVE  UNCHANGED cliVars
  BY <1>5 DEF ExecutionStep, BeginExecute, ObserveHead, OrphanRange,
     IngestSourceRange, PersistReceipts, ComputeTarget, FetchHash,
     AdvanceCheckpoint, InsertCheckpoint, ExecutionFails, FinishSucceeded,
     FinishFailed, Interrupt, CrashExecuting, LeaveExecution
<1> QED
  BY <1>1, <1>2, <1>3, <1>4, <1>5 DEF IxNext, CliStep

\* Every step ingests only what is final at that moment, and stays final.
LEMMA LedgerFinalStep ==
  ASSUME ScansDefaultToFinalized
  PROVE  IxTypeInv /\ LedgerFinalInv /\ [IxNext]_ixVars => LedgerFinalInv'
<1> SUFFICES ASSUME IxTypeInv, LedgerFinalInv, [IxNext]_ixVars PROVE LedgerFinalInv'
  OBVIOUS
<1>a. IxTypeOK /\ IxTypeOK' /\ RequestInv /\ RequestInv'
  BY IxTypeStep DEF IxTypeInv
<1>b. FinalizedHead \in Blocks /\ FinalizedHead' >= FinalizedHead
  BY <1>a, FinalizedHeadLemma, FinalizedHeadGrows DEF IxTypeOK
<1>c. FinalizedHead' \in Int
  <2>1. head' \in Int /\ Confirmations \in Int
    BY <1>a, IndexerAssumption DEF IxTypeOK, Blocks
  <2>2. FinalizedHead' = head' - Confirmations \/ FinalizedHead' = 0
    BY <2>1 DEF FinalizedHead, MaxOf
  <2> QED
    BY <2>1, <2>2
<1>d. Blocks \subseteq Int /\ \A j \in Jobs : j.from \in Blocks /\ j.to \in Blocks
  BY IndexerAssumption DEF Blocks
<1>1. ASSUME NEW r \in Requests, r.cmd = "scan", request'[r] \in {"resolved", "ensured"}
      PROVE  upTo'[r] <= FinalizedHead'
  <2>1. CASE ResolveRange(r)
    <3>1. upTo'[r] = FinalizedHead
      BY <1>1, <2>1, <1>a DEF ResolveRange, ScansDefaultToFinalized, IxTypeOK
    <3> QED
      BY <3>1, <1>b, <1>c, <1>d
  <2>2. CASE upTo'[r] = upTo[r] /\ request[r] \in {"resolved", "ensured"}
    <3>1. upTo[r] <= FinalizedHead /\ upTo[r] \in Blocks
      BY <1>1, <2>2, <1>a DEF LedgerFinalInv, RequestInv
    <3>2. upTo[r] \in Int /\ FinalizedHead \in Int /\ upTo'[r] = upTo[r]
      BY <2>2, <3>1, <1>b, <1>d
    <3>3. upTo[r] <= FinalizedHead'
      BY <3>1, <3>2, <1>b, <1>c
    <3> QED
      BY <3>2, <3>3
  <2> QED
    BY <1>1, <2>1, <2>2, RequestFrame
<1>2. ASSUME NEW v \in Workers, phase'[v] \in {"orphan", "fetch"}
      PROVE  held'[v].to <= FinalizedHead'
  <2>1. /\ held'[v] = held[v] /\ held[v] \in Jobs
        /\ UNCHANGED Locals(v) \/ WorkStep(v)
    BY <1>2, ExecutionFrame
  <2>2. held[v].to <= FinalizedHead
    <3>1. CASE ObserveHead(v)
      <4>1. ~(held[v].to > FinalizedHead)
        BY <1>2, <3>1, <1>a DEF ObserveHead, Goto, IxTypeOK
      <4>2. held[v].to \in Int /\ FinalizedHead \in Int
        BY <2>1, <1>b, <1>d
      <4> QED
        BY <4>1, <4>2
    <3>2. CASE ~ObserveHead(v)
      <4>1. phase[v] \in {"orphan", "fetch"}
        BY <1>2, <2>1, <3>2, <1>a DEF Locals, WorkStep, OrphanRange,
           IngestSourceRange, PersistReceipts, ComputeTarget, FetchHash,
           AdvanceCheckpoint, InsertCheckpoint, Goto, IxTypeOK
      <4> QED
        BY <4>1 DEF LedgerFinalInv
    <3> QED
      BY <3>1, <3>2
  <2>3. held[v].to \in Int /\ FinalizedHead \in Int /\ FinalizedHead <= FinalizedHead'
    BY <2>1, <1>b, <1>d
  <2>4. held[v].to <= FinalizedHead'
    BY <2>2, <2>3, <1>c
  <2> QED
    BY <2>1, <2>4
<1>3. ASSUME NEW b \in Blocks, block'[b] # "missing" PROVE b <= FinalizedHead'
  <2>1. CASE block[b] # "missing"
    <3>1. b <= FinalizedHead
      BY <2>1 DEF LedgerFinalInv, OnlyFinalizedIngested
    <3>2. b \in Int /\ FinalizedHead \in Int /\ FinalizedHead <= FinalizedHead'
      BY <1>b, <1>d
    <3> QED
      BY <3>1, <3>2, <1>c
  <2>2. ASSUME block[b] = "missing", NEW w \in Workers,
               OrphanRange(w) \/ IngestSourceRange(w)
        PROVE  b <= FinalizedHead
    <3>1. IngestSourceRange(w) /\ b \in BlocksOf(held[w])
      BY <1>3, <2>2 DEF OrphanRange, IngestSourceRange, Orphaned, Persisted
    <3>2. phase[w] = "fetch" /\ held[w] \in Jobs
      BY <3>1 DEF IngestSourceRange, IxTypeInv, PhaseMatches, AuditInv, TypeInv, HoldsJob
    <3>3. held[w].to <= FinalizedHead /\ b <= held[w].to
      BY <3>1, <3>2, <1>d DEF LedgerFinalInv, BlocksOf
    <3>4. b \in Int /\ held[w].to \in Int /\ FinalizedHead \in Int
      BY <3>2, <1>b, <1>d
    <3> QED
      BY <3>3, <3>4
  <2>3. ASSUME block[b] = "missing", NEW r \in Requests, ScanContract(r)
        PROVE  b <= FinalizedHead
    <3>1. b \in r.from..upTo[r] /\ r.cmd = "scan" /\ request[r] = "ensured"
      BY <1>3, <2>3 DEF ScanContract, Persisted
    <3>2. upTo[r] <= FinalizedHead /\ upTo[r] \in Blocks /\ r.from \in Blocks
      BY <3>1, <1>a, StartsLemma DEF LedgerFinalInv, RequestInv, Starts
    <3>3. b \in Int /\ b <= upTo[r] /\ upTo[r] \in Int /\ FinalizedHead \in Int
      BY <3>1, <3>2, <1>b, <1>d
    <3> QED
      BY <3>2, <3>3
  <2>4. b <= FinalizedHead \/ block[b] # "missing"
    BY <1>3, <2>2, <2>3, BlockFrame
  <2>5. b \in Int /\ FinalizedHead \in Int /\ FinalizedHead <= FinalizedHead'
    BY <1>b, <1>d
  <2>6. ASSUME b <= FinalizedHead PROVE b <= FinalizedHead'
    BY <2>5, <2>6, <1>c
  <2> QED
    BY <2>1, <2>4, <2>6
<1> QED
  BY <1>1, <1>2, <1>3 DEF LedgerFinalInv, OnlyFinalizedIngested

\* Workers ingest only finalized blocks, and so do scans with the default
\* to-block, whatever the head does between the check and the commit.
THEOREM OnlyFinalizedIngestedCorrect ==
  ASSUME ScansDefaultToFinalized
  PROVE  IxSpec => []OnlyFinalizedIngested
<1>1. IxInit => LedgerFinalInv
  BY DEF IxInit, LedgerFinalInv, OnlyFinalizedIngested
<1>2. LedgerFinalInv => OnlyFinalizedIngested
  BY DEF LedgerFinalInv
<1>3. IxTypeInv /\ LedgerFinalInv /\ [IxNext]_ixVars => LedgerFinalInv'
  BY LedgerFinalStep
<1> QED
  BY <1>1, <1>2, <1>3, IxTypeInvariance, PTL DEF IxSpec

-----------------------------------------------------------------------------
(* Replays, while leases outlive all work (MaxOverruns = 0).  For every    *)
(* orphaned block the invariant names a replay that orphaned it and has    *)
(* not restored it since: restoring is one transaction over the whole      *)
(* range, and nobody else works on that job.                               *)

Pending(j, b) ==
  /\ b \in BlocksOf(j) /\ attempts[j] > 0 /\ status[j] # "succeeded"
  /\ \A w \in Workers : held[w] = j => phase[w] \notin IngestedPhases

PendingInv ==
  /\ \A w \in Workers : phase[w] = "orphan" => held[w] \in ReplayJobs
  /\ \A b \in Blocks : block[b] = "orphaned" => \E j \in ReplayJobs : Pending(j, b)

\* jobs.attempts never decreases.
LEMMA AttemptsGrow ==
  ASSUME TypeInv, [Next]_vars, NEW j \in Jobs
  PROVE  attempts'[j] >= attempts[j]
<1>1. \/ attempts' = attempts
      \/ \E k \in Jobs \cup {NoJob} : attempts' = [attempts EXCEPT ![k] = @ + 1]
  <2>1. ASSUME NEW w \in Workers, CommitLease(w)
        PROVE  \E k \in Jobs \cup {NoJob} : attempts' = [attempts EXCEPT ![k] = @ + 1]
    BY <2>1 DEF CommitLease, TypeInv, TypeOK
  <2> QED
    BY <2>1 DEF Next, WorkerStep, Enqueue, LeaseExpires, LockNextCandidate,
       NoCandidate, MarkRunning, MarkSucceeded, MarkFailed, MarkInterrupted, Crash,
       Restart, ReleaseJob, vars, jobVars
<1>2. attempts \in [Jobs -> Nat]
  BY DEF TypeInv, TypeOK
<1> QED
  BY <1>1, <1>2

\* Every step leaves an unfinished replay responsible for each orphaned block.
LEMMA PendingStep ==
  IxTypeInv /\ LesseeInv /\ PendingInv /\ [IxNext]_ixVars => PendingInv'
<1> SUFFICES ASSUME IxTypeInv, LesseeInv, PendingInv, [IxNext]_ixVars PROVE PendingInv'
  OBVIOUS
<1>a. IxTypeOK /\ ReplayJobs \subseteq Jobs /\ TypeInv
  BY IndexerAssumption DEF IxTypeInv, AuditInv
<1>b. \A j \in Jobs : attempts[j] \in Nat /\ attempts'[j] \in Nat
  BY StepIsQueueStep, TypeStep DEF IxTypeInv, AuditInv, TypeInv, TypeOK
<1>1. ASSUME NEW v \in Workers, phase'[v] = "orphan" PROVE held'[v] \in ReplayJobs
  <2>1. /\ held'[v] = held[v]
        /\ UNCHANGED Locals(v) \/ WorkStep(v)
    BY <1>1, ExecutionFrame
  <2>2. CASE ObserveHead(v)
    BY <1>1, <2>1, <2>2, <1>a DEF ObserveHead, Goto, IxTypeOK
  <2>3. CASE ~ObserveHead(v)
    BY <1>1, <2>1, <2>3, <1>a DEF PendingInv, Locals, WorkStep, OrphanRange,
       IngestSourceRange, PersistReceipts, ComputeTarget, FetchHash,
       AdvanceCheckpoint, InsertCheckpoint, Goto, IxTypeOK
  <2> QED
    BY <2>2, <2>3
<1>2. ASSUME NEW b \in Blocks, block'[b] = "orphaned", block[b] = "orphaned"
      PROVE  \E j \in ReplayJobs : Pending(j, b)'
  <2>1. PICK j \in ReplayJobs : Pending(j, b)
    BY <1>2 DEF PendingInv
  <2>2. j \in Jobs
    BY <1>a
  <2>3. attempts'[j] > 0
    BY <2>1, <2>2, <1>a, <1>b, AttemptsGrow, StepIsQueueStep DEF Pending
  <2>4. status'[j] # "succeeded"
    BY <2>1, <2>2, SucceedsWhenDone DEF Pending, IngestedPhases
  <2>5. ASSUME NEW v \in Workers, held'[v] = j, phase'[v] \in IngestedPhases
        PROVE  FALSE
    <3>1. /\ held'[v] = held[v]
          /\ UNCHANGED Locals(v) \/ WorkStep(v)
      BY <2>5, ExecutionFrame DEF IngestedPhases, Targeting
    <3>2. CASE IngestSourceRange(v)
      <4>1. block'[b] = "live"
        BY <2>1, <2>5, <3>1, <3>2 DEF IngestSourceRange, Persisted, Pending
      <4> QED
        BY <4>1, <1>2
    <3>3. CASE ~IngestSourceRange(v)
      <4>1. phase[v] \in IngestedPhases
        BY <2>5, <3>1, <3>3, <1>a DEF Locals, WorkStep, ObserveHead, OrphanRange,
           PersistReceipts, ComputeTarget, FetchHash, AdvanceCheckpoint,
           InsertCheckpoint, Goto, IngestedPhases, Targeting, IxTypeOK
      <4> QED
        BY <2>1, <2>5, <3>1, <4>1 DEF Pending
    <3> QED
      BY <3>2, <3>3
  <2> QED
    BY <2>1, <2>3, <2>4, <2>5 DEF Pending
<1>3. ASSUME NEW b \in Blocks, block'[b] = "orphaned", block[b] # "orphaned"
      PROVE  \E j \in ReplayJobs : Pending(j, b)'
  <2>1. PICK w \in Workers : OrphanRange(w) /\ b \in BlocksOf(held[w])
    <3>1. ASSUME NEW w \in Workers, IngestSourceRange(w) PROVE FALSE
      BY <1>3, <3>1 DEF IngestSourceRange, Persisted
    <3>2. ASSUME NEW r \in Requests, ScanContract(r) PROVE FALSE
      BY <1>3, <3>2 DEF ScanContract, Persisted
    <3>3. ASSUME NEW w \in Workers, OrphanRange(w) PROVE b \in BlocksOf(held[w])
      BY <1>3, <3>3 DEF OrphanRange, Orphaned
    <3> QED
      BY <1>3, <3>1, <3>2, <3>3, BlockFrame
  <2> DEFINE j == held[w]
  <2>2. /\ phase[w] = "orphan" /\ j \in ReplayJobs /\ UNCHANGED vars
        /\ phase' = [phase EXCEPT ![w] = "fetch"]
    BY <2>1 DEF OrphanRange, Goto, PendingInv
  <2>3. pc[w] = "executing"
    BY <2>2 DEF IxTypeInv, PhaseMatches
  <2>4. attempts[j] > 0 /\ status[j] \in Active
    BY <2>3 DEF LesseeInv, IxTypeInv, AuditInv, LeasedJobHasAttempt
  <2>5. ASSUME NEW v \in Workers, v # w, held[v] = j PROVE phase[v] = "none"
    BY <2>3, <2>5 DEF LesseeInv, IxTypeInv, PhaseMatches
  <2>6. \A v \in Workers : held[v] = j => phase'[v] \notin IngestedPhases
    BY <2>2, <2>5, <1>a DEF IxTypeOK, IngestedPhases, Targeting
  <2>7. Pending(j, b)'
    BY <2>1, <2>2, <2>4, <2>6 DEF Pending, vars, Active
  <2> QED
    BY <2>2, <2>7 DEF vars
<1> QED
  BY <1>1, <1>2, <1>3 DEF PendingInv

\* While leases outlive all work, an orphaned block always has an unfinished
\* replay, whichever replays overlap, fail, are interrupted or crash between
\* orphan_source_range and the ingest: when all replays have succeeded, no
\* block is left orphaned.
THEOREM OrphanedBlocksPendingCorrect ==
  ASSUME MaxOverruns = 0
  PROVE  IxSpec => []OrphanedBlocksPending
<1>1. IxInit => PendingInv
  BY DEF IxInit, PendingInv
<1>2. PendingInv => OrphanedBlocksPending
  BY DEF PendingInv, Pending, OrphanedBlocksPending
<1>3. IxSpec => []LesseeInv
  BY ImplementsJobQueue, LesseeInvariance
<1> QED
  BY <1>1, <1>2, <1>3, PendingStep, IxTypeInvariance, PTL DEF IxSpec

=============================================================================
