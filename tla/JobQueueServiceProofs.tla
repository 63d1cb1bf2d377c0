----------------------- MODULE JobQueueServiceProofs -----------------------
(***************************************************************************)
(* The job queue implements JobService, for every set of jobs and workers  *)
(* and every retry budget, while leases outlive all work.                  *)
(***************************************************************************)
EXTENDS JobQueueProofs, JobQueueService

\* What the steps below use of the invariants of the queue.
HandInv ==
  /\ status \in [Jobs -> JobStatus]
  /\ leasedBy \in [Jobs -> Workers \cup {NoWorker}]
  /\ attempts \in [Jobs -> Nat]
  /\ pc \in [Workers -> Location]
  /\ held \in [Workers -> Jobs \cup {NoJob}]
  /\ \A w \in Workers :
       pc[w] \in {"locking", "leased", "executing"} <=> held[w] \in Jobs
  /\ \A w \in Workers : pc[w] = "locking" => Claimable(held[w])
  /\ LesseeInv

\* It follows from the invariants proved of JobQueue.
LEMMA HandFromInv == AuditInv /\ LesseeInv => HandInv
BY DEF HandInv, AuditInv, TypeInv, TypeOK, HoldsJob, LockDiscipline

\* A worker that has job j in hand is the owner the service shows, and the
\* job is pending.
LEMMA OwnerIsLessee ==
  ASSUME HandInv, NEW w \in Workers, pc[w] \in {"leased", "executing"}
  PROVE  /\ held[w] \in Jobs
         /\ serviceOwner[held[w]] = w
         /\ servicePhase[held[w]] = "pending"
         /\ w # NoWorker
         /\ \A v \in Workers :
              v # w /\ pc[v] \in {"leased", "executing"} => held[v] # held[w]
<1>1. held[w] \in Jobs /\ leasedBy[held[w]] = w /\ status[held[w]] \in Active
  BY DEF HandInv, LesseeInv
<1>2. InHand(held[w])
  BY DEF InHand
<1>3. servicePhase[held[w]] = "pending"
  BY <1>1 DEF servicePhase, PhaseOf, Active
<1>4. \A v \in Workers :
        v # w /\ pc[v] \in {"leased", "executing"} => held[v] # held[w]
  BY <1>1 DEF HandInv, LesseeInv
<1> QED
  BY <1>1, <1>2, <1>3, <1>4, JobQueueAssumption DEF serviceOwner

\* The phase of every status.
LEMMA Phases ==
  /\ PhaseOf("absent") = "absent"
  /\ \A s \in {"queued", "leased", "running"} : PhaseOf(s) = "pending"
  /\ PhaseOf("succeeded") = "succeeded"
  /\ PhaseOf("dead_lettered") = "dead"
BY DEF PhaseOf, Active

\* A new status of j shows as a new phase of j alone.
LEMMA PhaseUpdate ==
  ASSUME HandInv, NEW j \in Jobs, NEW s, status' = [status EXCEPT ![j] = s]
  PROVE  servicePhase' = [servicePhase EXCEPT ![j] = PhaseOf(s)]
BY DEF servicePhase, HandInv

\* If only j changes hands, only its owner changes.
LEMMA OwnerUpdate ==
  ASSUME NEW j \in Jobs,
         \A k \in Jobs : k # j => /\ InHand(k)' <=> InHand(k)
                                  /\ leasedBy'[k] = leasedBy[k]
  PROVE  serviceOwner' = [serviceOwner EXCEPT ![j] =
                            IF InHand(j)' THEN leasedBy'[j] ELSE NoWorker]
BY DEF serviceOwner

\* A step that changes no status, no lessee, no attempt count and nobody's
\* hands is a stutter of the service.
LEMMA QuietStep ==
  ASSUME UNCHANGED <<status, leasedBy, attempts>>,
         \A j \in Jobs : InHand(j)' <=> InHand(j)
  PROVE  UNCHANGED <<servicePhase, serviceOwner, attempts>>
<1>1. servicePhase' = servicePhase
  BY DEF servicePhase
<1>2. serviceOwner' = serviceOwner
  BY DEF serviceOwner
<1> QED
  BY <1>1, <1>2

\* When the worker that has j in hand lets go of it and the other rows stay
\* as they are, the service sees the owner of j leave it in the phase of the
\* new status.
LEMMA LeaveStep ==
  ASSUME HandInv, NEW w \in Workers, pc[w] \in {"leased", "executing"},
         NEW j \in Jobs, held[w] = j,
         NEW s \in JobStatus, NEW p \in {"first", "down"},
         status' = [status EXCEPT ![j] = s],
         \A k \in Jobs : k # j => leasedBy'[k] = leasedBy[k],
         attempts' = attempts,
         pc' = [pc EXCEPT ![w] = p],
         held' = [held EXCEPT ![w] = NoJob]
  PROVE  Service!Leave(j, PhaseOf(s))
<1>1. /\ serviceOwner[j] = w /\ servicePhase[j] = "pending" /\ w # NoWorker
      /\ \A v \in Workers :
           v # w /\ pc[v] \in {"leased", "executing"} => held[v] # j
  BY OwnerIsLessee
<1>2. \A v \in Workers : v # w => pc'[v] = pc[v] /\ held'[v] = held[v]
  BY DEF HandInv
<1>3. pc'[w] \notin {"leased", "executing"}
  BY DEF HandInv
<1>4. ~InHand(j)'
  BY <1>1, <1>2, <1>3 DEF InHand
<1>5. \A k \in Jobs : k # j => (InHand(k)' <=> InHand(k))
  BY <1>2, <1>3 DEF InHand
<1>6. servicePhase' = [servicePhase EXCEPT ![j] = PhaseOf(s)]
  BY PhaseUpdate
<1>7. serviceOwner' = [serviceOwner EXCEPT ![j] = NoWorker]
  BY <1>4, <1>5, OwnerUpdate
<1> QED
  BY <1>1, <1>6, <1>7 DEF Service!Leave

\* Every step of the queue is a step of the service or a stutter.
LEMMA ServiceStep ==
  HandInv /\ HandInv' /\ [Next]_vars => [Service!Next]_(Service!serviceVars)
<1> SUFFICES ASSUME HandInv, HandInv', [Next]_vars
             PROVE  Service!Next \/ UNCHANGED <<servicePhase, serviceOwner, attempts>>
  BY DEF Service!serviceVars
<1> DEFINE Quiet == UNCHANGED <<servicePhase, serviceOwner, attempts>>
<1>1. ASSUME NEW j \in Jobs, Enqueue(j) PROVE Service!Next
  <2>1. serviceOwner' = serviceOwner
    BY <1>1 DEF Enqueue, serviceOwner, InHand
  <2>2. servicePhase' = [servicePhase EXCEPT ![j] = "pending"]
    BY <1>1, PhaseUpdate, Phases DEF Enqueue
  <2>3. servicePhase[j] = "absent"
    BY <1>1, Phases DEF Enqueue, servicePhase
  <2>4. Service!Submit(j)
    BY <1>1, <2>1, <2>2, <2>3 DEF Service!Submit, Enqueue
  <2> QED
    BY <2>4 DEF Service!Next
<1>2. ASSUME NEW j \in Jobs, LeaseExpires(j) PROVE Quiet
  BY <1>2, QuietStep DEF LeaseExpires, InHand
<1>3. ASSUME NEW w \in Workers,
             LockNextCandidate(w) \/ NoCandidate(w) \/ Restart(w)
      PROVE  Quiet
  <2>1. /\ pc[w] \notin {"leased", "executing"}
        /\ pc'[w] \notin {"leased", "executing"}
        /\ \A v \in Workers : v # w => pc'[v] = pc[v] /\ held'[v] = held[v]
    BY <1>3 DEF LockNextCandidate, NoCandidate, Restart, HandInv
  <2>2. \A j \in Jobs : InHand(j)' <=> InHand(j)
    BY <2>1 DEF InHand
  <2> QED
    BY <1>3, <2>2, QuietStep DEF LockNextCandidate, NoCandidate, Restart, jobVars
<1>4. ASSUME NEW w \in Workers, CommitLease(w) PROVE Service!Next
  <2>0. PICK j \in Jobs : held[w] = j
    BY <1>4 DEF CommitLease, HandInv
  <2>1. /\ Claimable(j) /\ pc[w] = "locking"
        /\ pc' = [pc EXCEPT ![w] = "leased"] /\ held' = held
        /\ leasedBy' = [leasedBy EXCEPT ![j] = w]
        /\ status' = [status EXCEPT ![j] = "leased"]
        /\ attempts' = [attempts EXCEPT ![j] = @ + 1]
    BY <1>4, <2>0 DEF CommitLease, HandInv
  <2>2. ~InHand(j)
    BY <2>1 DEF InHand, HandInv, LesseeInv, Claimable, Active
  <2>3. ASSUME NEW k \in Jobs PROVE serviceOwner[k] # w
    <3>1. w # NoWorker
      BY JobQueueAssumption
    <3>2. ASSUME InHand(k), leasedBy[k] = w PROVE FALSE
      <4>1. PICK v \in Workers : pc[v] \in {"leased", "executing"} /\ held[v] = k
        BY <3>2 DEF InHand
      <4>2. leasedBy[k] = v
        BY <4>1 DEF HandInv, LesseeInv
      <4> QED
        BY <2>1, <3>2, <4>1, <4>2
    <3> QED
      BY <3>1, <3>2 DEF serviceOwner
  <2>4. InHand(j)' /\ \A k \in Jobs : k # j => (InHand(k)' <=> InHand(k))
    BY <2>0, <2>1 DEF InHand, HandInv
  <2>5. serviceOwner' = [serviceOwner EXCEPT ![j] = w]
    BY <2>1, <2>4, OwnerUpdate DEF HandInv
  <2>6. servicePhase[j] = "pending"
    BY <2>1, Phases DEF servicePhase, Claimable, Active
  <2>7. servicePhase' = servicePhase
    BY <2>1, <2>6, PhaseUpdate, Phases DEF servicePhase
  <2>8. serviceOwner[j] = NoWorker
    BY <2>1, <2>2 DEF serviceOwner
  <2>9. Service!Take(j, w)
    BY <2>1, <2>3, <2>5, <2>6, <2>7, <2>8 DEF Service!Take
  <2> QED
    BY <2>9 DEF Service!Next
<1>5. ASSUME NEW w \in Workers, MarkRunning(w) PROVE Quiet
  <2>1. /\ pc[w] = "leased" /\ pc' = [pc EXCEPT ![w] = "executing"]
        /\ held' = held /\ leasedBy' = leasedBy /\ attempts' = attempts
        /\ status' = [status EXCEPT ![held[w]] = "running"]
    BY <1>5 DEF MarkRunning, MayMark
  <2>2. \A j \in Jobs : InHand(j)' <=> InHand(j)
    BY <2>1 DEF InHand, HandInv
  <2>3. held[w] \in Jobs /\ servicePhase[held[w]] = "pending"
    BY <2>1, OwnerIsLessee
  <2>4. servicePhase' = servicePhase
    BY <2>1, <2>3, PhaseUpdate, Phases DEF servicePhase
  <2>5. serviceOwner' = serviceOwner
    BY <2>1, <2>2 DEF serviceOwner
  <2> QED
    BY <2>1, <2>4, <2>5
<1>6. ASSUME NEW w \in Workers, MarkSucceeded(w) PROVE Service!Next
  <2>1. /\ pc[w] = "executing"
        /\ ReleaseJob(held[w], "succeeded", "succeeded")
        /\ held' = [held EXCEPT ![w] = NoJob]
    BY <1>6 DEF MarkSucceeded, MayMark, BackToLoop
  <2>2. PICK p \in {"first", "down"} : pc' = [pc EXCEPT ![w] = p]
    BY <1>6 DEF MarkSucceeded, BackToLoop
  <2>3. Service!Leave(held[w], PhaseOf("succeeded"))
    BY <2>1, <2>2, LeaveStep DEF ReleaseJob, JobStatus, Settled, HandInv
  <2>4. held[w] \in Jobs
    BY <2>1, OwnerIsLessee
  <2> QED
    BY <2>3, <2>4 DEF Service!Next, Service!Succeed, PhaseOf, Active
<1>7. ASSUME NEW w \in Workers, MarkFailed(w) PROVE Service!Next
  <2> DEFINE s == IF Exhausted(held[w]) THEN "dead_lettered" ELSE "queued"
  <2>1. /\ pc[w] = "executing"
        /\ status' = [status EXCEPT ![held[w]] = s]
        /\ leasedBy' = [leasedBy EXCEPT ![held[w]] = NoWorker]
        /\ attempts' = attempts
        /\ held' = [held EXCEPT ![w] = NoJob]
    BY <1>7 DEF MarkFailed, MayMark, BackToLoop, ReleaseJob
  <2>2. PICK p \in {"first", "down"} : pc' = [pc EXCEPT ![w] = p]
    BY <1>7 DEF MarkFailed, BackToLoop
  <2>3. s \in JobStatus
    BY DEF JobStatus, Settled
  <2> HIDE DEF s
  <2>4. Service!Leave(held[w], PhaseOf(s))
    BY <2>1, <2>2, <2>3, LeaveStep DEF HandInv
  <2>5. held[w] \in Jobs
    BY <2>1, OwnerIsLessee
  <2>6. PhaseOf(s) = IF attempts[held[w]] >= MaxAttempts[held[w]]
                     THEN "dead" ELSE "pending"
    BY DEF s, PhaseOf, Exhausted, Active
  <2> QED
    BY <2>4, <2>5, <2>6 DEF Service!Next, Service!Fail
<1>8. ASSUME NEW w \in Workers, MarkInterrupted(w) PROVE Service!Next
  <2>1. pc[w] = "executing" /\ status[held[w]] \in Active
    BY <1>8 DEF MarkInterrupted, MayMark, HandInv, LesseeInv
  <2>2. /\ ReleaseJob(held[w], "queued", "cancelled")
        /\ pc' = [pc EXCEPT ![w] = "down"] /\ held' = [held EXCEPT ![w] = NoJob]
    BY <1>8, <2>1 DEF MarkInterrupted
  <2>3. Service!Leave(held[w], PhaseOf("queued"))
    BY <2>1, <2>2, LeaveStep DEF ReleaseJob, JobStatus, HandInv
  <2>4. held[w] \in Jobs
    BY <2>1, OwnerIsLessee
  <2> QED
    BY <2>3, <2>4 DEF Service!Next, Service!Abandon, PhaseOf, Active
<1>9. ASSUME NEW w \in Workers, Crash(w) PROVE Service!Next \/ Quiet
  <2>1. /\ UNCHANGED <<status, leasedBy, attempts>>
        /\ pc' = [pc EXCEPT ![w] = "down"] /\ held' = [held EXCEPT ![w] = NoJob]
    BY <1>9 DEF Crash, jobVars
  <2>2. CASE pc[w] \in {"leased", "executing"}
    <3>1. held[w] \in Jobs /\ status[held[w]] \in Active
      BY <2>2 DEF HandInv, LesseeInv
    <3>2. status' = [status EXCEPT ![held[w]] = status[held[w]]]
      BY <2>1, <3>1 DEF HandInv
    <3>3. status[held[w]] \in JobStatus
      BY <3>1 DEF HandInv
    <3>4. Service!Leave(held[w], PhaseOf(status[held[w]]))
      BY <2>1, <2>2, <3>1, <3>2, <3>3, LeaveStep
    <3>5. PhaseOf(status[held[w]]) = "pending"
      BY <3>1 DEF PhaseOf, Active
    <3> QED
      BY <3>1, <3>4, <3>5 DEF Service!Next, Service!Abandon
  <2>3. CASE pc[w] \notin {"leased", "executing"}
    <3>1. /\ pc'[w] \notin {"leased", "executing"}
          /\ \A v \in Workers : v # w => pc'[v] = pc[v] /\ held'[v] = held[v]
      BY <2>1 DEF HandInv
    <3>2. \A j \in Jobs : InHand(j)' <=> InHand(j)
      BY <2>3, <3>1 DEF InHand
    <3> QED
      BY <2>1, <3>2, QuietStep
  <2> QED
    BY <2>2, <2>3
<1>10. CASE UNCHANGED vars
  BY <1>10, QuietStep DEF vars, InHand
<1> QED
  BY <1>1, <1>2, <1>3, <1>4, <1>5, <1>6, <1>7, <1>8, <1>9, <1>10
     DEF Next, WorkerStep

\* If leases outlive all work, the queue with its worker loops implements the
\* job service: for every set of jobs and workers, every retry budget and
\* every pattern of crashes, restarts, shutdowns and reclaimed leases.
THEOREM QueueImplementsService ==
  ASSUME MaxOverruns = 0
  PROVE  Spec => ImplementsJobService
<1>1. Init => Service!Init
  <2> SUFFICES ASSUME Init PROVE Service!Init
    OBVIOUS
  <2>1. servicePhase = [j \in Jobs |-> "absent"]
    BY Phases DEF Init, servicePhase
  <2>2. serviceOwner = [j \in Jobs |-> NoWorker]
    BY DEF Init, serviceOwner
  <2> QED
    BY <2>1, <2>2 DEF Init, Service!Init
<1>2. Spec => []HandInv
  BY HandFromInv, AuditInvariance, LesseeInvariance, PTL
<1> QED
  BY <1>1, <1>2, ServiceStep, PTL DEF Spec, ImplementsJobService, Service!Spec
=============================================================================
