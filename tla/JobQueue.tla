------------------------------- MODULE JobQueue -------------------------------
(***************************************************************************)
(* The durable job queue (infra/postgres/job_repository.rs) and the worker *)
(* loop that drives it (worker/mod.rs, main.rs worker_run).                *)
(*                                                                         *)
(* Every transaction of the repository is one action, except the lease     *)
(* transaction, which is two: the SELECT ... FOR UPDATE SKIP LOCKED, after *)
(* which other scans skip the locked row, and the commit.  Executing a job *)
(* (RPC calls and ledger writes) is the time a worker spends in            *)
(* "executing"; its outcome is a free choice here.                         *)
(*                                                                         *)
(* Wall-clock time is reduced to what lock_next_candidate tells apart: a   *)
(* lease_expires_at is NULL, in the future, or in the past.                *)
(***************************************************************************)
EXTENDS Naturals, Sequences

CONSTANTS
  Jobs,           \* the job rows that may ever be enqueued
  Workers,        \* worker processes (the worker_id of each)
  NoJob,          \* "no job in hand"
  NoWorker,       \* SQL NULL in jobs.leased_by
  ReplayJobs,     \* the jobs of type REPLAY_RANGE; the others are INGEST_RANGE
  Serves,         \* Serves[w]: the jobs that pass w's optional chain filter
  MaxAttempts,    \* MaxAttempts[j]: the column jobs.max_attempts
  MaxOverruns,    \* bound: how often one job's lease may run out under a
                  \* worker; 0 means --lease-seconds outlives all work
  MaxInterrupts,  \* bound: how often one job may be interrupted
  MaxCrashes      \* bound: how often worker processes may die

ASSUME JobQueueAssumption ==
  /\ NoJob \notin Jobs
  /\ NoWorker \notin Workers
  /\ ReplayJobs \subseteq Jobs
  /\ Serves \in [Workers -> SUBSET Jobs]
  /\ MaxAttempts \in [Jobs -> Nat \ {0}]   \* CHECK (max_attempts > 0)
  /\ MaxOverruns \in Nat /\ MaxInterrupts \in Nat /\ MaxCrashes \in Nat

VARIABLES
  \* table jobs
  status,      \* jobs.status; "absent" before the row is inserted
  attempts,    \* jobs.attempts
  leasedBy,    \* jobs.leased_by
  lease,       \* jobs.lease_expires_at: "null", "live" or "expired"
  createdAt,   \* jobs.created_at; 0 before the row is inserted
  \* table job_attempts
  trail,       \* trail[j]: the rows of job j in order of insertion
  \* the workers
  pc,          \* where each worker is in its loop
  held,        \* the job a worker has in hand
  replayFirst, \* IngestWorker.replay_first
  \* time and history
  clock,       \* source of created_at values
  lapses,      \* history: how often each job's lease ran out
  interrupts,  \* history: how often each job was sent back by a shutdown
  crashes      \* history: how many worker processes died

jobVars == <<status, attempts, leasedBy, lease, trail>>
vars == <<status, attempts, leasedBy, lease, createdAt, trail, pc, held,
          replayFirst, clock, lapses, interrupts, crashes>>

Active == {"leased", "running"}
Settled == {"succeeded", "dead_lettered"}
JobStatus == {"absent", "queued"} \cup Active \cup Settled

AttemptStatus ==
  {"leased", "running", "succeeded", "failed", "dead_lettered", "cancelled"}
AttemptRow == [number : Nat, worker : Workers, status : AttemptStatus]

\* "first" and "second" are the two scans of lease_and_mark_running, one per
\* job type; "locking" is inside the lease transaction.
Location == {"down", "first", "second", "locking", "leased", "executing"}

Init ==
  /\ status = [j \in Jobs |-> "absent"]
  /\ attempts = [j \in Jobs |-> 0]
  /\ leasedBy = [j \in Jobs |-> NoWorker]
  /\ lease = [j \in Jobs |-> "null"]
  /\ createdAt = [j \in Jobs |-> 0]
  /\ trail = [j \in Jobs |-> <<>>]
  /\ pc = [w \in Workers |-> "first"]
  /\ held = [w \in Workers |-> NoJob]
  /\ replayFirst = [w \in Workers |-> TRUE]
  /\ clock = 1
  /\ lapses = [j \in Jobs |-> 0]
  /\ interrupts = [j \in Jobs |-> 0]
  /\ crashes = 0

-----------------------------------------------------------------------------
(* The rows of job_attempts *)

UpdateAttemptUpTo(rows, n, s) ==  \* mutant: a loose WHERE clause
  [i \in DOMAIN rows |-> IF rows[i].number <= n
                         THEN [rows[i] EXCEPT !.status = s] ELSE rows[i]]

\* update_attempt_status: UPDATE job_attempts ... WHERE attempt_number = n
UpdateAttempt(rows, n, s) ==
  [i \in DOMAIN rows |-> IF rows[i].number = n
                         THEN [rows[i] EXCEPT !.status = s] ELSE rows[i]]

\* The row of the attempt that jobs.attempts names; every mark_* call updates
\* that row, whichever attempt its caller was leased.
UpdateCurrent(j, s) == UpdateAttempt(trail[j], attempts[j], s)

-----------------------------------------------------------------------------
(* Enqueueing.  A job whose idempotency key or range is already in the     *)
(* table is answered with EnqueueResult::Existing and changes nothing.     *)

Enqueue(j) ==
  /\ status[j] = "absent"
  /\ status' = [status EXCEPT ![j] = "queued"]
  /\ createdAt' = [createdAt EXCEPT ![j] = clock]
  /\ clock' = clock + 1
  /\ UNCHANGED <<attempts, leasedBy, lease, trail, pc, held, replayFirst,
                 lapses, interrupts, crashes>>

-----------------------------------------------------------------------------
(* Leasing *)

RowLockedNever(j) == FALSE        \* mutant: no FOR UPDATE SKIP LOCKED

RowLocked(j) == \E w \in Workers : pc[w] = "locking" /\ held[w] = j

ClaimableHeld(j) ==               \* mutant: the expiry is not compared
  status[j] \in {"queued"} \cup Active

ClaimableQueuedOnly(j) ==         \* mutant: expired leases are not reclaimed
  status[j] = "queued"

ClaimableUnleased(j) ==           \* mutant: tests the lease, not the status
  status[j] # "absent" /\ lease[j] # "live"

\* The filter of lock_next_candidate: a NULL lease_expires_at is not < now.
Claimable(j) ==
  \/ status[j] = "queued"
  \/ status[j] \in Active /\ lease[j] = "expired"

\* The type scanned now: replays first unless the last replay failed here.
ScansReplays(w) == (pc[w] = "first") <=> replayFirst[w]

Candidates(w) ==
  {j \in Serves[w] : /\ Claimable(j)
                     /\ ~RowLocked(j)                        \* SKIP LOCKED
                     /\ (j \in ReplayJobs) <=> ScansReplays(w)}

\* lock_next_candidate finds the oldest candidate and locks its row.
LockNextCandidate(w) ==
  /\ pc[w] \in {"first", "second"}
  /\ \E j \in Candidates(w) :
       /\ \A k \in Candidates(w) : createdAt[j] <= createdAt[k]
       /\ held' = [held EXCEPT ![w] = j]
  /\ pc' = [pc EXCEPT ![w] = "locking"]
  /\ UNCHANGED <<jobVars, createdAt, replayFirst, clock, lapses, interrupts,
                 crashes>>

\* No candidate: go on to the other type; after both (NoJob) poll again, or
\* exit (--stop-when-idle, or a shutdown while idle).
NoCandidate(w) ==
  /\ pc[w] \in {"first", "second"}
  /\ Candidates(w) = {}
  /\ \E next \in IF pc[w] = "first" THEN {"second"} ELSE {"first", "down"} :
       pc' = [pc EXCEPT ![w] = next]
  /\ UNCHANGED <<jobVars, createdAt, held, replayFirst, clock, lapses,
                 interrupts, crashes>>

\* The rest of lease_next_candidate, up to the commit.
CommitLease(w) ==
  LET j == held[w]
      closed == IF status[j] \in Active /\ lease[j] = "expired"
                THEN UpdateCurrent(j, "cancelled")          \* LeaseExpired
                ELSE trail[j]
      row == [number |-> attempts[j] + 1, worker |-> w, status |-> "leased"]
  IN /\ pc[w] = "locking"
     /\ status' = [status EXCEPT ![j] = "leased"]
     /\ leasedBy' = [leasedBy EXCEPT ![j] = w]
     /\ lease' = [lease EXCEPT ![j] = "live"]
     /\ attempts' = [attempts EXCEPT ![j] = @ + 1]
     /\ trail' = [trail EXCEPT ![j] = Append(closed, row)]
     /\ pc' = [pc EXCEPT ![w] = "leased"]
     /\ UNCHANGED <<createdAt, held, replayFirst, clock, lapses, interrupts,
                    crashes>>

-----------------------------------------------------------------------------
(* The mark_* transactions.  None of them looks at leased_by, at the lease *)
(* or at the attempt the caller was given: only at the job id.             *)

\* The caller has the job in hand and the row is free (an UPDATE waits for
\* a lease transaction that holds it).
MayMark(w, from) == pc[w] = from /\ ~RowLocked(held[w])

MarkRunning(w) ==
  LET j == held[w]
  IN /\ MayMark(w, "leased")
     /\ status' = [status EXCEPT ![j] = "running"]
     /\ trail' = [trail EXCEPT ![j] = UpdateCurrent(j, "running")]
     /\ pc' = [pc EXCEPT ![w] = "executing"]
     /\ UNCHANGED <<attempts, leasedBy, lease, createdAt, held, replayFirst,
                    clock, lapses, interrupts, crashes>>

ReleaseJobOneStatus(j, jobStatus, attemptStatus) ==
                                  \* mutant: the attempt gets the job's status
  /\ status' = [status EXCEPT ![j] = jobStatus]
  /\ leasedBy' = [leasedBy EXCEPT ![j] = NoWorker]
  /\ lease' = [lease EXCEPT ![j] = "null"]
  /\ trail' = [trail EXCEPT ![j] = UpdateCurrent(j, jobStatus)]
  /\ UNCHANGED attempts

ReleaseJobKeepLease(j, jobStatus, attemptStatus) ==
                                  \* mutant: the lease columns stay behind
  /\ status' = [status EXCEPT ![j] = jobStatus]
  /\ trail' = [trail EXCEPT ![j] = UpdateCurrent(j, attemptStatus)]
  /\ UNCHANGED <<attempts, leasedBy, lease>>

\* The columns written when a job leaves a worker's hands.
ReleaseJob(j, jobStatus, attemptStatus) ==
  /\ status' = [status EXCEPT ![j] = jobStatus]
  /\ leasedBy' = [leasedBy EXCEPT ![j] = NoWorker]
  /\ lease' = [lease EXCEPT ![j] = "null"]
  /\ trail' = [trail EXCEPT ![j] = UpdateCurrent(j, attemptStatus)]
  /\ UNCHANGED attempts

\* finish_running_job and update_priority_after_outcome: the worker is back
\* at the top of its loop, or exits (--max-jobs reached).
BackToLoop(w, priority) ==
  /\ \E next \in {"first", "down"} : pc' = [pc EXCEPT ![w] = next]
  /\ held' = [held EXCEPT ![w] = NoJob]
  /\ replayFirst' = [replayFirst EXCEPT ![w] = priority]

MarkSucceeded(w) ==
  /\ MayMark(w, "executing")
  /\ ReleaseJob(held[w], "succeeded", "succeeded")
  /\ BackToLoop(w, TRUE)
  /\ UNCHANGED <<createdAt, clock, lapses, interrupts, crashes>>

ExhaustedEarly(j) ==              \* mutant: counts the next attempt
  attempts[j] + 1 >= MaxAttempts[j]

ExhaustedLate(j) == attempts[j] > MaxAttempts[j]   \* mutant: off by one

\* mark_failed: is the next status dead_lettered?
Exhausted(j) == attempts[j] >= MaxAttempts[j]

MarkFailed(w) ==
  LET j == held[w]
  IN /\ MayMark(w, "executing")
     /\ IF Exhausted(j)
        THEN ReleaseJob(j, "dead_lettered", "dead_lettered")
        ELSE ReleaseJob(j, "queued", "failed")
     /\ BackToLoop(w, IF j \in ReplayJobs THEN FALSE ELSE replayFirst[w])
     /\ UNCHANGED <<createdAt, clock, lapses, interrupts, crashes>>

\* Shutdown while executing: run_once_until_shutdown drops the execution,
\* calls mark_interrupted_for_retry and the process exits.
MarkInterrupted(w) ==
  LET j == held[w]
  IN /\ MayMark(w, "executing")
     /\ interrupts[j] < MaxInterrupts
     /\ IF status[j] \in Active
        THEN /\ ReleaseJob(j, "queued", "cancelled")
             /\ interrupts' = [interrupts EXCEPT ![j] = @ + 1]
        ELSE UNCHANGED <<jobVars, interrupts>>
     /\ pc' = [pc EXCEPT ![w] = "down"]
     /\ held' = [held EXCEPT ![w] = NoJob]
     /\ UNCHANGED <<createdAt, replayFirst, clock, lapses, crashes>>

-----------------------------------------------------------------------------
(* The environment *)

\* The process dies, or exits because a database call returned an error; an
\* open lease transaction rolls back.
Crash(w) ==
  /\ pc[w] # "down"
  /\ crashes < MaxCrashes
  /\ crashes' = crashes + 1
  /\ pc' = [pc EXCEPT ![w] = "down"]
  /\ held' = [held EXCEPT ![w] = NoJob]
  /\ UNCHANGED <<jobVars, createdAt, replayFirst, clock, lapses, interrupts>>

\* IngestWorker::new
Restart(w) ==
  /\ pc[w] = "down"
  /\ pc' = [pc EXCEPT ![w] = "first"]
  /\ replayFirst' = [replayFirst EXCEPT ![w] = TRUE]
  /\ UNCHANGED <<jobVars, createdAt, held, clock, lapses, interrupts, crashes>>

\* Time passes lease_expires_at.  Nothing renews a lease, so it can run out
\* under a worker that is still executing (an overrun).
LeaseExpires(j) ==
  /\ lease[j] = "live"
  /\ (\E w \in Workers : held[w] = j) => lapses[j] < MaxOverruns
  /\ lease' = [lease EXCEPT ![j] = "expired"]
  /\ lapses' = [lapses EXCEPT ![j] = @ + 1]
  /\ UNCHANGED <<status, attempts, leasedBy, createdAt, trail, pc, held,
                 replayFirst, clock, interrupts, crashes>>

-----------------------------------------------------------------------------
WorkerStep(w) ==
  \/ LockNextCandidate(w)
  \/ NoCandidate(w)
  \/ CommitLease(w)
  \/ MarkRunning(w)
  \/ MarkSucceeded(w)
  \/ MarkFailed(w)

Next ==
  \/ \E j \in Jobs : Enqueue(j) \/ LeaseExpires(j)
  \/ \E w \in Workers :
       WorkerStep(w) \/ MarkInterrupted(w) \/ Crash(w) \/ Restart(w)

Spec == Init /\ [][Next]_vars

\* A live worker keeps stepping (blocking database calls, RPC calls with a
\* timeout), an operator restarts stopped workers, and time passes.
Fairness ==
  /\ \A w \in Workers : WF_vars(WorkerStep(w)) /\ WF_vars(Restart(w))
  /\ \A j \in Jobs : WF_vars(LeaseExpires(j))

FairSpec == Spec /\ Fairness

-----------------------------------------------------------------------------
(* Properties *)

\* Every variable stays in its type; the statuses are the ones the CHECK
\* constraints of jobs and job_attempts admit.
TypeOK ==
  /\ status \in [Jobs -> JobStatus]
  /\ attempts \in [Jobs -> Nat]
  /\ leasedBy \in [Jobs -> Workers \cup {NoWorker}]
  /\ lease \in [Jobs -> {"null", "live", "expired"}]
  /\ createdAt \in [Jobs -> Nat]
  /\ trail \in [Jobs -> Seq(AttemptRow)]
  /\ pc \in [Workers -> Location]
  /\ held \in [Workers -> Jobs \cup {NoJob}]
  /\ replayFirst \in [Workers -> BOOLEAN]
  /\ clock \in Nat
  /\ lapses \in [Jobs -> Nat]
  /\ interrupts \in [Jobs -> Nat]
  /\ crashes \in Nat

\* What the row of the current attempt says when the job has status s.
AttemptMatches(s, a) ==
  \/ s = a.status
  \/ s = "queued" /\ a.status \in {"failed", "cancelled"}

\* The audit trail of job j: one row per attempt, numbered 1..attempts; the
\* superseded attempts are closed as failed or cancelled; the current one
\* agrees with the job.
JobAudited(j) ==
  /\ Len(trail[j]) = attempts[j]
  /\ \A i \in 1..Len(trail[j]) : trail[j][i].number = i
  /\ \A i \in 1..Len(trail[j]) :
       i < attempts[j] => trail[j][i].status \in {"failed", "cancelled"}
  /\ IF attempts[j] = 0
     THEN status[j] \in {"absent", "queued"}
     ELSE AttemptMatches(status[j], trail[j][attempts[j]])

\* job_attempts stays a faithful "lease and retry audit trail" in every
\* interleaving of lease transactions, stale mark_* calls, crashes and
\* restarts, although no UNIQUE constraint protects (job_id, attempt_number).
AuditTrail == \A j \in Jobs : JobAudited(j)

\* A superseded attempt is never rewritten, not even by the late mark_* call
\* of the worker it belonged to (that call lands on the current attempt).
SupersededAttemptsFrozen ==
  [][\A j \in Jobs : \A i \in 1..Len(trail[j]) :
       i < attempts[j] => trail'[j][i] = trail[j][i]]_vars

\* The lease columns agree with the status: a leased job has an owner and an
\* expiry (so it can be reclaimed), a job nobody works on has neither.
LeaseColumns ==
  \A j \in Jobs :
    /\ (lease[j] = "null") <=> (leasedBy[j] = NoWorker)
    /\ status[j] = "leased" => lease[j] # "null"
    /\ status[j] \notin Active => lease[j] = "null"

\* max_attempts ("Maximum attempts before the job is dead-lettered") limits
\* only the attempts that fail: one more is made for every lease that ran out
\* and for every shutdown, and none beyond those.
AttemptsBounded ==
  \A j \in Jobs : attempts[j] <= MaxAttempts[j] + lapses[j] + interrupts[j]

\* While leases outlive all work, a job is in the hands of at most one
\* worker, and that worker is the one jobs.leased_by names.
ExclusiveWork ==
  \A w \in Workers :
    pc[w] \in {"leased", "executing"} =>
      /\ leasedBy[held[w]] = w
      /\ \A v \in Workers \ {w} : held[v] # held[w]

\* A job that succeeded or was dead-lettered keeps that status
\* (job_status_is_terminal in main.rs relies on it).
SettledIsFinal ==
  [][\A j \in Jobs : status[j] \in Settled => status'[j] = status[j]]_vars

\* Every enqueued job eventually succeeds or is dead-lettered, for good.
EveryJobSettles ==
  \A j \in Jobs : status[j] = "queued" ~> [](status[j] \in Settled)
=============================================================================
