--------------------------- MODULE JobQueueProofs ---------------------------
(***************************************************************************)
(* Theorems about JobQueue, for every set of jobs and workers, every retry *)
(* budget and every bound.                                                 *)
(***************************************************************************)
EXTENDS JobQueue, TLAPS

\* Updating the row of attempt n keeps the number and the worker of every
\* row and the status of every row with another number.
LEMMA UpdateAttemptLemma ==
  ASSUME NEW rows \in Seq(AttemptRow), NEW n \in Nat, NEW s \in AttemptStatus
  PROVE  LET u == UpdateAttempt(rows, n, s)
         IN  /\ u \in Seq(AttemptRow)
             /\ Len(u) = Len(rows)
             /\ \A i \in 1..Len(rows) :
                  /\ u[i].number = rows[i].number
                  /\ rows[i].number = n => u[i].status = s
                  /\ rows[i].number # n => u[i] = rows[i]
<1> DEFINE u == UpdateAttempt(rows, n, s)
<1>1. DOMAIN rows = 1..Len(rows) /\ Len(rows) \in Nat
  OBVIOUS
<1>2. u = [i \in 1..Len(rows) |->
             IF rows[i].number = n THEN [rows[i] EXCEPT !.status = s]
                                   ELSE rows[i]]
  BY <1>1 DEF UpdateAttempt
<1>3. \A i \in 1..Len(rows) : rows[i] \in AttemptRow
  BY <1>1
<1>4. \A i \in 1..Len(rows) : u[i] \in AttemptRow
  BY <1>2, <1>3 DEF AttemptRow
<1>5. u \in Seq(AttemptRow) /\ Len(u) = Len(rows)
  BY <1>1, <1>2, <1>4
<1>6. \A i \in 1..Len(rows) :
         /\ u[i].number = rows[i].number
         /\ rows[i].number = n => u[i].status = s
         /\ rows[i].number # n => u[i] = rows[i]
  BY <1>2, <1>3 DEF AttemptRow
<1> QED
  BY <1>5, <1>6

-----------------------------------------------------------------------------
(* Type correctness *)

\* A worker that is inside the lease transaction or past it has a job.
HoldsJob ==
  \A w \in Workers :
    /\ pc[w] \in {"locking", "leased", "executing"} <=> held[w] \in Jobs
    /\ held[w] \in Jobs \/ held[w] = NoJob

TypeInv == TypeOK /\ HoldsJob

\* The empty tables and freshly started workers are well typed.
LEMMA TypeInit == Init => TypeInv
  BY JobQueueAssumption
     DEF Init, TypeInv, TypeOK, HoldsJob, JobStatus, Active, Settled, Location

\* ReleaseJob keeps the job columns in their types.
LEMMA ReleaseJobType ==
  ASSUME TypeOK, NEW j \in Jobs, NEW s \in JobStatus, NEW a \in AttemptStatus,
         ReleaseJob(j, s, a)
  PROVE  /\ status' \in [Jobs -> JobStatus]
         /\ attempts' \in [Jobs -> Nat]
         /\ leasedBy' \in [Jobs -> Workers \cup {NoWorker}]
         /\ lease' \in [Jobs -> {"null", "live", "expired"}]
         /\ trail' \in [Jobs -> Seq(AttemptRow)]
<1>1. UpdateCurrent(j, a) \in Seq(AttemptRow)
  BY UpdateAttemptLemma DEF TypeOK, UpdateCurrent
<1> QED
  BY <1>1 DEF TypeOK, ReleaseJob

\* Every action of the queue and of the workers keeps the types.
LEMMA TypeStep == TypeInv /\ [Next]_vars => TypeInv'
<1> SUFFICES ASSUME TypeInv, [Next]_vars PROVE TypeInv'
  OBVIOUS
<1> USE JobQueueAssumption DEF TypeInv, TypeOK, HoldsJob, JobStatus, Active, Settled,
        Location, AttemptStatus
<1>1. ASSUME NEW j \in Jobs, Enqueue(j) PROVE TypeInv'
  BY <1>1 DEF Enqueue
<1>2. ASSUME NEW j \in Jobs, LeaseExpires(j) PROVE TypeInv'
  BY <1>2 DEF LeaseExpires
<1>3. ASSUME NEW w \in Workers, LockNextCandidate(w) PROVE TypeInv'
  BY <1>3 DEF LockNextCandidate, Candidates, jobVars
<1>4. ASSUME NEW w \in Workers, NoCandidate(w) PROVE TypeInv'
  BY <1>4 DEF NoCandidate, jobVars
<1>5. ASSUME NEW w \in Workers, CommitLease(w) PROVE TypeInv'
  <2> DEFINE j == held[w]
             closed == IF status[j] \in Active /\ lease[j] = "expired"
                       THEN UpdateCurrent(j, "cancelled") ELSE trail[j]
             row == [number |-> attempts[j] + 1, worker |-> w,
                     status |-> "leased"]
  <2>1. j \in Jobs
    BY <1>5 DEF CommitLease
  <2>2. closed \in Seq(AttemptRow)
    BY <2>1, UpdateAttemptLemma DEF UpdateCurrent
  <2>3. row \in AttemptRow
    BY <2>1 DEF AttemptRow
  <2>4. trail' \in [Jobs -> Seq(AttemptRow)]
    <3> HIDE DEF row, closed
    <3> QED BY <2>1, <2>2, <2>3, <1>5 DEF CommitLease, row, closed
  <2> QED
    BY <2>1, <2>4, <1>5 DEF CommitLease
<1>6. ASSUME NEW w \in Workers, MarkRunning(w) PROVE TypeInv'
  <2>1. held[w] \in Jobs
    BY <1>6 DEF MarkRunning, MayMark
  <2>2. UpdateCurrent(held[w], "running") \in Seq(AttemptRow)
    BY <2>1, UpdateAttemptLemma DEF UpdateCurrent
  <2> QED
    BY <2>1, <2>2, <1>6 DEF MarkRunning, MayMark
<1>7. ASSUME NEW w \in Workers, MarkSucceeded(w) PROVE TypeInv'
  <2>1. held[w] \in Jobs
    BY <1>7 DEF MarkSucceeded, MayMark
  <2> QED
    BY <2>1, <1>7, ReleaseJobType DEF MarkSucceeded, MayMark, BackToLoop
<1>8. ASSUME NEW w \in Workers, MarkFailed(w) PROVE TypeInv'
  <2>1. held[w] \in Jobs
    BY <1>8 DEF MarkFailed, MayMark
  <2> QED
    <3>1. /\ \E s \in JobStatus, a \in AttemptStatus : ReleaseJob(held[w], s, a)
          /\ \E next \in {"first", "down"} : pc' = [pc EXCEPT ![w] = next]
          /\ held' = [held EXCEPT ![w] = NoJob]
          /\ \E b \in BOOLEAN : replayFirst' = [replayFirst EXCEPT ![w] = b]
          /\ UNCHANGED <<createdAt, clock, lapses, interrupts, crashes>>
      BY <2>1, <1>8 DEF MarkFailed, MayMark, BackToLoop
    <3>2. /\ status' \in [Jobs -> JobStatus]
          /\ attempts' \in [Jobs -> Nat]
          /\ leasedBy' \in [Jobs -> Workers \cup {NoWorker}]
          /\ lease' \in [Jobs -> {"null", "live", "expired"}]
          /\ trail' \in [Jobs -> Seq(AttemptRow)]
      <4>1. PICK s \in JobStatus, a \in AttemptStatus : ReleaseJob(held[w], s, a)
        BY <3>1
      <4> HIDE DEF JobStatus, AttemptStatus
      <4> QED
        BY <2>1, <4>1, ReleaseJobType
    <3> QED
      BY <3>1, <3>2
<1>9. ASSUME NEW w \in Workers, MarkInterrupted(w) PROVE TypeInv'
  <2>1. held[w] \in Jobs
    BY <1>9 DEF MarkInterrupted, MayMark
  <2>2. CASE status[held[w]] \in Active
    <3>1. ReleaseJob(held[w], "queued", "cancelled")
      BY <1>9, <2>2 DEF MarkInterrupted
    <3>2. /\ status' \in [Jobs -> JobStatus]
          /\ attempts' \in [Jobs -> Nat]
          /\ leasedBy' \in [Jobs -> Workers \cup {NoWorker}]
          /\ lease' \in [Jobs -> {"null", "live", "expired"}]
          /\ trail' \in [Jobs -> Seq(AttemptRow)]
      BY <2>1, <3>1, ReleaseJobType
    <3>3. interrupts' \in [Jobs -> Nat]
      <4>1. interrupts' = [interrupts EXCEPT ![held[w]] = @ + 1]
        BY <1>9, <2>2 DEF MarkInterrupted
      <4> QED
        BY <2>1, <4>1
    <3>4. /\ pc' = [pc EXCEPT ![w] = "down"]
          /\ held' = [held EXCEPT ![w] = NoJob]
          /\ UNCHANGED <<createdAt, replayFirst, clock, lapses, crashes>>
      BY <1>9 DEF MarkInterrupted
    <3> QED
      BY <3>2, <3>3, <3>4
  <2>3. CASE status[held[w]] \notin Active
    BY <2>1, <2>3, <1>9 DEF MarkInterrupted, MayMark, jobVars
  <2> QED
    BY <2>2, <2>3
<1>10. ASSUME NEW w \in Workers, Crash(w) PROVE TypeInv'
  BY <1>10 DEF Crash, jobVars
<1>11. ASSUME NEW w \in Workers, Restart(w) PROVE TypeInv'
  BY <1>11 DEF Restart, jobVars
<1>12. ASSUME UNCHANGED vars PROVE TypeInv'
  BY <1>12 DEF vars
<1> QED
  BY <1>1, <1>2, <1>3, <1>4, <1>5, <1>6, <1>7, <1>8, <1>9, <1>10, <1>11,
     <1>12 DEF Next, WorkerStep

\* A worker has a job in hand exactly while its loop says so.
LEMMA TypeInvariance == Spec => []TypeInv
  BY TypeInit, TypeStep, PTL DEF Spec

\* Every reachable state is well typed: no interleaving of worker steps writes
\* a status outside the CHECK constraints of jobs and job_attempts.
THEOREM TypeCorrect == Spec => []TypeOK
<1>1. TypeInv => TypeOK
  BY DEF TypeInv
<1> QED
  BY <1>1, TypeInvariance, PTL

-----------------------------------------------------------------------------
(* The audit trail and the lease columns.                                  *)
(*                                                                         *)
(* AuditTrail is not inductive by itself.  A mark_* call rewrites the row  *)
(* of the current attempt, so there must be one: a worker past the lease   *)
(* transaction has a job with at least one attempt, however stale its      *)
(* lease.  And CommitLease decides from the status whether to close the    *)
(* previous attempt, so the row must still be claimable at the commit: that*)
(* is what the row lock gives, provided no two workers hold it.            *)

LeasedJobHasAttempt ==
  \A w \in Workers : pc[w] \in {"leased", "executing"} => attempts[held[w]] > 0

LockDiscipline ==
  \A w \in Workers : pc[w] = "locking" =>
    /\ Claimable(held[w])
    /\ \A v \in Workers \ {w} : pc[v] = "locking" => held[v] # held[w]

AuditInv ==
  TypeInv /\ AuditTrail /\ LeaseColumns /\ LeasedJobHasAttempt /\ LockDiscipline

\* An empty job_attempts table satisfies the invariant.
LEMMA AuditInit == Init => AuditInv
<1> SUFFICES ASSUME Init PROVE AuditInv
  OBVIOUS
<1>1. TypeInv
  BY TypeInit
<1>2. ASSUME NEW j \in Jobs PROVE JobAudited(j)
  <2>1. trail[j] = <<>> /\ attempts[j] = 0 /\ status[j] = "absent"
    BY DEF Init
  <2> QED
    BY <2>1 DEF JobAudited
<1> QED
  BY <1>1, <1>2
     DEF Init, AuditInv, AuditTrail, LeaseColumns, LeasedJobHasAttempt, LockDiscipline,
         Active

\* Rewriting the current attempt together with the job's status, as every
\* mark_* transaction does, keeps the trail in order.
LEMMA MarkKeepsTrail ==
  ASSUME TypeOK, AuditTrail, NEW j \in Jobs, attempts[j] > 0,
         NEW s \in JobStatus, NEW a \in AttemptStatus,
         s = a \/ (s = "queued" /\ a \in {"failed", "cancelled"}),
         status' = [status EXCEPT ![j] = s],
         trail' = [trail EXCEPT ![j] = UpdateCurrent(j, a)],
         attempts' = attempts
  PROVE  AuditTrail'
<1> SUFFICES ASSUME NEW k \in Jobs PROVE JobAudited(k)'
  BY DEF AuditTrail
<1>1. CASE k # j
  <2>1. JobAudited(k)
    BY DEF AuditTrail
  <2>2. status'[k] = status[k] /\ trail'[k] = trail[k] /\ attempts'[k] = attempts[k]
    BY <1>1 DEF TypeOK
  <2> QED
    BY <2>1, <2>2 DEF JobAudited
<1>2. CASE k = j
  <2> DEFINE u == UpdateCurrent(j, a)
             n == attempts[j]
  <2>1. JobAudited(j)
    BY DEF AuditTrail
  <2>2. n \in Nat /\ n > 0 /\ trail[j] \in Seq(AttemptRow) /\ Len(trail[j]) = n
    BY <2>1 DEF TypeOK, JobAudited
  <2>3. /\ Len(u) = n
        /\ \A i \in 1..n :
             /\ u[i].number = trail[j][i].number
             /\ trail[j][i].number = n => u[i].status = a
             /\ trail[j][i].number # n => u[i] = trail[j][i]
    BY <2>2, UpdateAttemptLemma DEF UpdateCurrent
  <2>4. \A i \in 1..n : trail[j][i].number = i
    BY <2>1, <2>2 DEF JobAudited
  <2>5. \A i \in 1..n : i < n => trail[j][i].status \in {"failed", "cancelled"}
    BY <2>1, <2>2 DEF JobAudited
  <2>6. trail'[j] = u /\ status'[j] = s /\ attempts'[j] = n
    BY DEF TypeOK
  <2> HIDE DEF u, n
  <2>7. \A i \in 1..n : u[i].number = i
    BY <2>3, <2>4
  <2>8. \A i \in 1..n : i < n => u[i].status \in {"failed", "cancelled"}
    BY <2>2, <2>3, <2>4, <2>5
  <2>9. u[n].status = a
    BY <2>2, <2>3, <2>4
  <2>10. AttemptMatches(s, u[n])
    BY <2>9 DEF AttemptMatches
  <2> QED
    BY <1>2, <2>2, <2>3, <2>6, <2>7, <2>8, <2>10 DEF JobAudited, AttemptMatches
<1> QED
  BY <1>1, <1>2

\* The commit of a lease closes the attempt whose lease ran out, if there is
\* one, and opens the next.
LEMMA CommitKeepsTrail ==
  ASSUME AuditInv, NEW w \in Workers, CommitLease(w)
  PROVE  AuditTrail'
<1> SUFFICES ASSUME NEW k \in Jobs PROVE JobAudited(k)'
  BY DEF AuditTrail
<1> DEFINE j == held[w]
           n == attempts[j]
           closed == IF status[j] \in Active /\ lease[j] = "expired"
                     THEN UpdateCurrent(j, "cancelled") ELSE trail[j]
           row == [number |-> n + 1, worker |-> w, status |-> "leased"]
<1>1. j \in Jobs /\ Claimable(j)
  BY DEF CommitLease, AuditInv, TypeInv, HoldsJob, LockDiscipline
<1>2. /\ status' = [status EXCEPT ![j] = "leased"]
      /\ attempts' = [attempts EXCEPT ![j] = n + 1]
      /\ trail' = [trail EXCEPT ![j] = Append(closed, row)]
  BY DEF CommitLease
<1>3. JobAudited(k) /\ JobAudited(j)
  BY <1>1 DEF AuditInv, AuditTrail
<1>4. CASE k # j
  <2>1. status'[k] = status[k] /\ trail'[k] = trail[k] /\ attempts'[k] = attempts[k]
    BY <1>1, <1>2, <1>4 DEF AuditInv, TypeInv, TypeOK
  <2> QED
    BY <1>3, <2>1 DEF JobAudited
<1>5. CASE k = j
  <2>1. n \in Nat /\ trail[j] \in Seq(AttemptRow) /\ Len(trail[j]) = n
    BY <1>1, <1>3 DEF AuditInv, TypeInv, TypeOK, JobAudited
  <2>2. \A i \in 1..n : /\ trail[j][i].number = i
                        /\ i < n => trail[j][i].status \in {"failed", "cancelled"}
    BY <1>3, <2>1 DEF JobAudited
  <2>3. /\ closed \in Seq(AttemptRow)
        /\ Len(closed) = n
        /\ \A i \in 1..n : /\ closed[i].number = i
                            /\ closed[i].status \in {"failed", "cancelled"}
    <3>1. CASE status[j] \in Active /\ lease[j] = "expired"
      <4>1. closed = UpdateAttempt(trail[j], n, "cancelled")
        BY <3>1 DEF UpdateCurrent
      <4>2. "cancelled" \in AttemptStatus
        BY DEF AttemptStatus
      <4>3. /\ closed \in Seq(AttemptRow)
            /\ Len(closed) = n
            /\ \A i \in 1..n :
                 /\ closed[i].number = trail[j][i].number
                 /\ trail[j][i].number = n => closed[i].status = "cancelled"
                 /\ trail[j][i].number # n => closed[i] = trail[j][i]
        <5> DEFINE u == UpdateAttempt(trail[j], n, "cancelled")
        <5>1. /\ u \in Seq(AttemptRow)
              /\ Len(u) = Len(trail[j])
              /\ \A i \in 1..Len(trail[j]) :
                   /\ u[i].number = trail[j][i].number
                   /\ trail[j][i].number = n => u[i].status = "cancelled"
                   /\ trail[j][i].number # n => u[i] = trail[j][i]
          <6> HIDE DEF n, j
          <6> QED BY <2>1, <4>2, UpdateAttemptLemma
        <5>2. closed = u
          BY <4>1
        <5> HIDE DEF closed, u, n, j
        <5> QED
          BY <2>1, <5>1, <5>2
      <4>4. ASSUME NEW i \in 1..n
            PROVE  closed[i].number = i /\ closed[i].status \in {"failed", "cancelled"}
        <5> HIDE DEF closed, j, n
        <5>1. i = n \/ i < n
          BY <2>1
        <5> QED
          BY <5>1, <2>1, <2>2, <4>3
      <4> QED
        BY <4>3, <4>4
    <3>2. CASE ~(status[j] \in Active /\ lease[j] = "expired")
      <4>1. closed = trail[j] /\ status[j] = "queued"
        BY <1>1, <3>2 DEF Claimable
      <4>2. n # 0 => trail[j][n].status \in {"failed", "cancelled"}
        <5> SUFFICES ASSUME n # 0
                     PROVE  trail[j][n].status \in {"failed", "cancelled"}
          OBVIOUS
        <5>1. trail[j][n] \in AttemptRow
          BY <2>1
        <5>2. trail[j][n].status # "queued"
          BY <5>1 DEF AttemptRow, AttemptStatus
        <5> QED
          BY <1>3, <4>1, <5>2 DEF JobAudited, AttemptMatches
      <4>3. ASSUME NEW i \in 1..n
            PROVE  closed[i].number = i /\ closed[i].status \in {"failed", "cancelled"}
        <5> HIDE DEF closed, j, n
        <5>1. i = n \/ i < n
          BY <2>1
        <5> QED
          BY <5>1, <2>1, <2>2, <4>1, <4>2
      <4> QED
        BY <2>1, <4>1, <4>3
    <3> QED
      BY <3>1, <3>2
  <2>4. row \in AttemptRow
    BY <2>1 DEF AttemptRow, AttemptStatus
  <2>5. row.number = n + 1 /\ row.status = "leased"
    OBVIOUS
  <2>6. trail'[j] = Append(closed, row) /\ status'[j] = "leased" /\ attempts'[j] = n + 1
    BY <1>1, <1>2 DEF AuditInv, TypeInv, TypeOK
  <2> HIDE DEF closed, row, n
  <2>7. /\ Len(trail'[j]) = n + 1
        /\ \A i \in 1..n : trail'[j][i] = closed[i]
        /\ trail'[j][n + 1] = row
    BY <2>1, <2>3, <2>4, <2>6
  <2>8. AttemptMatches(status'[j], trail'[j][n + 1])
    BY <2>5, <2>6, <2>7 DEF AttemptMatches
  <2> HIDE DEF j
  <2> QED
    BY <1>5, <2>1, <2>3, <2>5, <2>6, <2>7, <2>8 DEF JobAudited, AttemptMatches
<1> QED
  BY <1>4, <1>5

\* A mark_* transaction touches one job, whose row nobody has locked, and
\* releases or keeps the worker; the rows locked by others stay claimable.
LEMMA MarkKeepsLocks ==
  ASSUME AuditInv, NEW w \in Workers, pc[w] \in {"leased", "executing"},
         ~RowLocked(held[w]),
         NEW p \in {"first", "down", "executing"}, pc' = [pc EXCEPT ![w] = p],
         \A v \in Workers \ {w} : held'[v] = held[v],
         \A k \in Jobs \ {held[w]} : status'[k] = status[k] /\ lease'[k] = lease[k]
  PROVE  LockDiscipline'
<1> SUFFICES ASSUME NEW v \in Workers, pc'[v] = "locking"
             PROVE  /\ Claimable(held[v])'
                    /\ \A u \in Workers \ {v} :
                         pc'[u] = "locking" => held'[u] # held'[v]
  BY DEF LockDiscipline
<1>1. \A u \in Workers : pc'[u] = "locking" => u # w /\ pc[u] = "locking" /\ held'[u] = held[u]
  BY DEF AuditInv, TypeInv, TypeOK
<1>2. held[v] \in Jobs \ {held[w]}
  BY <1>1 DEF AuditInv, TypeInv, HoldsJob, RowLocked
<1>3. Claimable(held[v])
  BY <1>1 DEF AuditInv, LockDiscipline
<1>4. Claimable(held[v])'
  BY <1>1, <1>2, <1>3 DEF Claimable
<1> QED
  BY <1>1, <1>4 DEF AuditInv, LockDiscipline

\* What ReleaseJob does to the columns the invariant speaks of.
LEMMA ReleaseKeepsAudit ==
  ASSUME AuditInv, NEW j \in Jobs, attempts[j] > 0,
         NEW s \in JobStatus \ Active, NEW a \in AttemptStatus,
         s = a \/ (s = "queued" /\ a \in {"failed", "cancelled"}),
         ReleaseJob(j, s, a)
  PROVE  /\ AuditTrail' /\ LeaseColumns' /\ attempts' = attempts
         /\ \A k \in Jobs \ {j} : status'[k] = status[k] /\ lease'[k] = lease[k]
<1>1. AuditTrail'
  BY MarkKeepsTrail DEF ReleaseJob, AuditInv, TypeInv
<1>2. LeaseColumns'
  BY DEF ReleaseJob, AuditInv, TypeInv, TypeOK, LeaseColumns, Active
<1> QED
  BY <1>1, <1>2 DEF ReleaseJob, AuditInv, TypeInv, TypeOK

\* Every transaction keeps the trail, the lease columns and the row locks
\* in order, also the mark_* call of a worker whose lease is long gone.
LEMMA AuditStep == AuditInv /\ [Next]_vars => AuditInv'
<1> SUFFICES ASSUME AuditInv, [Next]_vars PROVE AuditInv'
  OBVIOUS
<1>a. TypeInv' /\ TypeInv
  BY TypeStep DEF AuditInv
<1>b. \A w \in Workers : pc[w] \in {"leased", "executing"} =>
                          held[w] \in Jobs /\ attempts[held[w]] > 0
  BY DEF AuditInv, TypeInv, HoldsJob, LeasedJobHasAttempt
<1> USE DEF AuditInv
<1>1. ASSUME NEW j \in Jobs, Enqueue(j) PROVE AuditInv'
  <2>1. /\ status' = [status EXCEPT ![j] = "queued"] /\ status[j] = "absent"
        /\ UNCHANGED <<attempts, leasedBy, lease, trail, pc, held>>
    BY <1>1 DEF Enqueue
  <2>2. AuditTrail'
    <3> SUFFICES ASSUME NEW k \in Jobs PROVE JobAudited(k)'
      BY DEF AuditTrail
    <3>1. JobAudited(k)
      BY DEF AuditTrail
    <3>2. CASE k # j
      BY <3>1, <3>2, <2>1 DEF JobAudited, TypeInv, TypeOK
    <3>3. CASE k = j
      <4>1. attempts[j] = 0
        <5> SUFFICES ASSUME attempts[j] # 0 PROVE FALSE
          OBVIOUS
        <5>1. trail[j][attempts[j]] \in AttemptRow
          BY <3>1, <3>3 DEF JobAudited, TypeInv, TypeOK
        <5>2. trail[j][attempts[j]].status # "absent"
          BY <5>1 DEF AttemptRow, AttemptStatus
        <5> QED
          BY <3>1, <3>3, <2>1, <5>2 DEF JobAudited, AttemptMatches
      <4>2. status'[j] = "queued"
        BY <2>1 DEF TypeInv, TypeOK
      <4> QED
        BY <3>1, <3>3, <4>1, <4>2, <2>1 DEF JobAudited
    <3> QED
      BY <3>2, <3>3
  <2>3. LeaseColumns' /\ LeasedJobHasAttempt'
    BY <2>1 DEF LeaseColumns, LeasedJobHasAttempt, TypeInv, TypeOK, Active
  <2>4. LockDiscipline'
    BY <2>1 DEF LockDiscipline, Claimable, TypeInv, TypeOK, HoldsJob
  <2> QED
    BY <1>a, <2>2, <2>3, <2>4
<1>2. ASSUME NEW j \in Jobs, LeaseExpires(j) PROVE AuditInv'
  <2>1. /\ lease' = [lease EXCEPT ![j] = "expired"] /\ lease[j] = "live"
        /\ UNCHANGED <<status, attempts, leasedBy, trail, pc, held>>
    BY <1>2 DEF LeaseExpires
  <2>2. AuditTrail'
    BY <2>1 DEF AuditTrail, JobAudited, AttemptMatches
  <2>3. LeaseColumns' /\ LeasedJobHasAttempt'
    BY <2>1 DEF LeaseColumns, LeasedJobHasAttempt, TypeInv, TypeOK
  <2>4. LockDiscipline'
    BY <2>1 DEF LockDiscipline, Claimable, TypeInv, TypeOK, HoldsJob
  <2> QED
    BY <1>a, <2>2, <2>3, <2>4
<1>3. ASSUME NEW w \in Workers, LockNextCandidate(w) PROVE AuditInv'
  <2>1. PICK j \in Candidates(w) : held' = [held EXCEPT ![w] = j]
    BY <1>3 DEF LockNextCandidate
  <2>2. /\ pc' = [pc EXCEPT ![w] = "locking"]
        /\ UNCHANGED <<status, attempts, leasedBy, lease, trail>>
    BY <1>3 DEF LockNextCandidate, jobVars
  <2>3. Claimable(j) /\ ~RowLocked(j)
    BY DEF Candidates
  <2>4. AuditTrail' /\ LeaseColumns'
    BY <2>2 DEF AuditTrail, JobAudited, AttemptMatches, LeaseColumns
  <2>5. LeasedJobHasAttempt'
    BY <2>1, <2>2 DEF LeasedJobHasAttempt, TypeInv, TypeOK
  <2>6. LockDiscipline'
    BY <2>1, <2>2, <2>3 DEF LockDiscipline, Claimable, RowLocked, TypeInv, TypeOK
  <2> QED
    BY <1>a, <2>4, <2>5, <2>6
<1>4. ASSUME NEW w \in Workers, NoCandidate(w) PROVE AuditInv'
  <2>1. /\ \E p \in {"first", "second", "down"} : pc' = [pc EXCEPT ![w] = p]
        /\ UNCHANGED <<status, attempts, leasedBy, lease, trail, held>>
    BY <1>4 DEF NoCandidate, jobVars
  <2>2. AuditTrail' /\ LeaseColumns'
    BY <2>1 DEF AuditTrail, JobAudited, AttemptMatches, LeaseColumns
  <2> QED
    BY <1>a, <2>1, <2>2
       DEF LeasedJobHasAttempt, LockDiscipline, Claimable, TypeInv, TypeOK
<1>5. ASSUME NEW w \in Workers, CommitLease(w) PROVE AuditInv'
  <2> DEFINE j == held[w]
  <2>1. /\ j \in Jobs /\ pc[w] = "locking"
        /\ status' = [status EXCEPT ![j] = "leased"]
        /\ leasedBy' = [leasedBy EXCEPT ![j] = w]
        /\ lease' = [lease EXCEPT ![j] = "live"]
        /\ attempts' = [attempts EXCEPT ![j] = @ + 1]
        /\ pc' = [pc EXCEPT ![w] = "leased"]
        /\ held' = held
    BY <1>5 DEF CommitLease, TypeInv, HoldsJob
  <2>2. LeaseColumns'
    BY <2>1, JobQueueAssumption DEF LeaseColumns, Active, TypeInv, TypeOK
  <2>3. LeasedJobHasAttempt'
    BY <2>1 DEF LeasedJobHasAttempt, TypeInv, TypeOK, HoldsJob
  <2>4. LockDiscipline'
    BY <2>1 DEF LockDiscipline, Claimable, TypeInv, TypeOK, HoldsJob
  <2> QED
    BY <1>a, <1>5, <2>2, <2>3, <2>4, CommitKeepsTrail
<1>6. ASSUME NEW w \in Workers, MarkRunning(w) PROVE AuditInv'
  <2> DEFINE j == held[w]
  <2>1. /\ pc[w] = "leased" /\ ~RowLocked(j)
        /\ status' = [status EXCEPT ![j] = "running"]
        /\ trail' = [trail EXCEPT ![j] = UpdateCurrent(j, "running")]
        /\ pc' = [pc EXCEPT ![w] = "executing"]
        /\ UNCHANGED <<attempts, leasedBy, lease, held>>
    BY <1>6 DEF MarkRunning, MayMark
  <2>2. j \in Jobs /\ attempts[j] > 0
    BY <1>b, <2>1
  <2>3. AuditTrail'
    BY <2>1, <2>2, MarkKeepsTrail
       DEF TypeInv, JobStatus, Active, AttemptStatus
  <2>4. LeaseColumns'
    BY <2>1, <2>2 DEF LeaseColumns, Active, TypeInv, TypeOK
  <2>5. LeasedJobHasAttempt'
    BY <2>1, <2>2 DEF LeasedJobHasAttempt, TypeInv, TypeOK
  <2>6. LockDiscipline'
    BY <2>1, <2>2, MarkKeepsLocks DEF TypeInv, TypeOK
  <2> QED
    BY <1>a, <2>3, <2>4, <2>5, <2>6
<1>7. ASSUME NEW w \in Workers, MayMark(w, "executing"),
             NEW p \in {"first", "down"},
             pc' = [pc EXCEPT ![w] = p],
             held' = [held EXCEPT ![w] = NoJob],
             NEW s \in JobStatus \ Active, NEW a \in AttemptStatus,
             s = a \/ (s = "queued" /\ a \in {"failed", "cancelled"}),
             ReleaseJob(held[w], s, a)
      PROVE  AuditInv'
  <2>1. held[w] \in Jobs /\ attempts[held[w]] > 0 /\ ~RowLocked(held[w])
    BY <1>b, <1>7 DEF MayMark
  <2>2. /\ AuditTrail' /\ LeaseColumns' /\ attempts' = attempts
        /\ \A k \in Jobs \ {held[w]} : status'[k] = status[k] /\ lease'[k] = lease[k]
    BY <1>7, <2>1, ReleaseKeepsAudit
  <2>3. LeasedJobHasAttempt'
    BY <1>7, <2>2 DEF LeasedJobHasAttempt, TypeInv, TypeOK
  <2>4. LockDiscipline'
    <3>1. \A v \in Workers \ {w} : held'[v] = held[v]
      BY <1>7 DEF TypeInv, TypeOK
    <3> QED
      BY <1>7, <2>1, <2>2, <3>1, MarkKeepsLocks DEF MayMark
  <2> QED
    BY <1>a, <2>2, <2>3, <2>4
<1>8. ASSUME NEW w \in Workers, MarkSucceeded(w) PROVE AuditInv'
  BY <1>7, <1>8
     DEF MarkSucceeded, BackToLoop, JobStatus, Active, Settled, AttemptStatus
<1>9. ASSUME NEW w \in Workers, MarkFailed(w) PROVE AuditInv'
  BY <1>7, <1>9
     DEF MarkFailed, BackToLoop, JobStatus, Active, Settled, AttemptStatus
<1>10. ASSUME NEW w \in Workers, MarkInterrupted(w) PROVE AuditInv'
  <2>1. /\ MayMark(w, "executing")
        /\ pc' = [pc EXCEPT ![w] = "down"]
        /\ held' = [held EXCEPT ![w] = NoJob]
    BY <1>10 DEF MarkInterrupted
  <2>2. CASE status[held[w]] \in Active
    <3>1. ReleaseJob(held[w], "queued", "cancelled")
      BY <1>10, <2>2 DEF MarkInterrupted
    <3> QED
      BY <1>7, <2>1, <3>1 DEF JobStatus, Active, Settled, AttemptStatus
  <2>3. CASE status[held[w]] \notin Active
    <3>1. UNCHANGED <<status, attempts, leasedBy, lease, trail>>
      BY <1>10, <2>3 DEF MarkInterrupted, jobVars
    <3>2. AuditTrail' /\ LeaseColumns'
      BY <3>1 DEF AuditTrail, JobAudited, AttemptMatches, LeaseColumns
    <3> QED
      BY <1>a, <2>1, <3>1, <3>2
         DEF LeasedJobHasAttempt, LockDiscipline, Claimable, TypeInv, TypeOK
  <2> QED
    BY <2>2, <2>3
<1>11. ASSUME NEW w \in Workers, Crash(w) \/ Restart(w) PROVE AuditInv'
  <2>1. /\ UNCHANGED <<status, attempts, leasedBy, lease, trail>>
        /\ \E p \in {"first", "down"} : pc' = [pc EXCEPT ![w] = p]
        /\ held' = [held EXCEPT ![w] = NoJob] \/ held' = held
    BY <1>11 DEF Crash, Restart, jobVars
  <2>2. AuditTrail' /\ LeaseColumns'
    BY <2>1 DEF AuditTrail, JobAudited, AttemptMatches, LeaseColumns
  <2> QED
    BY <1>a, <2>1, <2>2
       DEF LeasedJobHasAttempt, LockDiscipline, Claimable, TypeInv, TypeOK
<1>12. ASSUME UNCHANGED vars PROVE AuditInv'
  BY <1>a, <1>12
     DEF vars, AuditTrail, JobAudited, AttemptMatches, LeaseColumns,
         LeasedJobHasAttempt, LockDiscipline, Claimable
<1> QED
  BY <1>1, <1>2, <1>3, <1>4, <1>5, <1>6, <1>8, <1>9, <1>10, <1>11, <1>12
     DEF Next, WorkerStep

\* The invariant behind the audit theorems holds in every reachable state.
LEMMA AuditInvariance == Spec => []AuditInv
  BY AuditInit, AuditStep, PTL DEF Spec

\* In every behaviour, with any number of workers, crashes, overrun leases
\* and late mark_* calls, job_attempts has one row per attempt, in order,
\* the superseded ones closed, the current one in agreement with the job.
THEOREM AuditTrailCorrect == Spec => []AuditTrail
  BY AuditInvariance, PTL DEF AuditInv

\* In every behaviour a leased job can be reclaimed and a job nobody works
\* on carries no lease.
THEOREM LeaseColumnsCorrect == Spec => []LeaseColumns
  BY AuditInvariance, PTL DEF AuditInv

-----------------------------------------------------------------------------
(* Superseded attempts *)

FrozenStep ==
  \A j \in Jobs : \A i \in 1..Len(trail[j]) :
    i < attempts[j] => trail'[j][i] = trail[j][i]

\* A transaction that rewrites the current attempt of one job freezes the rest.
LEMMA UpdateIsFrozenStep ==
  ASSUME AuditInv, NEW j \in Jobs, NEW a \in AttemptStatus,
         trail' = [trail EXCEPT ![j] = UpdateCurrent(j, a)]
  PROVE  FrozenStep
<1> SUFFICES ASSUME NEW k \in Jobs, NEW i \in 1..Len(trail[k]), i < attempts[k]
             PROVE  trail'[k][i] = trail[k][i]
  BY DEF FrozenStep
<1>1. CASE k # j
  BY <1>1 DEF AuditInv, TypeInv, TypeOK
<1>2. CASE k = j
  <2>1. trail'[j] = UpdateAttempt(trail[j], attempts[j], a)
    BY DEF AuditInv, TypeInv, TypeOK, UpdateCurrent
  <2>2. attempts[j] \in Nat /\ trail[j] \in Seq(AttemptRow)
    BY DEF AuditInv, TypeInv, TypeOK
  <2>3. trail[j][i].number = i
    BY <1>2 DEF AuditInv, AuditTrail, JobAudited
  <2>4. trail[j][i].number # attempts[j] =>
          UpdateAttempt(trail[j], attempts[j], a)[i] = trail[j][i]
    BY <1>2, <2>2, UpdateAttemptLemma
  <2> QED
    BY <1>2, <2>1, <2>2, <2>3, <2>4
<1> QED
  BY <1>1, <1>2

\* No transaction rewrites the row of a superseded attempt.
LEMMA FrozenNext == AuditInv /\ [Next]_vars => FrozenStep
<1> SUFFICES ASSUME AuditInv, [Next]_vars PROVE FrozenStep
  OBVIOUS
<1>1. CASE trail' = trail
  BY <1>1 DEF FrozenStep
<1>2. ASSUME NEW w \in Workers, CommitLease(w) PROVE FrozenStep
  <2> DEFINE j == held[w]
             closed == IF status[j] \in Active /\ lease[j] = "expired"
                       THEN UpdateCurrent(j, "cancelled") ELSE trail[j]
             row == [number |-> attempts[j] + 1, worker |-> w,
                     status |-> "leased"]
  <2>1. j \in Jobs
    BY <1>2 DEF CommitLease, AuditInv, TypeInv, HoldsJob
  <2>2. trail' = [trail EXCEPT ![j] = Append(closed, row)]
    BY <1>2 DEF CommitLease
  <2>3. attempts[j] \in Nat /\ trail[j] \in Seq(AttemptRow)
    BY <2>1 DEF AuditInv, TypeInv, TypeOK
  <2>4. /\ closed \in Seq(AttemptRow) /\ Len(closed) = Len(trail[j])
        /\ \A i \in 1..Len(trail[j]) :
             trail[j][i].number # attempts[j] => closed[i] = trail[j][i]
    <3>1. "cancelled" \in AttemptStatus
      BY DEF AttemptStatus
    <3> DEFINE u == UpdateAttempt(trail[j], attempts[j], "cancelled")
    <3>2. /\ u \in Seq(AttemptRow) /\ Len(u) = Len(trail[j])
          /\ \A i \in 1..Len(trail[j]) :
               trail[j][i].number # attempts[j] => u[i] = trail[j][i]
      <4> HIDE DEF j
      <4> QED BY <2>3, <3>1, UpdateAttemptLemma
    <3>3. closed = u \/ closed = trail[j]
      BY DEF UpdateCurrent
    <3> HIDE DEF u, closed, j
    <3> QED
      BY <2>3, <3>2, <3>3
  <2>5. \A i \in 1..Len(trail[j]) : trail[j][i].number = i
    BY <2>1 DEF AuditInv, AuditTrail, JobAudited
  <2>6. /\ trail'[j] = Append(closed, row)
        /\ \A k \in Jobs \ {j} : trail'[k] = trail[k]
    BY <2>1, <2>2 DEF AuditInv, TypeInv, TypeOK
  <2> HIDE DEF closed, row, j
  <2>7. \A i \in 1..Len(trail[j]) : trail'[j][i] = closed[i]
    BY <2>3, <2>4, <2>6
  <2>8. \A i \in 1..Len(trail[j]) :
          i < attempts[j] => trail'[j][i] = trail[j][i]
    BY <2>3, <2>4, <2>5, <2>7
  <2> QED
    BY <2>1, <2>6, <2>8 DEF FrozenStep
<1>3. ASSUME NEW w \in Workers, MarkRunning(w) PROVE FrozenStep
  <2>1. /\ held[w] \in Jobs
        /\ trail' = [trail EXCEPT ![held[w]] = UpdateCurrent(held[w], "running")]
    BY <1>3 DEF MarkRunning, MayMark, AuditInv, TypeInv, HoldsJob
  <2> QED
    BY <2>1, UpdateIsFrozenStep DEF AttemptStatus
<1>4. ASSUME NEW w \in Workers, pc[w] = "executing", NEW s,
             NEW a \in AttemptStatus, ReleaseJob(held[w], s, a)
      PROVE  FrozenStep
  <2>1. held[w] \in Jobs
    BY <1>4 DEF AuditInv, TypeInv, HoldsJob
  <2> QED
    BY <1>4, <2>1, UpdateIsFrozenStep DEF ReleaseJob
<1>5. ASSUME NEW w \in Workers, MarkSucceeded(w) \/ MarkFailed(w)
      PROVE  FrozenStep
  BY <1>4, <1>5 DEF MarkSucceeded, MarkFailed, MayMark, AttemptStatus
<1>6. ASSUME NEW w \in Workers, MarkInterrupted(w) PROVE FrozenStep
  BY <1>1, <1>4, <1>6 DEF MarkInterrupted, MayMark, AttemptStatus, jobVars
<1> QED
  BY <1>1, <1>2, <1>3, <1>5, <1>6
     DEF Next, WorkerStep, Enqueue, LeaseExpires, LockNextCandidate,
         NoCandidate, Crash, Restart, jobVars, vars

\* No step of any worker, however late, rewrites a superseded attempt.
THEOREM SupersededFrozen == Spec => SupersededAttemptsFrozen
<1>1. AuditInv /\ [Next]_vars => [FrozenStep]_vars
  BY FrozenNext
<1> QED
  BY <1>1, AuditInvariance, PTL
     DEF Spec, SupersededAttemptsFrozen, FrozenStep

-----------------------------------------------------------------------------
(* The retry budget.  A claimable job must still have an attempt in hand,  *)
(* since leasing it again spends one.                                      *)

Budget(j) == MaxAttempts[j] + lapses[j] + interrupts[j]

BudgetInv ==
  \A j \in Jobs : /\ attempts[j] <= Budget(j)
                  /\ Claimable(j) => attempts[j] < Budget(j)

\* Every action keeps the attempts within the budget that max_attempts,
\* expiries and interruptions grant.
LEMMA BudgetStep == AuditInv /\ BudgetInv /\ [Next]_vars => BudgetInv'
<1> SUFFICES ASSUME AuditInv, BudgetInv, [Next]_vars PROVE BudgetInv'
  OBVIOUS
<1>a. TypeInv /\ TypeInv'
  BY TypeStep DEF AuditInv
<1>b. \A j \in Jobs : MaxAttempts[j] \in Nat \ {0}
  BY JobQueueAssumption
<1> USE <1>a, <1>b
    DEF BudgetInv, Budget, Claimable, TypeInv, TypeOK, Active
<1>1. ASSUME NEW j \in Jobs, Enqueue(j) PROVE BudgetInv'
  <2>1. attempts[j] = 0
    <3> SUFFICES ASSUME attempts[j] # 0 PROVE FALSE
      OBVIOUS
    <3>1. JobAudited(j)
      BY DEF AuditInv, AuditTrail
    <3>2. trail[j][attempts[j]] \in AttemptRow
      BY <3>1 DEF JobAudited
    <3>3. trail[j][attempts[j]].status # "absent"
      BY <3>2 DEF AttemptRow, AttemptStatus
    <3> QED
      BY <1>1, <3>1, <3>3 DEF JobAudited, AttemptMatches, Enqueue
  <2> QED
    BY <1>1, <2>1 DEF Enqueue
<1>2. ASSUME NEW j \in Jobs, LeaseExpires(j) PROVE BudgetInv'
  BY <1>2 DEF LeaseExpires
<1>3. ASSUME NEW w \in Workers, CommitLease(w) PROVE BudgetInv'
  <2>1. held[w] \in Jobs /\ Claimable(held[w])
    BY <1>3 DEF CommitLease, AuditInv, LockDiscipline, HoldsJob
  <2> QED
    BY <1>3, <2>1 DEF CommitLease
<1>4. ASSUME NEW w \in Workers, MarkRunning(w) PROVE BudgetInv'
  <2>1. held[w] \in Jobs
    BY <1>4 DEF MarkRunning, MayMark, HoldsJob
  <2>2. lease[held[w]] = "expired" => Claimable(held[w])
    BY <2>1 DEF AuditInv, LeaseColumns
  <2> QED
    BY <1>4, <2>1, <2>2 DEF MarkRunning
<1>5. ASSUME NEW w \in Workers, MarkSucceeded(w) PROVE BudgetInv'
  BY <1>5 DEF MarkSucceeded, MayMark, HoldsJob, ReleaseJob
<1>6. ASSUME NEW w \in Workers, MarkFailed(w) PROVE BudgetInv'
  <2>1. held[w] \in Jobs /\ UNCHANGED <<attempts, lapses, interrupts>>
    BY <1>6 DEF MarkFailed, MayMark, HoldsJob, ReleaseJob
  <2>2. \A k \in Jobs \ {held[w]} : status'[k] = status[k] /\ lease'[k] = lease[k]
    BY <1>6, <2>1 DEF MarkFailed, ReleaseJob
  <2>3. CASE attempts[held[w]] >= MaxAttempts[held[w]]
    <3>1. status'[held[w]] = "dead_lettered"
      BY <1>6, <2>1, <2>3 DEF MarkFailed, ReleaseJob, Exhausted
    <3> QED
      BY <2>1, <2>2, <3>1
  <2>4. CASE attempts[held[w]] < MaxAttempts[held[w]]
    <3>1. attempts[held[w]] < Budget(held[w])
      BY <2>1, <2>4
    <3> QED
      BY <2>1, <2>2, <3>1
  <2> QED
    BY <2>1, <2>3, <2>4
<1>7. ASSUME NEW w \in Workers, MarkInterrupted(w) PROVE BudgetInv'
  <2>1. held[w] \in Jobs /\ lapses' = lapses
    BY <1>7 DEF MarkInterrupted, MayMark, HoldsJob
  <2>2. CASE status[held[w]] \in Active
    <3>1. /\ interrupts' = [interrupts EXCEPT ![held[w]] = @ + 1]
          /\ ReleaseJob(held[w], "queued", "cancelled")
      BY <1>7, <2>2 DEF MarkInterrupted
    <3>2. attempts[held[w]] < MaxAttempts[held[w]] + lapses[held[w]]
                              + interrupts'[held[w]]
      <4>1. interrupts'[held[w]] = interrupts[held[w]] + 1
        BY <2>1, <3>1
      <4>2. attempts[held[w]] <= Budget(held[w])
        BY <2>1
      <4>3. /\ attempts[held[w]] \in Nat /\ MaxAttempts[held[w]] \in Nat
            /\ lapses[held[w]] \in Nat /\ interrupts[held[w]] \in Nat
        BY <2>1
      <4> QED
        BY <4>1, <4>2, <4>3
    <3>3. \A k \in Jobs \ {held[w]} :
            /\ status'[k] = status[k] /\ lease'[k] = lease[k]
            /\ interrupts'[k] = interrupts[k]
      BY <2>1, <3>1 DEF ReleaseJob
    <3>4. attempts' = attempts
      BY <3>1 DEF ReleaseJob
    <3>5. ASSUME NEW k \in Jobs
          PROVE  /\ attempts'[k] <= MaxAttempts[k] + lapses'[k] + interrupts'[k]
                 /\ Claimable(k)' =>
                      attempts'[k] < MaxAttempts[k] + lapses'[k] + interrupts'[k]
      <4>1. CASE k = held[w]
        BY <2>1, <3>2, <3>4, <4>1
      <4>2. CASE k # held[w]
        BY <2>1, <3>3, <3>4, <4>2
      <4> QED
        BY <4>1, <4>2
    <3> QED
      BY <3>5
  <2>3. CASE status[held[w]] \notin Active
    BY <1>7, <2>1, <2>3 DEF MarkInterrupted, jobVars
  <2> QED
    BY <2>2, <2>3
<1>8. CASE UNCHANGED <<status, attempts, lease, lapses, interrupts>>
  BY <1>8
<1> QED
  BY <1>1, <1>2, <1>3, <1>4, <1>5, <1>6, <1>7, <1>8
     DEF Next, WorkerStep, LockNextCandidate, NoCandidate, Crash, Restart,
         jobVars, vars

\* mark_failed dead-letters in time: attempts beyond max_attempts are paid
\* for by leases that ran out and by shutdowns, in every behaviour.
THEOREM AttemptsBoundedCorrect == Spec => []AttemptsBounded
<1>1. Init => BudgetInv
  <2> SUFFICES ASSUME Init, NEW j \in Jobs
               PROVE  attempts[j] <= Budget(j) /\ attempts[j] < Budget(j)
    BY DEF BudgetInv
  <2>1. MaxAttempts[j] \in Nat \ {0}
    BY JobQueueAssumption
  <2>2. attempts[j] = 0 /\ lapses[j] = 0 /\ interrupts[j] = 0
    BY DEF Init
  <2> QED
    BY <2>1, <2>2 DEF Budget
<1>2. BudgetInv => AttemptsBounded
  BY DEF BudgetInv, Budget, AttemptsBounded
<1> QED
  BY <1>1, <1>2, BudgetStep, AuditInvariance, PTL DEF Spec

-----------------------------------------------------------------------------
(* Leases that outlive all work (MaxOverruns = 0).  The mark_* calls check *)
(* nothing, so exclusive work rests on the lease alone: the worker that    *)
(* has a job past the lease transaction is its lessee, the lease is live   *)
(* and the job active.                                                     *)

LesseeInv ==
  \A w \in Workers : pc[w] \in {"leased", "executing"} =>
    /\ leasedBy[held[w]] = w
    /\ lease[held[w]] = "live"
    /\ status[held[w]] \in Active

\* Without overruns, every action keeps the worker with the job in hand the
\* one that jobs.leased_by names.
LEMMA LesseeStep ==
  ASSUME MaxOverruns = 0
  PROVE  AuditInv /\ LesseeInv /\ [Next]_vars => LesseeInv'
<1> SUFFICES ASSUME AuditInv, LesseeInv, [Next]_vars PROVE LesseeInv'
  OBVIOUS
<1>a. \A w \in Workers : pc[w] \in {"locking", "leased", "executing"} <=> held[w] \in Jobs
  BY DEF AuditInv, TypeInv, HoldsJob
<1>b. \A w, v \in Workers :
        ( /\ pc[w] \in {"leased", "executing"} /\ pc[v] \in {"leased", "executing"}
          /\ held[w] = held[v] ) => w = v
  BY DEF LesseeInv
<1> USE DEF LesseeInv, TypeInv, TypeOK, Active
<1>1. ASSUME NEW j \in Jobs, Enqueue(j) PROVE LesseeInv'
  BY <1>1, <1>a DEF Enqueue, AuditInv
<1>2. ASSUME NEW j \in Jobs, LeaseExpires(j) PROVE LesseeInv'
  <2>1. \A w \in Workers : held[w] # j
    BY <1>2 DEF LeaseExpires, AuditInv
  <2> QED
    BY <1>2, <1>a, <2>1 DEF LeaseExpires, AuditInv
<1>3. ASSUME NEW w \in Workers, LockNextCandidate(w) PROVE LesseeInv'
  BY <1>3 DEF LockNextCandidate, AuditInv, jobVars
<1>4. ASSUME NEW w \in Workers, NoCandidate(w) PROVE LesseeInv'
  BY <1>4 DEF NoCandidate, AuditInv, jobVars
<1>5. ASSUME NEW w \in Workers, CommitLease(w) PROVE LesseeInv'
  <2>1. held[w] \in Jobs /\ Claimable(held[w])
    BY <1>5, <1>a DEF CommitLease, AuditInv, LockDiscipline
  <2>2. \A v \in Workers : pc[v] \in {"leased", "executing"} => held[v] # held[w]
    BY <2>1 DEF Claimable
  <2> QED
    BY <1>5, <1>a, <2>1, <2>2 DEF CommitLease, AuditInv
<1>6. ASSUME NEW w \in Workers, MarkRunning(w) PROVE LesseeInv'
  BY <1>6, <1>a DEF MarkRunning, MayMark, AuditInv
<1>7. ASSUME NEW w \in Workers, pc[w] = "executing", NEW s, NEW a,
             ReleaseJob(held[w], s, a), NEW p \in {"first", "down"},
             pc' = [pc EXCEPT ![w] = p], held' = [held EXCEPT ![w] = NoJob]
      PROVE  LesseeInv'
  BY <1>7, <1>a, <1>b DEF ReleaseJob, AuditInv
<1>8. ASSUME NEW w \in Workers, MarkSucceeded(w) \/ MarkFailed(w)
      PROVE  LesseeInv'
  BY <1>7, <1>8 DEF MarkSucceeded, MarkFailed, MayMark, BackToLoop
<1>9. ASSUME NEW w \in Workers, MarkInterrupted(w) PROVE LesseeInv'
  <2>1. /\ pc[w] = "executing" /\ status[held[w]] \in Active
        /\ pc' = [pc EXCEPT ![w] = "down"] /\ held' = [held EXCEPT ![w] = NoJob]
    BY <1>9 DEF MarkInterrupted, MayMark
  <2>2. ReleaseJob(held[w], "queued", "cancelled")
    BY <1>9, <2>1 DEF MarkInterrupted
  <2> QED
    BY <1>7, <2>1, <2>2
<1>10. ASSUME NEW w \in Workers, Crash(w) \/ Restart(w) PROVE LesseeInv'
  BY <1>10 DEF Crash, Restart, AuditInv, jobVars
<1>11. CASE UNCHANGED vars
  BY <1>11 DEF vars
<1> QED
  BY <1>1, <1>2, <1>3, <1>4, <1>5, <1>6, <1>8, <1>9, <1>10, <1>11
     DEF Next, WorkerStep

\* Without overruns the holder of a job is its lessee in every reachable
\* state.
LEMMA LesseeInvariance ==
  ASSUME MaxOverruns = 0
  PROVE  Spec => []LesseeInv
<1>1. Init => LesseeInv
  BY DEF Init, LesseeInv
<1> QED
  BY <1>1, LesseeStep, AuditInvariance, PTL DEF Spec

\* If leases outlive all work, no job is ever in the hands of two workers,
\* through any crashes, restarts and shutdowns.
THEOREM ExclusiveWorkCorrect ==
  ASSUME MaxOverruns = 0
  PROVE  Spec => []ExclusiveWork
<1>1. AuditInv /\ LesseeInv => ExclusiveWork
  <2> SUFFICES ASSUME AuditInv, LesseeInv, NEW w \in Workers,
                      pc[w] \in {"leased", "executing"}
               PROVE  /\ leasedBy[held[w]] = w
                      /\ \A v \in Workers \ {w} : held[v] # held[w]
    BY DEF ExclusiveWork
  <2>1. held[w] \in Jobs /\ leasedBy[held[w]] = w
    BY DEF AuditInv, TypeInv, HoldsJob, LesseeInv
  <2>2. ASSUME NEW v \in Workers, v # w, held[v] = held[w] PROVE FALSE
    <3>1. pc[v] \in {"locking", "leased", "executing"}
      BY <2>1, <2>2 DEF AuditInv, TypeInv, HoldsJob
    <3>2. CASE pc[v] = "locking"
      BY <2>2, <3>2 DEF AuditInv, LockDiscipline, Claimable, LesseeInv, Active
    <3>3. CASE pc[v] \in {"leased", "executing"}
      BY <2>1, <2>2, <3>3 DEF LesseeInv
    <3> QED
      BY <3>1, <3>2, <3>3
  <2> QED
    BY <2>1, <2>2
<1> QED
  BY <1>1, AuditInvariance, LesseeInvariance, PTL

FinalStep == \A j \in Jobs : status[j] \in Settled => status'[j] = status[j]

\* If leases outlive all work, a job that succeeded or was dead-lettered
\* stays that way: no retry, reclaim or shutdown reopens it.
THEOREM SettledIsFinalCorrect ==
  ASSUME MaxOverruns = 0
  PROVE  Spec => SettledIsFinal
<1>1. AuditInv /\ LesseeInv /\ [Next]_vars => [FinalStep]_vars
  <2> SUFFICES ASSUME AuditInv, LesseeInv, Next,
                      NEW j \in Jobs, status[j] \in Settled
               PROVE  status'[j] = status[j]
    BY DEF FinalStep
  <2> USE DEF AuditInv, TypeInv, TypeOK, Active, Settled
  <2>1. \A w \in Workers :
          pc[w] \in {"locking", "leased", "executing"} => held[w] # j
    BY DEF LockDiscipline, Claimable, LesseeInv
  <2>2. CASE status' = status
    BY <2>2
  <2>3. ASSUME NEW k \in Jobs, Enqueue(k) PROVE status'[j] = status[j]
    BY <2>3 DEF Enqueue
  <2>4. ASSUME NEW w \in Workers, CommitLease(w) PROVE status'[j] = status[j]
    BY <2>1, <2>4 DEF CommitLease
  <2>5. ASSUME NEW w \in Workers, MarkRunning(w) PROVE status'[j] = status[j]
    BY <2>1, <2>5 DEF MarkRunning, MayMark
  <2>6. ASSUME NEW w \in Workers,
               MarkSucceeded(w) \/ MarkFailed(w) \/ MarkInterrupted(w)
        PROVE  status'[j] = status[j]
    <3>1. held[w] # j
      BY <2>1, <2>6 DEF MarkSucceeded, MarkFailed, MarkInterrupted, MayMark
    <3>2. status' = status \/ \E s : status' = [status EXCEPT ![held[w]] = s]
      BY <2>6
         DEF MarkSucceeded, MarkFailed, MarkInterrupted, ReleaseJob, jobVars
    <3> QED
      BY <3>1, <3>2
  <2> QED
    BY <2>2, <2>3, <2>4, <2>5, <2>6
       DEF Next, WorkerStep, LeaseExpires, LockNextCandidate, NoCandidate,
           Crash, Restart, jobVars
<1> QED
  BY <1>1, AuditInvariance, LesseeInvariance, PTL
     DEF Spec, SettledIsFinal, FinalStep
=============================================================================
