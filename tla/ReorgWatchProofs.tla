--------------------------- MODULE ReorgWatchProofs ---------------------------
(***************************************************************************)
(* What verify-reorg records and what a linked replay repairs, for every   *)
(* chain, set of ranges and number of reorganisations and verifications.   *)
(***************************************************************************)
EXTENDS ReorgWatch, Induction

USE ReorgWatchAssumption

-----------------------------------------------------------------------------
(* Types *)

\* What the process p has in hand at each step of its work.
ProcessInv(p) ==
  /\ phase[p] = "idle" => task[p] = "none" /\ range[p] = Nobody
  /\ phase[p] # "idle" => range[p] \in BlockRange
  /\ task[p] = "replay" => range[p] \in Replays
  /\ phase[p] \in {"leased", "orphan", "done"} => task[p] = "replay"
  /\ phase[p] \in {"tip", "advance"} => task[p] # "replay"
  /\ phase[p] \in {"idle", "leased", "orphan"} => fetched[p] = Unfetched
  /\ phase[p] = "persist" => \A b \in BlocksOf(range[p]) : fetched[p][b] \in Hashes
  /\ phase[p] = "advance" => fetched[p][range[p].to] \in Hashes

WorkerInv == \A p \in Processes : ProcessInv(p)
\* What a verification has in hand, and the checkpoint it reads.
VerifierInv ==
  /\ vpc # "idle" => checked \in Checks
  /\ vpc # "compare" => mismatches = <<>>
  /\ vpc = "idle" => expected = {} /\ condemned = {}
  /\ checkpoint.block # -1 => checkpoint.hash \in Hashes

TypeInv == RwTypeOK /\ WorkerInv /\ VerifierInv

\* The part of RwTypeOK about the processes.
ProcessTypes ==
  /\ task \in [Processes -> {"none", "ingest", "repair", "replay"}]
  /\ phase \in [Processes -> Phases]
  /\ range \in [Processes -> BlockRange \cup {Nobody}]
  /\ fetched \in [Processes -> [Blocks -> Hashes \cup {NoHash}]]
  /\ starts \in 0..MaxStarts
\* A range of blocks.
LEMMA RangeOfBlocks ==
  ASSUME NEW r \in BlockRange
  PROVE  /\ r.from \in Blocks /\ r.to \in Blocks /\ r.from <= r.to
         /\ BlocksOf(r) \subseteq Blocks
         /\ r # Nobody
BY DEF BlockRange, Blocks, BlocksOf, Nobody

\* The leading run of a list of mismatches exists, and its blocks are
\* consecutive.
LEMMA RunLengthCorrect ==
  ASSUME NEW M \in Seq(Mismatch), M # <<>>
  PROVE  LET n == RunLength(M)
         IN  /\ n \in 1..Len(M)
             /\ \A i \in 1..n : M[i].block = M[1].block + (i - 1)
<1> DEFINE n == RunLength(M)
           T == {k \in 1..Len(M) : k < Len(M) => M[k + 1].block # M[k].block + 1}
<1>1. Len(M) \in Nat \ {0} /\ \A k \in 1..Len(M) : M[k].block \in Int
  <2>1. Len(M) \in Nat \ {0}
    OBVIOUS
  <2>2. \A k \in 1..Len(M) : M[k] \in Mismatch
    OBVIOUS
  <2> QED
    BY <2>1, <2>2 DEF Mismatch, Blocks
<1>2. PICK k \in T : \A m \in T : k <= m
  <2>1. Len(M) \in T /\ T \subseteq Nat
    BY <1>1
  <2> HIDE DEF T
  <2> QED
    BY <2>1, LeastElement
<1>3. \A i \in 1..(k - 1) : M[i + 1].block = M[i].block + 1
  BY <1>1, <1>2
<1>4. /\ n \in 1..Len(M)
      /\ \A i \in 1..(n - 1) : M[i + 1].block = M[i].block + 1
  BY <1>2, <1>3 DEF RunLength
<1>5. \A i \in 1..n : M[i].block = M[1].block + (i - 1)
  <2> DEFINE U == {i \in 0..(n - 1) : M[i + 1].block = M[1].block + i}
  <2> HIDE DEF n
  <2>1. 0 \in U
    <3>1. M[0 + 1].block = M[1].block /\ M[1].block \in Int
      BY <1>1
    <3> QED
      BY <1>4, <3>1
  <2>2. ASSUME NEW i \in 0..((n - 1) - 1), i \in U PROVE i + 1 \in U
    <3>1. M[(i + 1) + 1].block = M[i + 1].block + 1
      BY <1>4
    <3>2. M[i + 1].block = M[1].block + i /\ M[1].block \in Int /\ i + 1 \in 0..(n - 1)
      BY <1>1, <1>4, <2>2
    <3> QED
      BY <3>1, <3>2
  <2>3. \A i \in 0..(n - 1) : i \in U
    <3>1. n - 1 \in Nat
      BY <1>4
    <3> HIDE DEF U
    <3> QED
      BY <2>1, <2>2, <3>1, UpToInduction
  <2> QED
    BY <1>1, <1>4, <2>3
<1> QED
  BY <1>4, <1>5

\* The row of a run names exactly the run's blocks.
LEMMA EventRowCorrect ==
  ASSUME NEW M \in Seq(Mismatch), M # <<>>
  PROVE  LET n == RunLength(M)
             row == EventRow(SubSeq(M, 1, n))
         IN  /\ row \in EventRows /\ row.from <= row.to
             /\ row.mismatches = SubSeq(M, 1, n)
             /\ row.job = Nobody /\ row.fresh = FALSE
             /\ BlocksOf(row) = {row.mismatches[k].block : k \in DOMAIN row.mismatches}
             /\ DOMAIN row.mismatches = 1..n
             /\ \A k \in 1..n : row.mismatches[k] = M[k]
<1> DEFINE n == RunLength(M)
           run == SubSeq(M, 1, n)
           row == EventRow(run)
<1>1. n \in 1..Len(M) /\ Len(M) \in Nat
  BY RunLengthCorrect
<1>2. \A i \in 1..n : M[i].block = M[1].block + (i - 1)
  BY RunLengthCorrect
<1> HIDE DEF n
<1>3. run \in Seq(Mismatch) /\ Len(run) = n /\ \A k \in 1..n : run[k] = M[k]
  BY <1>1
<1>4. \A k \in 1..n : M[k] \in Mismatch /\ M[k].block \in Blocks /\ M[k].block \in Int
  <2>1. \A k \in 1..n : M[k] \in Mismatch
    BY <1>1
  <2> QED
    BY <2>1 DEF Mismatch, Blocks
<1>5. /\ row.mismatches = run /\ row.job = Nobody /\ row.fresh = FALSE
      /\ row.from = M[1].block /\ row.to = M[n].block
  BY <1>1, <1>3 DEF EventRow
<1>6. row \in EventRows
  <2> HIDE DEF run
  <2> QED
    BY <1>1, <1>3, <1>4 DEF EventRow, EventRows
<1>7. row.from <= row.to
  BY <1>1, <1>2, <1>4, <1>5
<1>8. BlocksOf(row) = {M[k].block : k \in 1..n}
  <2>1. ASSUME NEW b \in BlocksOf(row) PROVE \E k \in 1..n : M[k].block = b
    <3>1. b \in M[1].block..(M[1].block + (n - 1))
      BY <1>1, <1>2, <1>5 DEF BlocksOf
    <3> DEFINE k == b - M[1].block + 1
    <3>2. k \in 1..n /\ M[1].block \in Int /\ M[1].block + (k - 1) = b
      BY <1>1, <1>4, <3>1
    <3> HIDE DEF k
    <3>3. M[k].block = b
      BY <1>2, <3>2
    <3> QED
      BY <3>2, <3>3
  <2>2. ASSUME NEW k \in 1..n PROVE M[k].block \in BlocksOf(row)
    BY <1>1, <1>2, <1>4, <1>5 DEF BlocksOf
  <2> QED
    BY <2>1, <2>2
<1> HIDE DEF run
<1>9. DOMAIN row.mismatches = 1..n
  BY <1>3, <1>5
<1>10. \A k \in 1..n : row.mismatches[k] = M[k]
  BY <1>3, <1>5
<1>11. BlocksOf(row) = {row.mismatches[k].block : k \in DOMAIN row.mismatches}
  BY <1>8, <1>9, <1>10
<1> QED
  BY <1>5, <1>6, <1>7, <1>9, <1>10, <1>11 DEF run, n

\* The parts of a mismatch, and of a row.
LEMMA MismatchTyped ==
  ASSUME NEW M \in Seq(Mismatch), NEW k \in DOMAIN M
  PROVE  M[k] \in Mismatch /\ M[k].block \in Blocks /\ M[k].expected \in Hashes
<1>1. M[k] \in Mismatch
  OBVIOUS
<1> QED
  BY <1>1 DEF Mismatch

LEMMA EventTyped ==
  ASSUME RwTypeOK, NEW i \in DOMAIN events
  PROVE  /\ events[i] \in EventRows /\ events[i].mismatches \in Seq(Mismatch)
         /\ events[i].job \in Replays \cup {Nobody}
<1>1. events[i] \in EventRows
  BY DEF RwTypeOK
<1> QED
  BY <1>1 DEF EventRows

\* Linking changes the job of rows that have none.
LEMMA LinkKeeps ==
  ASSUME RwTypeOK, LinkReorgEvents
  PROVE  /\ DOMAIN events' = DOMAIN events
         /\ linking \in Replays
         /\ \A i \in DOMAIN events :
              /\ events'[i] \in EventRows
              /\ events'[i].from = events[i].from /\ events'[i].to = events[i].to
              /\ events'[i].mismatches = events[i].mismatches
              /\ \/ events'[i] = events[i]
                 \/ /\ events'[i].job = linking
                    /\ events'[i].fresh <=> StillToOrphan(linking)
                    /\ events[i].from >= linking.from /\ events[i].to <= linking.to
<1>1. linking \in Replays
  BY DEF LinkReorgEvents, RwTypeOK
<1>2. ASSUME NEW i \in DOMAIN events
      PROVE  /\ events'[i] \in EventRows
             /\ events'[i].from = events[i].from /\ events'[i].to = events[i].to
             /\ events'[i].mismatches = events[i].mismatches
             /\ \/ events'[i] = events[i]
                \/ /\ events'[i].job = linking
                   /\ events'[i].fresh <=> StillToOrphan(linking)
                   /\ events[i].from >= linking.from /\ events[i].to <= linking.to
  <2>1. events[i] \in EventRows
    BY EventTyped
  <2>2. CASE Matches(events[i], linking)
    <3>1. events'[i] = [events[i] EXCEPT !.job = linking,
                                          !.fresh = StillToOrphan(linking)]
      BY <1>2, <2>2 DEF LinkReorgEvents
    <3>2. StillToOrphan(linking) \in BOOLEAN
      BY DEF StillToOrphan
    <3>3. events'[i] \in EventRows
      BY <1>1, <2>1, <3>1, <3>2 DEF EventRows
    <3>4. /\ events'[i].from = events[i].from /\ events'[i].to = events[i].to
          /\ events'[i].mismatches = events[i].mismatches /\ events'[i].job = linking
          /\ events'[i].fresh = StillToOrphan(linking)
      BY <2>1, <3>1 DEF EventRows
    <3> QED
      BY <2>2, <3>3, <3>4 DEF Matches
  <2>3. CASE ~Matches(events[i], linking)
    BY <1>2, <2>1, <2>3 DEF LinkReorgEvents
  <2> QED
    BY <2>2, <2>3
<1> QED
  BY <1>1, <1>2 DEF LinkReorgEvents

LEMMA UnfetchedTyped == Unfetched \in [Blocks -> Hashes \cup {NoHash}]
BY DEF Unfetched

LEMMA TypeInvInit == RwInit => TypeInv
<1> SUFFICES ASSUME RwInit PROVE TypeInv
  OBVIOUS
<1>1. 0 \in Hashes /\ -1 \notin Blocks
  BY DEF Hashes, Blocks
<1>2. events \in Seq(EventRows) /\ mismatches \in Seq(Mismatch) /\ DOMAIN events = {}
  BY DEF RwInit
<1>3. ProcessTypes
  BY UnfetchedTyped DEF RwInit, ProcessTypes, Phases
<1>4. status \in [Replays -> JobStatus]
  BY DEF RwInit, JobStatus
<1>5. stored \in [Blocks -> SUBSET Hashes]
  BY <1>1 DEF RwInit
<1>6. RwTypeOK
  BY <1>1, <1>2, <1>3, <1>4, <1>5 DEF RwInit, RwTypeOK, ProcessTypes, Nobody, NoHash, Pairs
<1>7. WorkerInv
  BY DEF RwInit, WorkerInv, ProcessInv
<1>8. VerifierInv
  BY DEF RwInit, VerifierInv
<1> QED
  BY <1>6, <1>7, <1>8 DEF TypeInv

\* The processes but p do nothing.
Alone(p) ==
  \A q \in Processes \ {p} :
    /\ task'[q] = task[q] /\ phase'[q] = phase[q]
    /\ range'[q] = range[q] /\ fetched'[q] = fetched[q]

LEMMA AloneKeeps ==
  ASSUME WorkerInv, NEW p \in Processes, Alone(p), ProcessInv(p)'
  PROVE  WorkerInv'
BY DEF WorkerInv, ProcessInv, Alone

LEMMA StartKeeps ==
  ASSUME TypeInv, NEW p \in Processes, NEW t \in {"ingest", "repair", "replay"},
         NEW r \in BlockRange, NEW ph \in {"fetch", "leased"}, Start(p, t, r, ph),
         t = "replay" => r \in Replays, ph = "leased" => t = "replay"
  PROVE  ProcessTypes' /\ WorkerInv'
<1>1. /\ task' = [task EXCEPT ![p] = t] /\ range' = [range EXCEPT ![p] = r]
      /\ phase' = [phase EXCEPT ![p] = ph] /\ UNCHANGED fetched
      /\ phase[p] = "idle" /\ starts' = starts + 1 /\ starts < MaxStarts
  BY DEF Start
<1>2. ProcessTypes
  BY DEF TypeInv, RwTypeOK, ProcessTypes
<1>3. ProcessTypes'
  BY <1>1, <1>2 DEF ProcessTypes, Phases
<1>4. Alone(p)
  BY <1>1, <1>2 DEF Alone, ProcessTypes
<1>5. task'[p] = t /\ range'[p] = r /\ phase'[p] = ph /\ fetched'[p] = Unfetched
  BY <1>1, <1>2 DEF ProcessTypes, TypeInv, WorkerInv, ProcessInv
<1>6. ProcessInv(p)'
  BY <1>5 DEF ProcessInv
<1> QED
  BY <1>3, <1>4, <1>6, AloneKeeps DEF TypeInv

LEMMA ProceedKeeps ==
  ASSUME TypeInv, NEW p \in Processes, NEW ph \in Phases \ {"idle", "leased"},
         Proceed(p, ph), phase[p] # "idle",
         NEW f \in [Blocks -> Hashes \cup {NoHash}],
         fetched' = [fetched EXCEPT ![p] = f],
         ph \in {"orphan", "done"} => task[p] = "replay",
         ph \in {"tip", "advance"} => task[p] # "replay",
         ph = "orphan" => f = Unfetched,
         ph = "persist" => \A b \in BlocksOf(range[p]) : f[b] \in Hashes,
         ph = "advance" => f[range[p].to] \in Hashes
  PROVE  ProcessTypes' /\ WorkerInv'
<1>1. phase' = [phase EXCEPT ![p] = ph] /\ UNCHANGED <<task, range, starts>>
  BY DEF Proceed
<1>2. ProcessTypes
  BY DEF TypeInv, RwTypeOK, ProcessTypes
<1>3. ProcessTypes'
  BY <1>1, <1>2 DEF ProcessTypes
<1>4. Alone(p)
  BY <1>1, <1>2 DEF Alone, ProcessTypes
<1>5. task'[p] = task[p] /\ range'[p] = range[p] /\ phase'[p] = ph /\ fetched'[p] = f
  BY <1>1, <1>2 DEF ProcessTypes
<1>6. range[p] \in BlockRange /\ (task[p] = "replay" => range[p] \in Replays)
  BY DEF TypeInv, WorkerInv, ProcessInv
<1>7. ProcessInv(p)'
  BY <1>5, <1>6 DEF ProcessInv
<1> QED
  BY <1>3, <1>4, <1>7, AloneKeeps DEF TypeInv

LEMMA LeaveKeeps ==
  ASSUME TypeInv, NEW p \in Processes, Leave(p)
  PROVE  ProcessTypes' /\ WorkerInv'
<1>1. /\ task' = [task EXCEPT ![p] = "none"] /\ range' = [range EXCEPT ![p] = Nobody]
      /\ phase' = [phase EXCEPT ![p] = "idle"] /\ UNCHANGED starts
      /\ fetched' = [fetched EXCEPT ![p] = Unfetched]
  BY DEF Leave, Forget
<1>2. ProcessTypes
  BY DEF TypeInv, RwTypeOK, ProcessTypes
<1>3. ProcessTypes'
  BY <1>1, <1>2, UnfetchedTyped DEF ProcessTypes, Phases
<1>4. Alone(p)
  BY <1>1, <1>2 DEF Alone, ProcessTypes
<1>5. /\ task'[p] = "none" /\ range'[p] = Nobody /\ phase'[p] = "idle"
      /\ fetched'[p] = Unfetched
  BY <1>1, <1>2 DEF ProcessTypes
<1>6. ProcessInv(p)'
  BY <1>5 DEF ProcessInv
<1> QED
  BY <1>3, <1>4, <1>6, AloneKeeps DEF TypeInv

\* What the commits of a process add to late.
LEMMA BelatedTyped ==
  ASSUME TypeInv, NEW p \in Processes, phase[p] = "persist",
         NEW W \in SUBSET BlocksOf(range[p])
  PROVE  Belated(p, W) \subseteq
           [block : Blocks, hash : Hashes, by : Replays \cup {Nobody}]
<1>1. /\ range[p] \in BlockRange /\ (task[p] = "replay" => range[p] \in Replays)
      /\ \A b \in BlocksOf(range[p]) : fetched[p][b] \in Hashes
  BY DEF TypeInv, WorkerInv, ProcessInv
<1>2. BlocksOf(range[p]) \subseteq Blocks
  BY <1>1, RangeOfBlocks
<1> QED
  BY <1>1, <1>2 DEF Belated
\* A step of a process that changes but its own variables and the status of jobs.
LEMMA OnlyProcesses ==
  ASSUME TypeInv, ProcessTypes', WorkerInv', status' \in [Replays -> JobStatus]
                                             \/ UNCHANGED status,
         UNCHANGED <<chain, ledger, checkpoint, events, verifier, linking>>
  PROVE  TypeInv'
<1>1. RwTypeOK'
  BY DEF TypeInv, RwTypeOK, ProcessTypes, chain, ledger, verifier
<1>2. VerifierInv'
  BY DEF TypeInv, VerifierInv, verifier
<1> QED
  BY <1>1, <1>2 DEF TypeInv

LedgerTypes ==
  /\ stored \in [Blocks -> SUBSET Hashes] /\ buried \subseteq Blocks
  /\ late \subseteq [block : Blocks, hash : Hashes, by : Replays \cup {Nobody}]

\* A step of a process that changes its own variables and the ledger.
LEMMA OnlyLedger ==
  ASSUME TypeInv, ProcessTypes', WorkerInv', LedgerTypes',
         UNCHANGED <<chain, checkpoint, events, status, verifier, linking>>
  PROVE  TypeInv'
<1>1. RwTypeOK'
  BY DEF TypeInv, RwTypeOK, ProcessTypes, LedgerTypes, chain, verifier
<1>2. VerifierInv'
  BY DEF TypeInv, VerifierInv, verifier
<1> QED
  BY <1>1, <1>2 DEF TypeInv

LEMMA TypeInvNext == TypeInv /\ [RwNext]_rwVars => TypeInv'
<1> SUFFICES ASSUME TypeInv, [RwNext]_rwVars PROVE TypeInv'
  OBVIOUS
<1> USE DEF TypeInv
<1>1. ASSUME NEW b \in Blocks, Reorg(b) PROVE TypeInv'
  <2>1. reorgs + 1 \in Hashes /\ reorgs' \in 0..MaxReorgs
    BY <1>1 DEF Reorg, RwTypeOK, Hashes
  <2>2. hashOf' \in [Blocks -> Hashes]
    BY <1>1, <2>1 DEF Reorg, RwTypeOK
  <2>3. UNCHANGED <<ledger, checkpoint, events, status, processes, verifier, linking>>
    BY <1>1 DEF Reorg
  <2>4. RwTypeOK'
    BY <2>1, <2>2, <2>3 DEF RwTypeOK, ledger, processes, verifier
  <2> QED
    BY <2>3, <2>4 DEF WorkerInv, ProcessInv, VerifierInv, processes, verifier
<1>2. ASSUME NEW p \in Processes, NEW r \in Ingests, BeginIngest(p, r) PROVE TypeInv'
  <2>1. r \in BlockRange /\ Start(p, "ingest", r, "fetch") /\ UNCHANGED status
    BY <1>2 DEF BeginIngest
  <2>2. ProcessTypes' /\ WorkerInv'
    BY <2>1, StartKeeps
  <2>3. UNCHANGED <<chain, ledger, checkpoint, events, status, verifier, linking>>
    BY <2>1 DEF Start
  <2> QED
    BY <2>2, <2>3, OnlyProcesses
<1>3. ASSUME NEW p \in Processes, NEW b \in Blocks, BeginRepair(p, b) PROVE TypeInv'
  <2> DEFINE r == [from |-> b, to |-> b]
  <2>1. r \in BlockRange /\ Start(p, "repair", r, "fetch") /\ UNCHANGED status
    BY <1>3 DEF BeginRepair, BlockRange, Blocks
  <2> HIDE DEF r
  <2>2. ProcessTypes' /\ WorkerInv'
    BY <2>1, StartKeeps
  <2>3. UNCHANGED <<chain, ledger, checkpoint, events, status, verifier, linking>>
    BY <2>1 DEF Start
  <2> QED
    BY <2>2, <2>3, OnlyProcesses
<1>4. ASSUME NEW p \in Processes, NEW r \in Replays, LeaseReplay(p, r) PROVE TypeInv'
  <2>1. r \in BlockRange /\ Start(p, "replay", r, "leased")
    BY <1>4 DEF LeaseReplay
  <2>2. ProcessTypes' /\ WorkerInv'
    BY <2>1, StartKeeps
  <2>3. UNCHANGED <<chain, ledger, checkpoint, events, verifier, linking>>
    BY <2>1 DEF Start
  <2>4. status' \in [Replays -> JobStatus]
    BY <1>4 DEF LeaseReplay, RwTypeOK, JobStatus
  <2> QED
    BY <2>2, <2>3, <2>4, OnlyProcesses
<1>5. ASSUME NEW p \in Processes, MarkRunning(p) PROVE TypeInv'
  <2>1. Proceed(p, "orphan") /\ phase[p] = "leased"
    BY <1>5 DEF MarkRunning
  <2>2. /\ UNCHANGED fetched
        /\ UNCHANGED <<chain, ledger, checkpoint, events, verifier, linking>>
    BY <1>5 DEF MarkRunning
  <2>3. task[p] = "replay" /\ range[p] \in Replays /\ fetched[p] = Unfetched
    BY <2>1 DEF WorkerInv, ProcessInv
  <2>4. fetched' = [fetched EXCEPT ![p] = Unfetched]
    BY <2>2, <2>3 DEF RwTypeOK
  <2>5. ProcessTypes' /\ WorkerInv'
    <3>1. "orphan" \in Phases \ {"idle", "leased"}
      BY DEF Phases
    <3> QED
      BY <2>3, <2>4, <2>1, <3>1, UnfetchedTyped, ProceedKeeps
  <2>6. status' \in [Replays -> JobStatus]
    BY <1>5, <2>3 DEF MarkRunning, RwTypeOK, JobStatus
  <2> QED
    BY <2>2, <2>5, <2>6, OnlyProcesses
<1>6. ASSUME NEW p \in Processes, OrphanRange(p) PROVE TypeInv'
  <2> DEFINE R == BlocksOf(range[p])
  <2>1. Proceed(p, "fetch") /\ phase[p] = "orphan"
    BY <1>6 DEF OrphanRange
  <2>2. /\ UNCHANGED fetched
        /\ UNCHANGED <<chain, checkpoint, events, status, verifier, linking>>
    BY <1>6 DEF OrphanRange
  <2>3. range[p] \in BlockRange /\ fetched[p] = Unfetched
    BY <2>1 DEF WorkerInv, ProcessInv
  <2>4. fetched' = [fetched EXCEPT ![p] = Unfetched]
    BY <2>2, <2>3 DEF RwTypeOK
  <2>5. ProcessTypes' /\ WorkerInv'
    <3>1. "fetch" \in Phases \ {"idle", "leased"}
      BY DEF Phases
    <3> QED
      BY <2>4, <2>1, <3>1, UnfetchedTyped, ProceedKeeps
  <2>6. R \subseteq Blocks
    BY <2>3, RangeOfBlocks
  <2>7. /\ stored' = [b \in Blocks |-> IF b \in R THEN {} ELSE stored[b]]
        /\ buried' = buried \cup {b \in R : stored[b] # {}}
        /\ late' = {l \in late : l.block \notin R}
    BY <1>6 DEF OrphanRange
  <2> HIDE DEF R
  <2>8. LedgerTypes'
    BY <2>6, <2>7 DEF RwTypeOK, LedgerTypes
  <2> QED
    BY <2>2, <2>5, <2>8, OnlyLedger
<1>7. ASSUME NEW p \in Processes, FetchLogs(p) PROVE TypeInv'
  <2> DEFINE ahead == {b \in BlocksOf(range[p]) : fetched[p][b] = NoHash}
             chunk == {b \in ahead : Cardinality({c \in ahead : c < b}) < ChunkSize}
             f == [b \in Blocks |-> IF b \in chunk THEN hashOf[b] ELSE fetched[p][b]]
             ph == IF chunk = ahead THEN "persist" ELSE "fetch"
  <2>1. /\ Proceed(p, ph) /\ phase[p] = "fetch"
        /\ UNCHANGED <<chain, ledger, checkpoint, events, status, verifier, linking>>
        /\ fetched' = [fetched EXCEPT ![p] =
                         [b \in Blocks |-> IF b \in chunk THEN hashOf[b] ELSE @[b]]]
    BY <1>7 DEF FetchLogs
  <2>2. BlocksOf(range[p]) \subseteq Blocks
    BY <2>1, RangeOfBlocks DEF WorkerInv, ProcessInv
  <2>3. fetched' = [fetched EXCEPT ![p] = f]
    BY <2>1 DEF RwTypeOK
  <2>4. chunk = ahead => \A b \in BlocksOf(range[p]) : b \in chunk \/ fetched[p][b] # NoHash
    OBVIOUS
  <2> HIDE DEF chunk
  <2>5. f \in [Blocks -> Hashes \cup {NoHash}]
    BY DEF RwTypeOK
  <2>6. ph = "persist" => \A b \in BlocksOf(range[p]) : f[b] \in Hashes
    BY <2>2, <2>4 DEF RwTypeOK
  <2>7. ph \in {"fetch", "persist"}
    OBVIOUS
  <2> HIDE DEF f, ph
  <2>8. ProcessTypes' /\ WorkerInv'
    BY <2>1, <2>3, <2>5, <2>6, <2>7, ProceedKeeps DEF Phases
  <2> QED
    BY <2>1, <2>8, OnlyProcesses
<1>8. ASSUME NEW p \in Processes, PersistLogs(p) PROVE TypeInv'
  <2> DEFINE R == BlocksOf(range[p])
             ph == IF task[p] = "replay" THEN "done" ELSE "tip"
  <2>1. /\ Proceed(p, ph) /\ phase[p] = "persist"
        /\ fetched' = [fetched EXCEPT ![p] = Unfetched]
        /\ UNCHANGED <<chain, buried, checkpoint, events, status, verifier, linking>>
    BY <1>8 DEF PersistLogs, Forget
  <2>2. ProcessTypes' /\ WorkerInv'
    <3>1. ph \in {"done", "tip"} /\ (ph = "done" <=> task[p] = "replay")
      OBVIOUS
    <3> HIDE DEF ph
    <3> QED
      BY <2>1, <3>1, UnfetchedTyped, ProceedKeeps DEF Phases
  <2>3. PICK kept \in [R -> SUBSET Hashes], written \in SUBSET R :
          /\ stored' = [b \in Blocks |-> IF b \in written THEN {fetched[p][b]} \cup kept[b]
                                         ELSE stored[b]]
          /\ late' = late \cup Belated(p, written)
    BY <1>8 DEF PersistLogs
  <2>4. \A b \in R : fetched[p][b] \in Hashes
    BY <2>1 DEF WorkerInv, ProcessInv
  <2>5. late' \subseteq [block : Blocks, hash : Hashes, by : Replays \cup {Nobody}]
    BY <2>1, <2>3, BelatedTyped DEF RwTypeOK
  <2>6. stored' \in [Blocks -> SUBSET Hashes]
    BY <2>3, <2>4 DEF RwTypeOK
  <2>7. LedgerTypes'
    BY <2>1, <2>5, <2>6 DEF RwTypeOK, LedgerTypes
  <2> QED
    BY <2>1, <2>2, <2>7, OnlyLedger
<1>9. ASSUME NEW p \in Processes, UpdateMetadata(p) PROVE TypeInv'
  <2> DEFINE b == range[p].from
  <2>1. /\ phase[p] = "persist"
        /\ UNCHANGED <<chain, buried, checkpoint, events, status, processes, verifier,
                       linking>>
        /\ late' = late \cup Belated(p, {b})
    BY <1>9 DEF UpdateMetadata
  <2>2. PICK kept \in SUBSET stored[b] : stored' = [stored EXCEPT ![b] = {fetched[p][b]} \cup kept]
    BY <1>9 DEF UpdateMetadata
  <2>3. range[p] \in BlockRange /\ \A c \in BlocksOf(range[p]) : fetched[p][c] \in Hashes
    BY <2>1 DEF WorkerInv, ProcessInv
  <2>4. b \in BlocksOf(range[p]) /\ b \in Blocks
    BY <2>3 DEF BlockRange, BlocksOf, Blocks
  <2>5. late' \subseteq [block : Blocks, hash : Hashes, by : Replays \cup {Nobody}]
    BY <2>1, <2>4, BelatedTyped DEF RwTypeOK
  <2>6. stored' \in [Blocks -> SUBSET Hashes]
    BY <2>2, <2>3, <2>4 DEF RwTypeOK
  <2>7. LedgerTypes'
    BY <2>1, <2>5, <2>6 DEF RwTypeOK, LedgerTypes
  <2>8. ProcessTypes' /\ WorkerInv'
    BY <2>1 DEF RwTypeOK, ProcessTypes, WorkerInv, ProcessInv, processes
  <2> QED
    BY <2>1, <2>7, <2>8, OnlyLedger
<1>10. ASSUME NEW p \in Processes, FetchTip(p) PROVE TypeInv'
  <2> DEFINE t == range[p].to
             f == [fetched[p] EXCEPT ![t] = hashOf[t]]
  <2>1. /\ Proceed(p, "advance") /\ phase[p] = "tip"
        /\ fetched' = [fetched EXCEPT ![p] = f]
        /\ UNCHANGED <<chain, ledger, checkpoint, events, status, verifier, linking>>
    BY <1>10 DEF FetchTip, RwTypeOK
  <2>2. t \in Blocks /\ task[p] # "replay"
    BY <2>1, RangeOfBlocks DEF WorkerInv, ProcessInv
  <2>3. f \in [Blocks -> Hashes \cup {NoHash}] /\ f[t] \in Hashes
    BY <2>2 DEF RwTypeOK
  <2> HIDE DEF f
  <2>4. ProcessTypes' /\ WorkerInv'
    <3>1. "advance" \in Phases \ {"idle", "leased"}
      BY DEF Phases
    <3> QED
      BY <2>1, <2>2, <2>3, <3>1, ProceedKeeps
  <2> QED
    BY <2>1, <2>4, OnlyProcesses
<1>11. ASSUME NEW p \in Processes, AdvanceCheckpoint(p) PROVE TypeInv'
  <2>1. /\ phase[p] = "advance" /\ Leave(p)
        /\ UNCHANGED <<chain, ledger, events, status, verifier, linking>>
    BY <1>11 DEF AdvanceCheckpoint
  <2>2. range[p].to \in Blocks /\ fetched[p][range[p].to] \in Hashes
    BY <2>1, RangeOfBlocks DEF WorkerInv, ProcessInv
  <2>3. /\ checkpoint' \in [block : Blocks \cup {-1}, hash : Hashes \cup {NoHash}]
        /\ checkpoint'.block # -1 => checkpoint'.hash \in Hashes
    BY <1>11, <2>2 DEF AdvanceCheckpoint, RwTypeOK, VerifierInv
  <2>4. ProcessTypes' /\ WorkerInv'
    BY <2>1, LeaveKeeps
  <2>5. RwTypeOK'
    BY <2>1, <2>3, <2>4 DEF RwTypeOK, ProcessTypes, chain, ledger, verifier
  <2> QED
    BY <2>1, <2>3, <2>4, <2>5 DEF VerifierInv, verifier
<1>12. ASSUME NEW p \in Processes, FinishReplay(p) PROVE TypeInv'
  <2>1. /\ phase[p] = "done" /\ Leave(p)
        /\ UNCHANGED <<chain, ledger, checkpoint, events, verifier, linking>>
    BY <1>12 DEF FinishReplay
  <2>2. status' \in [Replays -> JobStatus]
    BY <1>12 DEF FinishReplay, RwTypeOK, JobStatus
  <2> QED
    BY <2>1, <2>2, LeaveKeeps, OnlyProcesses
<1>13. ASSUME NEW p \in Processes, Abandon(p) PROVE TypeInv'
  <2>1. /\ Leave(p)
        /\ UNCHANGED <<chain, ledger, checkpoint, events, verifier, linking>>
    BY <1>13 DEF Abandon
  <2>2. status' \in [Replays -> JobStatus]
    <3>1. CASE task[p] = "replay"
      <4>1. range[p] \in Replays
        BY <3>1 DEF WorkerInv, ProcessInv
      <4> QED
        BY <1>13, <3>1, <4>1 DEF Abandon, RwTypeOK, JobStatus
    <3>2. CASE task[p] # "replay"
      BY <1>13, <3>2 DEF Abandon, RwTypeOK
    <3> QED
      BY <3>1, <3>2
  <2> QED
    BY <2>1, <2>2, LeaveKeeps, OnlyProcesses
<1>14. ASSUME NEW r \in Replays, EnqueueReplay(r) PROVE TypeInv'
  <2>1. /\ status' \in [Replays -> JobStatus]
        /\ linking' \in Replays \cup {Nobody}
        /\ UNCHANGED <<chain, ledger, checkpoint, events, processes, verifier>>
    BY <1>14 DEF EnqueueReplay, RwTypeOK, JobStatus
  <2>2. RwTypeOK'
    BY <2>1 DEF RwTypeOK, chain, ledger, processes, verifier
  <2>3. WorkerInv' /\ VerifierInv'
    BY <2>1 DEF WorkerInv, ProcessInv, VerifierInv, processes, verifier
  <2> QED
    BY <2>2, <2>3
<1>15. ASSUME NEW r \in Checks, LoadIndexed(r) PROVE TypeInv'
  <2>1. Live(r) \subseteq Pairs /\ r \in BlockRange
    BY RangeOfBlocks DEF Live, Pairs
  <2>2. /\ expected' \subseteq Pairs /\ condemned' \subseteq Pairs
        /\ checked' = r /\ vpc' = "checkpoint" /\ checks' \in 0..MaxChecks
    BY <1>15, <2>1 DEF LoadIndexed, RwTypeOK
  <2>3. RwTypeOK'
    BY <1>15, <2>2 DEF LoadIndexed, RwTypeOK, chain, ledger, processes
  <2>4. WorkerInv'
    BY <1>15 DEF LoadIndexed, WorkerInv, ProcessInv, processes
  <2> QED
    BY <1>15, <2>2, <2>3, <2>4 DEF LoadIndexed, VerifierInv
<1>16. CASE LoadCheckpoint
  <2> DEFINE own == {p \in {<<checkpoint.block, checkpoint.hash>>} : p[1] \in BlocksOf(checked)}
  <2>1. own \subseteq Pairs
    <3>1. checked \in BlockRange /\ BlocksOf(checked) \subseteq Blocks
      BY <1>16, RangeOfBlocks DEF LoadCheckpoint, VerifierInv
    <3>2. checkpoint.block \in Blocks => checkpoint.hash \in Hashes
      BY DEF VerifierInv, Blocks
    <3> QED
      BY <3>1, <3>2 DEF Pairs
  <2>2. /\ expected' \subseteq Pairs /\ condemned' \subseteq Pairs
        /\ vpc' = "compare"
    BY <1>16, <2>1 DEF LoadCheckpoint, RwTypeOK
  <2>3. RwTypeOK'
    BY <1>16, <2>2 DEF LoadCheckpoint, RwTypeOK, chain, ledger, processes
  <2>4. WorkerInv'
    BY <1>16 DEF LoadCheckpoint, WorkerInv, ProcessInv, processes
  <2> QED
    BY <1>16, <2>2, <2>3, <2>4 DEF LoadCheckpoint, VerifierInv
<1>17. CASE Compare
  <2>1. PICK p \in expected :
          /\ expected' = expected \ {p}
          /\ mismatches' = IF p[2] # hashOf[p[1]]
                           THEN Append(mismatches, [block |-> p[1], expected |-> p[2],
                                                    actual |-> hashOf[p[1]]])
                           ELSE mismatches
    BY <1>17 DEF Compare
  <2>2. p[1] \in Blocks /\ p[2] \in Hashes
    BY <2>1 DEF RwTypeOK, Pairs
  <2>3. [block |-> p[1], expected |-> p[2], actual |-> hashOf[p[1]]] \in Mismatch
    BY <2>2 DEF RwTypeOK, Mismatch
  <2>4. mismatches' \in Seq(Mismatch)
    BY <2>1, <2>3 DEF RwTypeOK
  <2>5. RwTypeOK'
    BY <1>17, <2>1, <2>4 DEF Compare, RwTypeOK, chain, ledger, processes
  <2>6. WorkerInv'
    BY <1>17 DEF Compare, WorkerInv, ProcessInv, processes
  <2> QED
    BY <1>17, <2>5, <2>6 DEF Compare, VerifierInv
<1>18. CASE RecordRange
  <2> DEFINE n == RunLength(mismatches)
             row == EventRow(SubSeq(mismatches, 1, n))
  <2>1. mismatches \in Seq(Mismatch) /\ mismatches # <<>>
    BY <1>18 DEF RecordRange, RwTypeOK
  <2>2. row \in EventRows /\ row.from <= row.to /\ n \in 1..Len(mismatches)
    BY <2>1, EventRowCorrect, RunLengthCorrect
  <2>3. events' = Append(events, row) /\ mismatches' = SubSeq(mismatches, n + 1, Len(mismatches))
    BY <1>18 DEF RecordRange, InsertEvent, Rest
  <2> HIDE DEF n, row
  <2>4. mismatches' \in Seq(Mismatch)
    BY <2>1, <2>2, <2>3
  <2>5. /\ events' \in Seq(EventRows)
        /\ \A i \in DOMAIN events' : events'[i].from <= events'[i].to
    BY <2>2, <2>3 DEF RwTypeOK
  <2>6. RwTypeOK'
    BY <1>18, <2>4, <2>5 DEF RecordRange, RwTypeOK, chain, ledger, processes
  <2>7. WorkerInv'
    BY <1>18 DEF RecordRange, WorkerInv, ProcessInv, processes
  <2> QED
    BY <1>18, <2>6, <2>7 DEF RecordRange, VerifierInv
<1>19. CASE VerifyEnds
  <2>1. mismatches' \in Seq(Mismatch)
    BY <1>19 DEF VerifyEnds
  <2>2. RwTypeOK'
    BY <1>19, <2>1 DEF VerifyEnds, RwTypeOK, chain, ledger, processes
  <2>3. WorkerInv'
    BY <1>19 DEF VerifyEnds, WorkerInv, ProcessInv, processes
  <2> QED
    BY <1>19, <2>2, <2>3 DEF VerifyEnds, VerifierInv
<1>20. CASE LinkReorgEvents
  <2>1. linking \in Replays
    BY <1>20 DEF LinkReorgEvents, RwTypeOK
  <2>2. \A i \in DOMAIN events : events'[i] \in EventRows /\ events'[i].from <= events'[i].to
    BY <1>20, LinkKeeps DEF RwTypeOK
  <2>3. DOMAIN events' = DOMAIN events
    BY <1>20 DEF LinkReorgEvents
  <2>4. events' \in Seq(EventRows)
    <3>1. DOMAIN events = 1..Len(events) /\ Len(events) \in Nat
      BY DEF RwTypeOK
    <3>2. events' = [i \in 1..Len(events) |-> events'[i]]
      BY <1>20, <3>1 DEF LinkReorgEvents
    <3> QED
      BY <2>2, <3>1, <3>2
  <2>5. RwTypeOK'
    BY <1>20, <2>2, <2>3, <2>4 DEF LinkReorgEvents, RwTypeOK, chain, ledger, processes, verifier
  <2>6. WorkerInv' /\ VerifierInv'
    BY <1>20 DEF LinkReorgEvents, WorkerInv, ProcessInv, VerifierInv, processes, verifier
  <2> QED
    BY <2>5, <2>6
<1>21. CASE EnqueueReplayDies
  BY <1>21 DEF EnqueueReplayDies, RwTypeOK, WorkerInv, ProcessInv, VerifierInv, chain,
               ledger, processes, verifier
<1>22. CASE UNCHANGED rwVars
  BY <1>22 DEF rwVars, RwTypeOK, WorkerInv, ProcessInv, VerifierInv, chain, ledger, processes,
               verifier
<1> QED
  BY <1>1, <1>2, <1>3, <1>4, <1>5, <1>6, <1>7, <1>8, <1>9, <1>10, <1>11, <1>12,
     <1>13, <1>14, <1>15, <1>16, <1>17, <1>18, <1>19, <1>20, <1>21, <1>22 DEF RwNext

LEMMA TypeInvHolds == RwSpec => []TypeInv
BY TypeInvInit, TypeInvNext, PTL DEF RwSpec

\* Every variable of the model stays in its type; a recorded range is never
\* inverted, however many mismatches there are and wherever they lie.
THEOREM RwTypeCorrect == RwSpec => []RwTypeOK
<1>1. TypeInv => RwTypeOK
  BY DEF TypeInv
<1> QED
  BY <1>1, TypeInvHolds, PTL
-----------------------------------------------------------------------------
(* What was reorganised away does not come back *)

\* The hash h of block b is not canonical and never will be again.
Gone(b, h) == h # hashOf[b] /\ h <= reorgs

\* Only hashes of the chain so far are known to anyone.
KnownInv ==
  /\ \A b \in Blocks : hashOf[b] <= reorgs
  /\ \A p \in Processes : \A b \in Blocks : fetched[p][b] <= reorgs
  /\ \A b \in Blocks : \A h \in stored[b] : h <= reorgs
  /\ checkpoint.hash <= reorgs
  /\ \A p \in expected : p[2] <= reorgs

\* What a verification condemns or has compared, and what is recorded.
GoneInv ==
  /\ \A p \in condemned : Gone(p[1], p[2])
  /\ \A k \in DOMAIN mismatches : Gone(mismatches[k].block, mismatches[k].expected)
  /\ \A i \in DOMAIN events : \A k \in DOMAIN events[i].mismatches :
       Gone(events[i].mismatches[k].block, events[i].mismatches[k].expected)

HashInv == TypeInv /\ KnownInv /\ GoneInv

LEMMA HashInvInit == RwInit => HashInv
<1> SUFFICES ASSUME RwInit PROVE HashInv
  OBVIOUS
<1>1. KnownInv
  BY DEF RwInit, KnownInv, NoHash, Unfetched
<1>2. GoneInv
  BY DEF RwInit, GoneInv
<1> QED
  BY <1>1, <1>2, TypeInvInit DEF HashInv

\* A step that leaves the chain alone keeps what is gone.
LEMMA GoneStays ==
  ASSUME GoneInv, UNCHANGED <<chain, condemned, mismatches, events>>
  PROVE  GoneInv'
BY DEF GoneInv, Gone, chain

\* What a process holds comes from the chain as it is.
LEMMA FetchedMoves ==
  ASSUME TypeInv, NEW p \in Processes, FetchLogs(p) \/ FetchTip(p)
  PROVE  \A q \in Processes : \A b \in Blocks : fetched'[q][b] \in {hashOf[b], fetched[q][b]}
<1>1. CASE FetchLogs(p)
  <2>1. PICK chunk \in SUBSET BlocksOf(range[p]) :
          fetched' = [fetched EXCEPT ![p] =
                        [b \in Blocks |-> IF b \in chunk THEN hashOf[b] ELSE @[b]]]
    <3> DEFINE ahead == {b \in BlocksOf(range[p]) : fetched[p][b] = NoHash}
               chunk == {b \in ahead : Cardinality({c \in ahead : c < b}) < ChunkSize}
    <3>1. chunk \in SUBSET BlocksOf(range[p])
      OBVIOUS
    <3> QED
      BY <1>1, <3>1 DEF FetchLogs
  <2> QED
    BY <2>1 DEF TypeInv, RwTypeOK
<1>2. CASE FetchTip(p)
  <2>1. range[p].to \in Blocks
    BY <1>2, RangeOfBlocks DEF FetchTip, TypeInv, WorkerInv, ProcessInv
  <2> QED
    BY <1>2, <2>1 DEF FetchTip, TypeInv, RwTypeOK
<1> QED
  BY <1>1, <1>2

\* Only what was fetched becomes live.
LEMMA StoredMoves ==
  ASSUME TypeInv, NEW p \in Processes,
         \/ PersistLogs(p) \/ UpdateMetadata(p) \/ AdvanceCheckpoint(p)
         \/ FinishReplay(p) \/ Abandon(p)
  PROVE  \A b \in Blocks : stored'[b] \subseteq stored[b] \cup {fetched[p][b]}
<1>1. CASE PersistLogs(p)
  <2> DEFINE R == BlocksOf(range[p])
  <2>1. PICK kept \in [R -> SUBSET Hashes], written \in SUBSET R :
          /\ \A b \in R : kept[b] \subseteq stored[b]
          /\ stored' = [b \in Blocks |-> IF b \in written THEN {fetched[p][b]} \cup kept[b]
                                         ELSE stored[b]]
    BY <1>1 DEF PersistLogs
  <2> QED
    BY <2>1
<1>2. CASE UpdateMetadata(p)
  BY <1>2 DEF UpdateMetadata, TypeInv, RwTypeOK
<1>3. CASE AdvanceCheckpoint(p) \/ FinishReplay(p) \/ Abandon(p)
  BY <1>3 DEF AdvanceCheckpoint, FinishReplay, Abandon, ledger
<1> QED
  BY <1>1, <1>2, <1>3

LEMMA HashInvNext == HashInv /\ [RwNext]_rwVars => HashInv'
<1> SUFFICES ASSUME HashInv, [RwNext]_rwVars PROVE KnownInv' /\ GoneInv'
  BY TypeInvNext DEF HashInv
<1> USE DEF HashInv
<1>0. /\ TypeInv /\ RwTypeOK /\ WorkerInv /\ VerifierInv
      /\ reorgs \in Nat
      /\ \A b \in Blocks : hashOf[b] \in Int /\ hashOf[b] <= reorgs
      /\ \A p \in Processes : \A b \in Blocks : fetched[p][b] \in Int
      /\ \A h \in Hashes : h \in Int
  BY DEF TypeInv, RwTypeOK, Hashes, NoHash, KnownInv
<1>1. ASSUME NEW b \in Blocks, Reorg(b) PROVE KnownInv' /\ GoneInv'
  <2>1. reorgs' = reorgs + 1 /\ \A c \in Blocks : hashOf'[c] \in {hashOf[c], reorgs + 1}
    BY <1>1 DEF Reorg
  <2>2. UNCHANGED <<stored, checkpoint, events, expected, condemned, mismatches, fetched>>
    BY <1>1 DEF Reorg, ledger, processes, verifier
  <2>3. \A c \in Blocks : \A h \in Int : h <= reorgs => h <= reorgs'
    BY <1>0, <2>1
  <2>4. KnownInv'
    <3>1. \A c \in Blocks : hashOf'[c] <= reorgs'
      BY <1>0, <2>1
    <3>2. \A p \in Processes : \A c \in Blocks : fetched'[p][c] <= reorgs'
      BY <1>0, <2>2, <2>3 DEF KnownInv
    <3>3. \A c \in Blocks : \A h \in stored'[c] : h <= reorgs'
      BY <1>0, <2>2, <2>3 DEF KnownInv, RwTypeOK
    <3>4. checkpoint'.hash <= reorgs'
      BY <1>0, <2>1, <2>2 DEF KnownInv, RwTypeOK, Hashes, NoHash
    <3>5. \A p \in expected' : p[2] <= reorgs'
      <4> SUFFICES ASSUME NEW p \in expected PROVE p[2] <= reorgs'
        BY <2>2
      <4>1. p[2] \in Int /\ p[2] <= reorgs
        BY <1>0 DEF KnownInv, RwTypeOK, Pairs
      <4> QED
        BY <1>0, <2>1, <4>1
    <3> QED
      BY <3>1, <3>2, <3>3, <3>4, <3>5 DEF KnownInv
  <2>5. ASSUME NEW c \in Blocks, NEW h \in Hashes, Gone(c, h)
        PROVE  h # hashOf'[c] /\ h <= reorgs'
    BY <1>0, <2>1, <2>5 DEF Gone
  <2>6. \A p \in condemned : p[2] # hashOf'[p[1]] /\ p[2] <= reorgs'
    <3>1. \A p \in condemned : p[1] \in Blocks /\ p[2] \in Hashes
      BY <1>0 DEF RwTypeOK, Pairs
    <3> QED
      BY <2>5, <3>1 DEF GoneInv
  <2>7. ASSUME NEW k \in DOMAIN mismatches
        PROVE  /\ mismatches[k].expected # hashOf'[mismatches[k].block]
               /\ mismatches[k].expected <= reorgs'
    <3>1. mismatches[k].block \in Blocks /\ mismatches[k].expected \in Hashes
      BY <1>0, MismatchTyped DEF RwTypeOK
    <3> QED
      BY <2>5, <3>1 DEF GoneInv
  <2>8. ASSUME NEW i \in DOMAIN events, NEW k \in DOMAIN events[i].mismatches
        PROVE  /\ events[i].mismatches[k].expected # hashOf'[events[i].mismatches[k].block]
               /\ events[i].mismatches[k].expected <= reorgs'
    <3>1. /\ events[i].mismatches[k].block \in Blocks
          /\ events[i].mismatches[k].expected \in Hashes
      BY <1>0, EventTyped, MismatchTyped
    <3> QED
      BY <2>5, <3>1 DEF GoneInv
  <2>9. GoneInv'
    BY <2>2, <2>6, <2>7, <2>8 DEF GoneInv, Gone
  <2> QED
    BY <2>4, <2>9
<1>2. CASE \/ \E r \in Replays : EnqueueReplay(r)
           \/ EnqueueReplayDies \/ UNCHANGED rwVars
  <2>1. UNCHANGED <<chain, stored, checkpoint, events, expected, condemned, mismatches,
                    fetched>>
    BY <1>2 DEF EnqueueReplay, EnqueueReplayDies, rwVars, ledger, processes, verifier
  <2> QED
    BY <2>1, GoneStays DEF KnownInv, chain
<1>3. ASSUME NEW p \in Processes,
             \/ \E r \in Ingests : BeginIngest(p, r)
             \/ \E b \in Blocks : BeginRepair(p, b)
             \/ \E r \in Replays : LeaseReplay(p, r)
             \/ MarkRunning(p)
      PROVE  KnownInv' /\ GoneInv'
  <2>1. UNCHANGED <<chain, stored, checkpoint, events, expected, condemned, mismatches,
                    fetched>>
    BY <1>3 DEF BeginIngest, BeginRepair, LeaseReplay, MarkRunning, Start, ledger, verifier
  <2> QED
    BY <2>1, GoneStays DEF KnownInv, chain
<1>4. ASSUME NEW p \in Processes, OrphanRange(p) PROVE KnownInv' /\ GoneInv'
  <2>1. UNCHANGED <<chain, checkpoint, events, expected, condemned, mismatches, fetched>>
    BY <1>4 DEF OrphanRange, verifier
  <2>2. \A b \in Blocks : stored'[b] \subseteq stored[b]
    BY <1>4 DEF OrphanRange
  <2> QED
    BY <2>1, <2>2, GoneStays DEF KnownInv, chain
<1>5. ASSUME NEW p \in Processes, FetchLogs(p) \/ FetchTip(p) PROVE KnownInv' /\ GoneInv'
  <2>1. UNCHANGED <<chain, stored, checkpoint, events, expected, condemned, mismatches>>
    BY <1>5 DEF FetchLogs, FetchTip, ledger, verifier
  <2>2. \A q \in Processes : \A b \in Blocks : fetched'[q][b] \in {hashOf[b], fetched[q][b]}
    BY <1>0, <1>5, FetchedMoves
  <2>3. \A q \in Processes : \A b \in Blocks : fetched'[q][b] <= reorgs
    BY <1>0, <2>2 DEF KnownInv
  <2> QED
    BY <2>1, <2>3, GoneStays DEF KnownInv, chain
<1>6. ASSUME NEW p \in Processes,
             \/ PersistLogs(p) \/ UpdateMetadata(p) \/ AdvanceCheckpoint(p)
             \/ FinishReplay(p) \/ Abandon(p)
      PROVE  KnownInv' /\ GoneInv'
  <2>1. UNCHANGED <<chain, events, expected, condemned, mismatches>>
    BY <1>6 DEF PersistLogs, UpdateMetadata, AdvanceCheckpoint, FinishReplay, Abandon, verifier
  <2>2. \A q \in Processes : \A b \in Blocks : fetched'[q][b] \in {NoHash, fetched[q][b]}
    BY <1>0, <1>6 DEF PersistLogs, UpdateMetadata, AdvanceCheckpoint, FinishReplay, Abandon,
                      Leave, Forget, Unfetched, processes, RwTypeOK
  <2>3. \A q \in Processes : \A b \in Blocks : fetched'[q][b] <= reorgs
    BY <1>0, <2>2 DEF KnownInv, NoHash
  <2>4. checkpoint'.hash <= reorgs
    <3>1. CASE AdvanceCheckpoint(p)
      <4>1. range[p].to \in Blocks
        BY <1>0, <3>1, RangeOfBlocks DEF AdvanceCheckpoint, WorkerInv, ProcessInv
      <4> QED
        BY <1>0, <3>1, <4>1 DEF AdvanceCheckpoint, KnownInv
    <3>2. CASE ~AdvanceCheckpoint(p)
      BY <1>6, <3>2 DEF PersistLogs, UpdateMetadata, FinishReplay, Abandon, KnownInv
    <3> QED
      BY <3>1, <3>2
  <2>5. \A b \in Blocks : stored'[b] \subseteq stored[b] \cup {fetched[p][b]}
    BY <1>0, <1>6, StoredMoves
  <2>6. \A b \in Blocks : \A h \in stored'[b] : h <= reorgs
    BY <2>5 DEF KnownInv
  <2>7. KnownInv'
    BY <2>1, <2>3, <2>4, <2>6 DEF KnownInv, chain
  <2> QED
    BY <2>1, <2>7, GoneStays
<1>7. ASSUME NEW r \in Checks, LoadIndexed(r) PROVE KnownInv' /\ GoneInv'
  <2>1. BlocksOf(r) \subseteq Blocks
    BY RangeOfBlocks
  <2>2. \A p \in Live(r) : p[2] <= reorgs
    BY <2>1 DEF Live, KnownInv
  <2>3. UNCHANGED <<chain, stored, checkpoint, events, mismatches, fetched>>
    BY <1>7 DEF LoadIndexed, ledger, processes
  <2>4. expected' = Live(r) /\ condemned' = {p \in Live(r) : p[2] # hashOf[p[1]]}
    BY <1>7 DEF LoadIndexed
  <2>5. KnownInv'
    BY <2>2, <2>3, <2>4 DEF KnownInv, chain
  <2> QED
    BY <2>2, <2>3, <2>4, <2>5 DEF GoneInv, Gone, chain
<1>8. CASE LoadCheckpoint
  <2> DEFINE own == {p \in {<<checkpoint.block, checkpoint.hash>>} : p[1] \in BlocksOf(checked)}
  <2>1. \A p \in own : p[2] <= reorgs
    BY DEF KnownInv
  <2>2. UNCHANGED <<chain, stored, checkpoint, events, mismatches, fetched>>
    BY <1>8 DEF LoadCheckpoint, ledger, processes
  <2>3. /\ expected' = expected \cup own
        /\ condemned' = condemned \cup {p \in own : p[2] # hashOf[p[1]]}
    BY <1>8 DEF LoadCheckpoint
  <2> HIDE DEF own
  <2>4. KnownInv'
    BY <2>1, <2>2, <2>3 DEF KnownInv, chain
  <2> QED
    BY <2>1, <2>2, <2>3, <2>4 DEF GoneInv, Gone, chain
<1>9. CASE Compare
  <2>1. PICK p \in expected :
          /\ expected' = expected \ {p}
          /\ mismatches' = IF p[2] # hashOf[p[1]]
                           THEN Append(mismatches, [block |-> p[1], expected |-> p[2],
                                                    actual |-> hashOf[p[1]]])
                           ELSE mismatches
    BY <1>9 DEF Compare
  <2>2. UNCHANGED <<chain, stored, checkpoint, events, condemned, fetched>>
    BY <1>9 DEF Compare, ledger, processes
  <2>3. KnownInv'
    BY <2>1, <2>2 DEF KnownInv, chain
  <2>4. \A k \in DOMAIN mismatches' : Gone(mismatches'[k].block, mismatches'[k].expected)
    <3>1. CASE p[2] = hashOf[p[1]]
      BY <2>1, <3>1 DEF GoneInv
    <3>2. CASE p[2] # hashOf[p[1]]
      <4> DEFINE m == [block |-> p[1], expected |-> p[2], actual |-> hashOf[p[1]]]
      <4>1. Gone(m.block, m.expected)
        BY <2>1, <3>2 DEF Gone, KnownInv
      <4>2. mismatches' = Append(mismatches, m) /\ mismatches \in Seq(Mismatch)
        BY <1>0, <2>1, <3>2 DEF RwTypeOK
      <4> HIDE DEF m
      <4>3. \A k \in DOMAIN mismatches' :
              mismatches'[k] = m \/ (k \in DOMAIN mismatches /\ mismatches'[k] = mismatches[k])
        BY <4>2
      <4> QED
        BY <4>1, <4>3 DEF GoneInv
    <3> QED
      BY <3>1, <3>2
  <2> QED
    BY <2>2, <2>3, <2>4 DEF GoneInv, Gone, chain
<1>10. CASE RecordRange
  <2> DEFINE n == RunLength(mismatches)
             row == EventRow(SubSeq(mismatches, 1, n))
  <2>1. mismatches \in Seq(Mismatch) /\ mismatches # <<>>
    BY <1>0, <1>10 DEF RecordRange, RwTypeOK
  <2>2. /\ n \in 1..Len(mismatches) /\ DOMAIN row.mismatches = 1..n
        /\ \A k \in 1..n : row.mismatches[k] = mismatches[k]
    BY <2>1, EventRowCorrect, RunLengthCorrect
  <2>3. events' = Append(events, row) /\ mismatches' = SubSeq(mismatches, n + 1, Len(mismatches))
    BY <1>10 DEF RecordRange, InsertEvent, Rest
  <2>4. UNCHANGED <<chain, stored, checkpoint, expected, condemned, fetched>>
    BY <1>10 DEF RecordRange, ledger, processes
  <2> HIDE DEF n, row
  <2>5. ASSUME NEW k \in DOMAIN mismatches'
        PROVE  n + k \in DOMAIN mismatches /\ mismatches'[k] = mismatches[n + k]
    BY <2>1, <2>2, <2>3, <2>5
  <2>6. \A i \in DOMAIN events' : events'[i] = row \/ (i \in DOMAIN events /\ events'[i] = events[i])
    BY <1>0, <2>3 DEF RwTypeOK
  <2>7. \A k \in DOMAIN row.mismatches : Gone(row.mismatches[k].block, row.mismatches[k].expected)
    BY <2>1, <2>2 DEF GoneInv
  <2>8. KnownInv'
    BY <2>4 DEF KnownInv, chain
  <2> QED
    BY <2>4, <2>5, <2>6, <2>7, <2>8 DEF GoneInv, Gone, chain
<1>11. CASE VerifyEnds
  <2>1. UNCHANGED <<chain, stored, checkpoint, events, fetched>>
    BY <1>11 DEF VerifyEnds, ledger, processes
  <2>2. expected' = {} /\ condemned' = {} /\ mismatches' = <<>>
    BY <1>11 DEF VerifyEnds
  <2> QED
    BY <2>1, <2>2 DEF KnownInv, GoneInv, Gone, chain
<1>12. CASE LinkReorgEvents
  <2>1. UNCHANGED <<chain, stored, checkpoint, expected, condemned, mismatches, fetched>>
    BY <1>12 DEF LinkReorgEvents, ledger, processes, verifier
  <2>2. /\ DOMAIN events' = DOMAIN events
        /\ \A i \in DOMAIN events : events'[i].mismatches = events[i].mismatches
    BY <1>0, <1>12, LinkKeeps
  <2> QED
    BY <2>1, <2>2 DEF KnownInv, GoneInv, Gone, chain
<1> QED
  BY <1>1, <1>2, <1>3, <1>4, <1>5, <1>6, <1>7, <1>8, <1>9, <1>10, <1>11, <1>12
     DEF RwNext

LEMMA HashInvHolds == RwSpec => []HashInv
BY HashInvInit, HashInvNext, PTL DEF RwSpec

-----------------------------------------------------------------------------
(* Everything condemned is recorded *)

PairOf(m) == <<m.block, m.expected>>

\* What a verification has loaded and condemned is still to be compared, is
\* among its mismatches, or is recorded.
HeldInv ==
  \A p \in condemned :
    p \in expected \/ p \in Recorded
    \/ \E k \in DOMAIN mismatches : p = PairOf(mismatches[k])

\* Rows are only added, and keep their mismatches.
LEMMA RecordedGrows ==
  ASSUME DOMAIN events \subseteq DOMAIN events',
         \A i \in DOMAIN events : events'[i].mismatches = events[i].mismatches
  PROVE  Recorded \subseteq Recorded'
BY DEF Recorded

\* What RecordRange does: the first n mismatches become a row, the others stay.
LEMMA RecordRangeMoves ==
  ASSUME TypeInv, RecordRange
  PROVE  LET n == RunLength(mismatches)
             row == EventRow(SubSeq(mismatches, 1, n))
         IN  /\ n \in 1..Len(mismatches) /\ Len(mismatches) \in Nat
             /\ DOMAIN mismatches = 1..Len(mismatches)
             /\ DOMAIN mismatches' = 1..(Len(mismatches) - n)
             /\ \A k \in DOMAIN mismatches' : mismatches'[k] = mismatches[n + k]
             /\ Len(events) \in Nat /\ DOMAIN events = 1..Len(events)
             /\ DOMAIN events' = 1..(Len(events) + 1)
             /\ events'[Len(events) + 1] = row
             /\ \A i \in DOMAIN events : events'[i] = events[i]
             /\ DOMAIN row.mismatches = 1..n
             /\ \A k \in 1..n : row.mismatches[k] = mismatches[k]
<1> DEFINE n == RunLength(mismatches)
           row == EventRow(SubSeq(mismatches, 1, n))
<1>1. mismatches \in Seq(Mismatch) /\ mismatches # <<>> /\ events \in Seq(EventRows)
  BY DEF RecordRange, TypeInv, RwTypeOK
<1>2. /\ n \in 1..Len(mismatches) /\ DOMAIN row.mismatches = 1..n
      /\ row \in EventRows
      /\ \A k \in 1..n : row.mismatches[k] = mismatches[k]
  BY <1>1, EventRowCorrect, RunLengthCorrect
<1>3. events' = Append(events, row) /\ mismatches' = SubSeq(mismatches, n + 1, Len(mismatches))
  BY DEF RecordRange, InsertEvent, Rest
<1> HIDE DEF n, row
<1>4. /\ DOMAIN mismatches' = 1..(Len(mismatches) - n)
      /\ \A k \in DOMAIN mismatches' : mismatches'[k] = mismatches[n + k]
  BY <1>1, <1>2, <1>3
<1>5. /\ DOMAIN events' = 1..(Len(events) + 1)
      /\ events'[Len(events) + 1] = row
      /\ \A i \in DOMAIN events : events'[i] = events[i]
  BY <1>1, <1>2, <1>3
<1> QED
  BY <1>1, <1>2, <1>4, <1>5 DEF n, row

LEMMA HeldInvNext == HashInv /\ HeldInv /\ [RwNext]_rwVars => HeldInv'
<1> SUFFICES ASSUME HashInv, HeldInv, [RwNext]_rwVars PROVE HeldInv'
  OBVIOUS
<1>0. TypeInv /\ RwTypeOK /\ VerifierInv /\ GoneInv
  BY DEF HashInv, TypeInv
<1>1. CASE UNCHANGED <<events, expected, condemned, mismatches>>
  BY <1>1 DEF HeldInv, Recorded
<1>2. ASSUME NEW r \in Checks, LoadIndexed(r) PROVE HeldInv'
  BY <1>2 DEF LoadIndexed, HeldInv
<1>3. CASE LoadCheckpoint
  <2>1. /\ expected \subseteq expected' /\ condemned' \subseteq condemned \cup expected'
        /\ UNCHANGED <<events, mismatches>>
    BY <1>3 DEF LoadCheckpoint
  <2> QED
    BY <2>1 DEF HeldInv, Recorded
<1>4. CASE Compare
  <2>1. PICK p \in expected :
          /\ expected' = expected \ {p}
          /\ mismatches' = IF p[2] # hashOf[p[1]]
                           THEN Append(mismatches, [block |-> p[1], expected |-> p[2],
                                                    actual |-> hashOf[p[1]]])
                           ELSE mismatches
    BY <1>4 DEF Compare
  <2>2. UNCHANGED <<events, condemned>> /\ mismatches \in Seq(Mismatch)
    BY <1>0, <1>4 DEF Compare, RwTypeOK
  <2>3. Recorded' = Recorded
    BY <2>2 DEF Recorded
  <2>4. CASE p[2] = hashOf[p[1]]
    <3>1. p \notin condemned
      BY <1>0, <2>4 DEF GoneInv, Gone
    <3> QED
      BY <2>1, <2>2, <2>3, <2>4, <3>1 DEF HeldInv
  <2>5. CASE p[2] # hashOf[p[1]]
    <3> DEFINE m == [block |-> p[1], expected |-> p[2], actual |-> hashOf[p[1]]]
    <3>1. PairOf(m) = p
      BY <1>0, <2>1 DEF PairOf, RwTypeOK, Pairs
    <3>2. mismatches' = Append(mismatches, m)
      BY <2>1, <2>5
    <3> HIDE DEF m
    <3>3. /\ DOMAIN mismatches \subseteq DOMAIN mismatches'
          /\ \A k \in DOMAIN mismatches : mismatches'[k] = mismatches[k]
          /\ Len(mismatches) + 1 \in DOMAIN mismatches'
          /\ mismatches'[Len(mismatches) + 1] = m
      BY <2>2, <3>2
    <3>4. \E k \in DOMAIN mismatches' : p = PairOf(mismatches'[k])
      BY <3>1, <3>3
    <3>5. \A q \in condemned' : q = p \/ q \in expected' \/ q \in Recorded'
                                \/ \E k \in DOMAIN mismatches : q = PairOf(mismatches[k])
      BY <2>1, <2>2, <2>3 DEF HeldInv
    <3>6. \A q : (\E k \in DOMAIN mismatches : q = PairOf(mismatches[k]))
               => \E k \in DOMAIN mismatches' : q = PairOf(mismatches'[k])
      BY <3>3
    <3> QED
      BY <3>4, <3>5, <3>6 DEF HeldInv
  <2> QED
    BY <2>4, <2>5
<1>5. CASE RecordRange
  <2> DEFINE n == RunLength(mismatches)
             row == EventRow(SubSeq(mismatches, 1, n))
  <2>1. /\ n \in 1..Len(mismatches) /\ Len(mismatches) \in Nat
        /\ DOMAIN mismatches = 1..Len(mismatches)
        /\ DOMAIN mismatches' = 1..(Len(mismatches) - n)
        /\ \A k \in DOMAIN mismatches' : mismatches'[k] = mismatches[n + k]
    BY <1>0, <1>5, RecordRangeMoves
  <2>2. /\ Len(events) \in Nat /\ DOMAIN events = 1..Len(events)
        /\ DOMAIN events' = 1..(Len(events) + 1)
        /\ events'[Len(events) + 1] = row
        /\ \A i \in DOMAIN events : events'[i] = events[i]
        /\ DOMAIN row.mismatches = 1..n
        /\ \A k \in 1..n : row.mismatches[k] = mismatches[k]
    BY <1>0, <1>5, RecordRangeMoves
  <2>3. UNCHANGED <<expected, condemned>>
    BY <1>5 DEF RecordRange
  <2> HIDE DEF n, row
  <2>4. DOMAIN events \subseteq DOMAIN events' /\ Len(events) + 1 \in DOMAIN events'
    BY <2>2
  <2>5. Recorded \subseteq Recorded'
    BY <2>2, <2>4, RecordedGrows
  <2>6. ASSUME NEW k \in DOMAIN mismatches
        PROVE  \/ PairOf(mismatches[k]) \in Recorded'
               \/ \E j \in DOMAIN mismatches' : PairOf(mismatches'[j]) = PairOf(mismatches[k])
    <3>1. CASE k <= n
      <4>1. k \in DOMAIN row.mismatches /\ row.mismatches[k] = mismatches[k]
        BY <2>1, <2>2, <3>1
      <4> DEFINE L == Len(events) + 1
      <4>2. L \in DOMAIN events' /\ k \in DOMAIN events'[L].mismatches
        BY <2>2, <2>4, <4>1
      <4> HIDE DEF L
      <4>3. <<events'[L].mismatches[k].block, events'[L].mismatches[k].expected>> \in Recorded'
        BY <4>2 DEF Recorded
      <4>4. PairOf(row.mismatches[k]) \in Recorded'
        BY <2>2, <4>3 DEF PairOf, L
      <4> QED
        BY <4>1, <4>4
    <3>2. CASE k > n
      <4>1. k - n \in DOMAIN mismatches' /\ n + (k - n) = k
        BY <2>1, <3>2
      <4>2. mismatches'[k - n] = mismatches[k]
        BY <2>1, <4>1
      <4> QED
        BY <4>1, <4>2
    <3> QED
      BY <2>1, <3>1, <3>2
  <2> QED
    BY <2>3, <2>5, <2>6 DEF HeldInv
<1>6. CASE VerifyEnds
  BY <1>6 DEF VerifyEnds, HeldInv
<1>7. CASE LinkReorgEvents
  <2>1. UNCHANGED <<expected, condemned, mismatches>>
    BY <1>7 DEF LinkReorgEvents, verifier
  <2>2. Recorded \subseteq Recorded'
    BY <1>0, <1>7, LinkKeeps, RecordedGrows
  <2> QED
    BY <2>1, <2>2 DEF HeldInv
<1>8. CASE \/ \E b \in Blocks : Reorg(b)
           \/ \E p \in Processes :
                \/ \E r \in Ingests : BeginIngest(p, r)
                \/ \E b \in Blocks : BeginRepair(p, b)
                \/ \E r \in Replays : LeaseReplay(p, r)
                \/ MarkRunning(p) \/ OrphanRange(p) \/ FetchLogs(p) \/ PersistLogs(p)
                \/ UpdateMetadata(p) \/ FetchTip(p) \/ AdvanceCheckpoint(p)
                \/ FinishReplay(p) \/ Abandon(p)
           \/ \E r \in Replays : EnqueueReplay(r)
           \/ EnqueueReplayDies \/ UNCHANGED rwVars
  <2>1. UNCHANGED <<events, expected, condemned, mismatches>>
    BY <1>8 DEF Reorg, BeginIngest, BeginRepair, LeaseReplay, Start, MarkRunning,
                OrphanRange, FetchLogs, PersistLogs, UpdateMetadata, FetchTip,
                AdvanceCheckpoint, FinishReplay, Abandon, EnqueueReplay,
                EnqueueReplayDies, rwVars, verifier
  <2> QED
    BY <1>1, <2>1
<1> QED
  BY <1>2, <1>3, <1>4, <1>5, <1>6, <1>7, <1>8 DEF RwNext

\* A verification that runs to its end has recorded every hash that it loaded
\* and that was not canonical then: reorganisations while it asks the node only
\* add to what is gone, and a run that is recorded leaves the list together.
THEOREM NothingCondemnedIsMissed == RwSpec => []NoMismatchMissed
<1>1. RwInit => HeldInv
  BY DEF RwInit, HeldInv
<1>2. HeldInv => NoMismatchMissed
  BY DEF HeldInv, NoMismatchMissed
<1> QED
  BY <1>1, <1>2, HashInvHolds, HeldInvNext, PTL DEF RwSpec

-----------------------------------------------------------------------------
(* A row's range is its mismatches' blocks *)

\* Rows are recorded and linked, and otherwise left alone.
LEMMA OnlyRecordAndLink ==
  ASSUME [RwNext]_rwVars, ~RecordRange, ~LinkReorgEvents
  PROVE  UNCHANGED events
BY DEF RwNext, Reorg, BeginIngest, BeginRepair, LeaseReplay, Start, MarkRunning,
       OrphanRange, FetchLogs, PersistLogs, UpdateMetadata, FetchTip,
       AdvanceCheckpoint, FinishReplay, Abandon, EnqueueReplay, LoadIndexed, LoadCheckpoint, Compare, VerifyEnds, EnqueueReplayDies, rwVars

LEMMA RowsAreExactNext == TypeInv /\ RowsAreExact /\ [RwNext]_rwVars => RowsAreExact'
<1> SUFFICES ASSUME TypeInv, RowsAreExact, [RwNext]_rwVars PROVE RowsAreExact'
  OBVIOUS
<1>0. RwTypeOK
  BY DEF TypeInv
<1>1. CASE RecordRange
  <2> DEFINE n == RunLength(mismatches)
             row == EventRow(SubSeq(mismatches, 1, n))
  <2>1. mismatches \in Seq(Mismatch) /\ mismatches # <<>>
    BY <1>0, <1>1 DEF RecordRange, RwTypeOK
  <2>2. BlocksOf(row) = {row.mismatches[k].block : k \in DOMAIN row.mismatches}
    BY <2>1, EventRowCorrect
  <2>3. /\ Len(events) \in Nat /\ DOMAIN events = 1..Len(events)
        /\ DOMAIN events' = 1..(Len(events) + 1)
        /\ events'[Len(events) + 1] = row
        /\ \A i \in DOMAIN events : events'[i] = events[i]
    BY <1>1, RecordRangeMoves
  <2> HIDE DEF n, row
  <2>4. \A i \in DOMAIN events' : events'[i] = row \/ (i \in DOMAIN events /\ events'[i] = events[i])
    BY <2>3
  <2> QED
    BY <2>2, <2>4 DEF RowsAreExact
<1>2. CASE LinkReorgEvents
  <2>1. /\ DOMAIN events' = DOMAIN events
        /\ \A i \in DOMAIN events :
             /\ events'[i].from = events[i].from /\ events'[i].to = events[i].to
             /\ events'[i].mismatches = events[i].mismatches
    BY <1>0, <1>2, LinkKeeps
  <2> QED
    BY <2>1 DEF RowsAreExact, BlocksOf
<1>3. CASE UNCHANGED events
  BY <1>3 DEF RowsAreExact
<1>4. ASSUME ~RecordRange, ~LinkReorgEvents PROVE UNCHANGED events
  BY <1>4, OnlyRecordAndLink
<1> QED
  BY <1>1, <1>2, <1>3, <1>4

\* A row names exactly the blocks of its mismatches: a run of consecutive blocks
\* becomes one row, and linking the row leaves its range and mismatches alone.
THEOREM RecordedRangesAreExact == RwSpec => []RowsAreExact
<1>1. RwInit => RowsAreExact
  BY DEF RwInit, RowsAreExact
<1> QED
  BY <1>1, TypeInvHolds, RowsAreExactNext, PTL DEF RwSpec

-----------------------------------------------------------------------------
(* A replay repairs the rows that were linked before it orphaned its range *)

\* The process p executes the replay of r and has orphaned its range.
Past(p, r) == task[p] = "replay" /\ range[p] = r /\ phase[p] \notin {"leased", "orphan"}

\* If the hash of m is live then another process has committed it late.
Excused(m, r) ==
  m.expected \in stored[m.block] =>
    \E l \in late : l.block = m.block /\ l.hash = m.expected /\ l.by # r

\* No execution of the replay of r holds the hash of m.
NotHeld(m, r) == \A p \in Processes : Past(p, r) => fetched[p][m.block] # m.expected

\* The replay of r has succeeded, or an execution of it has orphaned the range.
Cleared(r) == status[r] = "succeeded" \/ \E p \in Processes : Past(p, r)

\* From the moment an execution of the replay has orphaned the range, a hash of
\* the row that is live was brought back by others: what the replay fetches from
\* then on is canonical, and the row's hashes never are again.
RowInv(e) ==
  /\ e.job \in Replays
  /\ \A k \in DOMAIN e.mismatches :
       LET m == e.mismatches[k]
       IN /\ m.block \in BlocksOf(e.job)
          /\ NotHeld(m, e.job)
          /\ Cleared(e.job) => Excused(m, e.job)

RepairInv == \A i \in DOMAIN events : events[i].fresh => RowInv(events[i])

\* One step, for one mismatch m of a row that is linked to the replay of r.
MismatchKept(m, r) ==
  NotHeld(m, r) /\ (Cleared(r) => Excused(m, r)) => NotHeld(m, r)' /\ (Cleared(r)' => Excused(m, r)')

\* A step that leaves the ledger alone, takes no process past its orphaning
\* and succeeds with no job, except by one that is past it.
LEMMA QuietStep ==
  ASSUME NEW m, NEW r, UNCHANGED <<stored, late>>,
         \A p \in Processes : Past(p, r)' => Past(p, r) /\ (fetched'[p][m.block] # m.expected
                                               \/ fetched'[p][m.block] = fetched[p][m.block]),
         status'[r] = "succeeded" => Cleared(r)
  PROVE  MismatchKept(m, r)
BY DEF MismatchKept, NotHeld, Cleared, Excused

LEMMA MismatchKeptNext ==
  ASSUME TypeInv, [RwNext]_rwVars, NEW m \in Mismatch, NEW r \in Replays,
         m.block \in BlocksOf(r), m.expected # hashOf[m.block]
  PROVE  MismatchKept(m, r)
<1>0. /\ RwTypeOK /\ WorkerInv
      /\ m.block \in Blocks /\ m.expected \in Hashes
      /\ r # Nobody /\ NoHash \notin Hashes
  BY RangeOfBlocks DEF TypeInv, Mismatch, NoHash, Hashes
<1>1. CASE \/ \E b \in Blocks : Reorg(b)
           \/ \E c \in Checks : LoadIndexed(c)
           \/ LoadCheckpoint \/ Compare \/ RecordRange \/ VerifyEnds
           \/ LinkReorgEvents \/ EnqueueReplayDies \/ UNCHANGED rwVars
  <2>1. UNCHANGED <<stored, late, status, task, phase, range, fetched>>
    BY <1>1 DEF Reorg, LoadIndexed, LoadCheckpoint, Compare, RecordRange, VerifyEnds,
                LinkReorgEvents, EnqueueReplayDies, rwVars, ledger, processes
  <2> QED
    BY <2>1, QuietStep DEF Past, Cleared
<1>2. ASSUME NEW x \in Replays, EnqueueReplay(x) PROVE MismatchKept(m, r)
  <2>1. UNCHANGED <<stored, late, task, phase, range, fetched>>
    BY <1>2 DEF EnqueueReplay, ledger, processes
  <2>2. status'[r] = "succeeded" => status[r] = "succeeded"
    BY <1>0, <1>2 DEF EnqueueReplay, RwTypeOK
  <2> QED
    BY <2>1, <2>2, QuietStep DEF Past, Cleared
<1>3. ASSUME NEW p \in Processes, NEW t, NEW x, NEW ph,
             Start(p, t, x, ph), t = "replay" => ph = "leased",
             status'[r] = "succeeded" => status[r] = "succeeded"
      PROVE  MismatchKept(m, r)
  <2>1. /\ UNCHANGED <<stored, late, fetched>>
        /\ task' = [task EXCEPT ![p] = t] /\ range' = [range EXCEPT ![p] = x]
        /\ phase' = [phase EXCEPT ![p] = ph]
    BY <1>3 DEF Start, ledger
  <2>2. \A q \in Processes : Past(q, r)' => Past(q, r)
    BY <1>0, <1>3, <2>1 DEF Past, RwTypeOK
  <2> QED
    BY <1>3, <2>1, <2>2, QuietStep DEF Cleared
<1>4. ASSUME NEW p \in Processes,
             \/ \E x \in Ingests : BeginIngest(p, x)
             \/ \E b \in Blocks : BeginRepair(p, b)
             \/ \E x \in Replays : LeaseReplay(p, x)
      PROVE  MismatchKept(m, r)
  <2>1. \E t, x, ph : Start(p, t, x, ph) /\ (t = "replay" => ph = "leased")
    <3>1. ASSUME NEW x \in Ingests, BeginIngest(p, x)
          PROVE  Start(p, "ingest", x, "fetch") /\ "ingest" # "replay"
      BY <3>1 DEF BeginIngest
    <3>2. ASSUME NEW b \in Blocks, BeginRepair(p, b)
          PROVE  Start(p, "repair", [from |-> b, to |-> b], "fetch") /\ "repair" # "replay"
      BY <3>2 DEF BeginRepair
    <3>3. ASSUME NEW x \in Replays, LeaseReplay(p, x)
          PROVE  Start(p, "replay", x, "leased")
      BY <3>3 DEF LeaseReplay
    <3> QED
      BY <1>4, <3>1, <3>2, <3>3
  <2>2. status'[r] = "succeeded" => status[r] = "succeeded"
    BY <1>0, <1>4 DEF BeginIngest, BeginRepair, LeaseReplay, RwTypeOK
  <2> QED
    BY <1>3, <2>1, <2>2
<1>5. ASSUME NEW p \in Processes, MarkRunning(p) PROVE MismatchKept(m, r)
  <2>1. /\ UNCHANGED <<stored, late, fetched, task, range>>
        /\ phase' = [phase EXCEPT ![p] = "orphan"]
    BY <1>5 DEF MarkRunning, Proceed, ledger
  <2>2. \A q \in Processes : Past(q, r)' => Past(q, r)
    BY <1>0, <2>1 DEF Past, RwTypeOK
  <2>3. status'[r] = "succeeded" => status[r] = "succeeded"
    BY <1>0, <1>5 DEF MarkRunning, RwTypeOK
  <2> QED
    BY <2>1, <2>2, <2>3, QuietStep DEF Cleared
<1>6. ASSUME NEW p \in Processes, OrphanRange(p) PROVE MismatchKept(m, r)
  <2> DEFINE R == BlocksOf(range[p])
  <2>1. /\ UNCHANGED <<status, fetched, task, range>>
        /\ phase' = [phase EXCEPT ![p] = "fetch"] /\ phase[p] = "orphan"
        /\ stored' = [b \in Blocks |-> IF b \in R THEN {} ELSE stored[b]]
        /\ late' = {l \in late : l.block \notin R}
    BY <1>6 DEF OrphanRange, Proceed
  <2>2. fetched[p] = Unfetched
    BY <1>0, <2>1 DEF WorkerInv, ProcessInv
  <2>3. \A q \in Processes : Past(q, r)' => Past(q, r) \/ (q = p /\ range[p] = r)
    BY <1>0, <2>1 DEF Past, RwTypeOK
  <2>4. NotHeld(m, r) => NotHeld(m, r)'
    BY <1>0, <2>1, <2>2, <2>3 DEF NotHeld, Unfetched
  <2>5. CASE m.block \in R
    <3>1. Excused(m, r)'
      BY <1>0, <2>1, <2>5 DEF Excused
    <3> QED
      BY <2>4, <3>1 DEF MismatchKept
  <2>6. CASE m.block \notin R
    <3>1. Excused(m, r) => Excused(m, r)'
      BY <1>0, <2>1, <2>6 DEF Excused
    <3>2. Cleared(r)' => Cleared(r)
      BY <1>0, <2>1, <2>3, <2>6 DEF Cleared
    <3> QED
      BY <2>4, <3>1, <3>2 DEF MismatchKept
  <2> QED
    BY <2>5, <2>6
<1>7. ASSUME NEW p \in Processes, FetchLogs(p) PROVE MismatchKept(m, r)
  <2>1. /\ UNCHANGED <<stored, late, status, task, range>> /\ phase[p] = "fetch"
        /\ \E ph : phase' = [phase EXCEPT ![p] = ph]
    BY <1>7 DEF FetchLogs, Proceed, ledger
  <2>2. \A q \in Processes : fetched'[q][m.block] \in {hashOf[m.block], fetched[q][m.block]}
    BY <1>0, <1>7, FetchedMoves
  <2>3. \A q \in Processes : Past(q, r)' => Past(q, r)
    BY <1>0, <2>1 DEF Past, RwTypeOK
  <2> QED
    BY <2>1, <2>2, <2>3, QuietStep DEF Cleared
<1>8. ASSUME NEW p \in Processes, FetchTip(p) PROVE MismatchKept(m, r)
  <2>1. /\ UNCHANGED <<stored, late, status, task, range>> /\ phase[p] = "tip"
        /\ \E ph : phase' = [phase EXCEPT ![p] = ph]
    BY <1>8 DEF FetchTip, Proceed, ledger
  <2>2. \A q \in Processes : fetched'[q][m.block] \in {hashOf[m.block], fetched[q][m.block]}
    BY <1>0, <1>8, FetchedMoves
  <2>3. \A q \in Processes : Past(q, r)' => Past(q, r)
    BY <1>0, <2>1 DEF Past, RwTypeOK
  <2> QED
    BY <2>1, <2>2, <2>3, QuietStep DEF Cleared
<1>9. ASSUME NEW p \in Processes, NEW W \in SUBSET BlocksOf(range[p]),
             \A b \in Blocks : b \in W \/ stored'[b] = stored[b],
             \A b \in Blocks : stored'[b] \subseteq stored[b] \cup {fetched[p][b]},
             late' = late \cup Belated(p, W),
             task[p] = "replay" => Past(p, range[p]),
             UNCHANGED <<status>>,
             \A q \in Processes : Past(q, r)' => Past(q, r) /\
               (fetched'[q][m.block] = NoHash \/ fetched'[q][m.block] = fetched[q][m.block])
      PROVE  MismatchKept(m, r)
  <2>1. NotHeld(m, r) => NotHeld(m, r)'
    BY <1>0, <1>9 DEF NotHeld
  <2>2. Cleared(r)' => Cleared(r)
    BY <1>9 DEF Cleared
  <2>3. ASSUME NotHeld(m, r), Excused(m, r) PROVE Excused(m, r)'
    <3>1. CASE m.expected \in stored[m.block]
      BY <1>9, <2>3, <3>1 DEF Excused
    <3>2. CASE m.expected \in stored'[m.block] /\ m.expected \notin stored[m.block]
      <4> DEFINE l == [block |-> m.block, hash |-> fetched[p][m.block],
                       by |-> IF task[p] = "replay" THEN range[p] ELSE Nobody]
      <4>1. m.block \in W /\ m.expected = fetched[p][m.block]
        BY <1>0, <1>9, <3>2
      <4>2. l \in Belated(p, W)
        BY <4>1 DEF Belated
      <4>3. l.by # r
        BY <1>0, <1>9, <2>3, <4>1 DEF NotHeld
      <4>4. l.block = m.block /\ l.hash = m.expected
        BY <4>1
      <4> HIDE DEF l
      <4>5. l \in late'
        BY <1>9, <4>2
      <4> QED
        BY <4>3, <4>4, <4>5 DEF Excused
    <3> QED
      BY <3>1, <3>2 DEF Excused
  <2> QED
    BY <2>1, <2>2, <2>3 DEF MismatchKept
<1>10. ASSUME NEW p \in Processes, PersistLogs(p) PROVE MismatchKept(m, r)
  <2> DEFINE R == BlocksOf(range[p])
  <2>1. PICK kept \in [R -> SUBSET Hashes], written \in SUBSET R :
          /\ stored' = [b \in Blocks |-> IF b \in written THEN {fetched[p][b]} \cup kept[b]
                                         ELSE stored[b]]
          /\ late' = late \cup Belated(p, written)
    BY <1>10 DEF PersistLogs
  <2>2. /\ UNCHANGED <<status, task, range>> /\ phase[p] = "persist"
        /\ \E ph : phase' = [phase EXCEPT ![p] = ph]
        /\ fetched' = [fetched EXCEPT ![p] = Unfetched]
    BY <1>10 DEF PersistLogs, Proceed, Forget
  <2>3. \A b \in Blocks : stored'[b] \subseteq stored[b] \cup {fetched[p][b]}
    BY <1>10, StoredMoves
  <2>4. task[p] = "replay" => Past(p, range[p])
    BY <2>2 DEF Past
  <2>5. \A q \in Processes : Past(q, r)' => Past(q, r)
    BY <1>0, <2>2 DEF Past, RwTypeOK
  <2>6. \A q \in Processes :
          fetched'[q][m.block] = NoHash \/ fetched'[q][m.block] = fetched[q][m.block]
    BY <1>0, <2>2 DEF RwTypeOK, Unfetched
  <2>7. \A b \in Blocks : b \in written \/ stored'[b] = stored[b]
    BY <2>1
  <2> QED
    BY <1>9, <2>1, <2>2, <2>3, <2>4, <2>5, <2>6, <2>7
<1>11. ASSUME NEW p \in Processes, UpdateMetadata(p) PROVE MismatchKept(m, r)
  <2> DEFINE W == {range[p].from}
  <2>1. /\ UNCHANGED <<status, task, range, phase, fetched>>
        /\ phase[p] = "persist" /\ task[p] = "repair" /\ late' = late \cup Belated(p, W)
        /\ \E kept : stored' = [stored EXCEPT ![range[p].from] = kept]
    BY <1>11 DEF UpdateMetadata, processes
  <2>2. W \in SUBSET BlocksOf(range[p])
    BY <1>0, <2>1 DEF WorkerInv, ProcessInv, BlockRange, BlocksOf, Blocks
  <2>3. \A b \in Blocks : stored'[b] \subseteq stored[b] \cup {fetched[p][b]}
    BY <1>11, StoredMoves
  <2>4. \A b \in Blocks : b \in W \/ stored'[b] = stored[b]
    BY <1>0, <2>1 DEF RwTypeOK
  <2> HIDE DEF W
  <2>5. \A q \in Processes : Past(q, r)' => Past(q, r)
    BY <2>1 DEF Past
  <2> QED
    BY <1>9, <2>1, <2>2, <2>3, <2>4, <2>5
<1>12. ASSUME NEW p \in Processes, Leave(p), UNCHANGED <<stored, late>>,
              status'[r] = "succeeded" => Cleared(r)
       PROVE  MismatchKept(m, r)
  <2>1. /\ task' = [task EXCEPT ![p] = "none"] /\ range' = [range EXCEPT ![p] = Nobody]
        /\ phase' = [phase EXCEPT ![p] = "idle"]
        /\ fetched' = [fetched EXCEPT ![p] = Unfetched]
    BY <1>12 DEF Leave, Forget
  <2>2. \A q \in Processes : Past(q, r)' => q # p /\ Past(q, r)
    BY <1>0, <2>1 DEF Past, RwTypeOK
  <2>3. \A q \in Processes : q # p => fetched'[q] = fetched[q]
    BY <1>0, <2>1 DEF RwTypeOK
  <2> QED
    BY <1>12, <2>2, <2>3, QuietStep
<1>13. ASSUME NEW p \in Processes, AdvanceCheckpoint(p) PROVE MismatchKept(m, r)
  <2>1. Leave(p) /\ UNCHANGED <<stored, late, status>>
    BY <1>13 DEF AdvanceCheckpoint, ledger
  <2> QED
    BY <1>12, <2>1 DEF Cleared
<1>14. ASSUME NEW p \in Processes, FinishReplay(p) PROVE MismatchKept(m, r)
  <2>1. /\ Leave(p) /\ UNCHANGED <<stored, late>> /\ phase[p] = "done"
        /\ status' = [status EXCEPT ![range[p]] = "succeeded"]
    BY <1>14 DEF FinishReplay, ledger
  <2>2. Past(p, range[p])
    BY <1>0, <2>1 DEF Past, WorkerInv, ProcessInv
  <2>3. status'[r] = "succeeded" => Cleared(r)
    BY <1>0, <2>1, <2>2 DEF Cleared, RwTypeOK
  <2> QED
    BY <1>12, <2>1, <2>3
<1>15. ASSUME NEW p \in Processes, Abandon(p) PROVE MismatchKept(m, r)
  <2>1. Leave(p) /\ UNCHANGED <<stored, late>>
    BY <1>15 DEF Abandon, ledger
  <2>2. status'[r] = "succeeded" => status[r] = "succeeded"
    BY <1>0, <1>15 DEF Abandon, RwTypeOK
  <2> QED
    BY <1>12, <2>1, <2>2 DEF Cleared
<1> QED
  BY <1>1, <1>2, <1>4, <1>5, <1>6, <1>7, <1>8, <1>10, <1>11, <1>13, <1>14, <1>15 DEF RwNext

LEMMA RepairInvNext ==
  HashInv /\ RowsAreExact /\ RepairInv /\ [RwNext]_rwVars => RepairInv'
<1> SUFFICES ASSUME HashInv, RowsAreExact, RepairInv, [RwNext]_rwVars PROVE RepairInv'
  OBVIOUS
<1>0. TypeInv /\ RwTypeOK /\ GoneInv
  BY DEF HashInv, TypeInv
\* A row that is there already, and stays linked as it is.
<1>1. ASSUME NEW i \in DOMAIN events, NEW e, e = events[i], e.fresh
      PROVE  RowInv(e)'
  <2>1. RowInv(e)
    BY <1>1 DEF RepairInv
  <2>2. ASSUME NEW k \in DOMAIN e.mismatches, NEW m, m = e.mismatches[k]
        PROVE  /\ m.block \in BlocksOf(e.job)
               /\ NotHeld(m, e.job)'
               /\ Cleared(e.job)' => Excused(m, e.job)'
    <3>1. /\ e.job \in Replays /\ m.block \in BlocksOf(e.job)
          /\ NotHeld(m, e.job) /\ (Cleared(e.job) => Excused(m, e.job))
      BY <2>1, <2>2 DEF RowInv
    <3>2. m \in Mismatch /\ m.expected # hashOf[m.block]
      BY <1>0, <1>1, <2>2, EventTyped, MismatchTyped DEF GoneInv, Gone
    <3>3. MismatchKept(m, e.job)
      BY <1>0, <3>1, <3>2, MismatchKeptNext
    <3> QED
      BY <3>1, <3>3 DEF MismatchKept
  <2>3. e.job \in Replays
    BY <2>1 DEF RowInv
  <2> QED
    BY <2>2, <2>3 DEF RowInv
<1>2. ASSUME \A i \in DOMAIN events' : events'[i].fresh =>
               \/ i \in DOMAIN events /\ events'[i] = events[i]
               \/ \A e : e = events'[i] => RowInv(e)'
      PROVE  RepairInv'
  <2>1. \A i \in DOMAIN events' : events'[i].fresh => \A e : e = events'[i] => RowInv(e)'
    BY <1>1, <1>2
  <2> QED
    BY <2>1 DEF RepairInv, RowInv, NotHeld, Cleared, Excused, Past
<1>3. CASE RecordRange
  <2> DEFINE n == RunLength(mismatches)
             row == EventRow(SubSeq(mismatches, 1, n))
  <2>1. /\ Len(events) \in Nat /\ DOMAIN events = 1..Len(events)
        /\ DOMAIN events' = 1..(Len(events) + 1)
        /\ events'[Len(events) + 1] = row
        /\ \A i \in DOMAIN events : events'[i] = events[i]
    BY <1>0, <1>3, RecordRangeMoves
  <2>2. row.fresh = FALSE
    BY DEF EventRow
  <2> HIDE DEF n, row
  <2>3. \A i \in DOMAIN events' : events'[i].fresh => i \in DOMAIN events /\ events'[i] = events[i]
    BY <2>1, <2>2
  <2> QED
    BY <1>2, <2>3
<1>4. CASE LinkReorgEvents
  <2>1. /\ UNCHANGED <<stored, late, status, task, phase, range, fetched>>
        /\ DOMAIN events' = DOMAIN events /\ linking \in Replays
    BY <1>0, <1>4, LinkKeeps DEF LinkReorgEvents, ledger, processes
  <2>2. ASSUME NEW i \in DOMAIN events, events'[i].fresh, events'[i] # events[i],
               NEW e, e = events'[i]
        PROVE  RowInv(e)'
    <3>1. /\ e.job = linking /\ StillToOrphan(linking)
          /\ events[i].from >= linking.from /\ events[i].to <= linking.to
          /\ e.mismatches = events[i].mismatches
      BY <1>0, <1>4, <2>2, LinkKeeps
    <3>2. linking.from \in Int /\ linking.to \in Int
      BY <2>1 DEF BlockRange, Blocks
    <3>3. events[i].from \in Int /\ events[i].to \in Int
      BY <1>0, EventTyped DEF EventRows, Blocks
    <3>4. BlocksOf(events[i]) \subseteq BlocksOf(linking)
      BY <3>1, <3>2, <3>3 DEF BlocksOf
    <3>5. \A k \in DOMAIN e.mismatches : e.mismatches[k].block \in BlocksOf(linking)
      BY <3>1, <3>4 DEF RowsAreExact
    <3>6. status[linking] # "succeeded" /\ \A p \in Processes : ~Past(p, linking)
      BY <3>1 DEF StillToOrphan, Executing, Past
    <3>7. status'[e.job] # "succeeded" /\ \A p \in Processes : ~Past(p, e.job)'
      BY <2>1, <3>1, <3>6 DEF Past
    <3>8. ~Cleared(e.job)' /\ \A k \in DOMAIN e.mismatches : NotHeld(e.mismatches[k], e.job)'
      BY <3>7 DEF Cleared, NotHeld
    <3> QED
      BY <2>1, <3>1, <3>5, <3>8 DEF RowInv
  <2> QED
    BY <1>2, <2>1, <2>2
<1>5. CASE UNCHANGED events
  BY <1>2, <1>5
<1>6. ASSUME ~RecordRange, ~LinkReorgEvents PROVE UNCHANGED events
  BY <1>6, OnlyRecordAndLink
<1> QED
  BY <1>3, <1>4, <1>5, <1>6

\* A row is linked to a replay before any execution of it has orphaned its
\* range, and the replay has succeeded: then the hashes the row complains of are
\* live only where another process, which fetched the block before it was
\* replaced, has committed it since.  For any number of processes, ranges,
\* reorganisations and verifications, and whatever leases run out.
THEOREM LinkedReplaysRepair == RwSpec => []LinkedReplayRepairs
<1>1. RwInit => RepairInv
  BY DEF RwInit, RepairInv
<1>2. RepairInv => LinkedReplayRepairs
  BY DEF RepairInv, RowInv, Cleared, Excused, LinkedReplayRepairs
<1> QED
  BY <1>1, <1>2, HashInvHolds, RecordedRangesAreExact, RepairInvNext, PTL DEF RwSpec
=============================================================================
