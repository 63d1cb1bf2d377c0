----------------------------- MODULE MCJobQueue -----------------------------
(***************************************************************************)
(* Small instances of JobQueue.                                            *)
(***************************************************************************)
EXTENDS JobQueueService, TLC

CONSTANTS w1, w2, ingest1, ingest2, replay1

MCReplayJobs == Jobs \cap {replay1}
MCServesAll == [w \in Workers |-> Jobs]

\* A retry budget of two for the first ingest job, of one for the others.
MCMaxAttempts == [j \in Jobs |-> IF j = ingest1 THEN 2 ELSE 1]

\* The two workers are interchangeable when they serve the same jobs.
WorkerSymmetry == Permutations(Workers)
=============================================================================
