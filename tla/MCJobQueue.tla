----------------------------- MODULE MCJobQueue -----------------------------
(* Two jobs and two workers; j2 has no reconciliation procedure. *)
EXTENDS JobQueue, TLC

CONSTANTS j1, j2, w1, w2

MCJobs == {j1, j2}
MCWorkers == {w1, w2}
MCReconcilable == {j1}

\* Workers are interchangeable; jobs are not (Reconcilable tells them apart).
MCSymmetry == Permutations(MCWorkers)
=============================================================================
