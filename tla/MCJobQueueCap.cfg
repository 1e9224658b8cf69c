SPECIFICATION Spec
CONSTANTS
  j1 = j1
  j2 = j2
  w1 = w1
  w2 = w2
  Jobs <- MCJobs
  Workers <- MCWorkers
  Reconcilable <- MCReconcilable
  MaxAttempts = 2
  ClaimLimit = 2
  MaxFaults = 1
  MaxRequeues = 1
SYMMETRY MCSymmetry
INVARIANTS
  AttemptCap
CHECK_DEADLOCK FALSE
