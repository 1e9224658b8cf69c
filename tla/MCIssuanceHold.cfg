SPECIFICATION Spec
CONSTANTS
  r1 = r1
  w1 = w1
  w2 = w2
  pdf = pdf
  wrong = wrong
  none = none
  Requests <- MCRequests
  Workers <- MCWorkers
  Renders <- MCRenders
  OtherArtifacts <- MCOther
  None = none
  MaxAttempts = 2
  ClaimLimit = 1
  MaxFaults = 1
  MaxRequeues = 1
  MaxResumes = 1
SYMMETRY MCSymmetry
PROPERTIES
  HoldWaits
CHECK_DEADLOCK FALSE
