SPECIFICATION Spec
CONSTANTS
  p1 = p1
  p2 = p2
  b1 = b1
  b2 = b2
  k1 = k1
  case = case
  itsHold = itsHold
  created = created
  Principals = {p1, p2}
  Aggregates = {case, itsHold}
  Collections = {created}
  Entity <- MCEntity
  Keys = {k1}
  Bodies = {b1, b2}
  MaxRequests = 3
  MaxVersion = 2
  MaxSearches = 2
  MaxReplies = 2
INVARIANTS
  TypeOK
  AppliedOnce
  NoLostUpdate
  FenceSuffices
  ChainVerifies

  
SYMMETRY Symmetric
CHECK_DEADLOCK FALSE
