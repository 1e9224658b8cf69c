CONSTANTS
  o1 = o1
  o2 = o2
  c1 = c1
  c2 = c2
  Ops <- MCOps
  Contents <- MCContents
  WithEvidence <- MCWithEvidence
  MaxDocs = 1
  MaxRequests = 2
  MaxVersion = 3

SYMMETRY Symmetry
SPECIFICATION Spec
INVARIANTS
  TypeOK
  AcceptedOnce
  ReceivedIsTrue
  OneContentPerId
CHECK_DEADLOCK FALSE
