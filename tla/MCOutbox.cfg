SPECIFICATION FairSpec
CONSTANTS
  m1 = m1
  staff = staff
  applicant = applicant
  w1 = w1
  w2 = w2
  Messages <- MCMessages
  People <- MCPeople
  Reachable <- MCReachable
  Workers <- MCWorkers
  MaxAttempts = 2
  ClaimLimit = 1
  MaxFaults = 1
  MaxRequeues = 1
INVARIANTS
  TypeOK
  FanOutComplete
  CompleteMeansSent
PROPERTIES
  IntentsComplete
  DeliveriesSettle
CHECK_DEADLOCK FALSE
