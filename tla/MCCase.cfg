SPECIFICATION Spec
CONSTANTS
  exit = exit
  sign = sign
  Items <- MCItems
  Mandatory <- MCMandatory
  WithdrawFrom <- MCWithdrawFrom
  Racing <- MCRacing
  HoldScopes <- MCScopes
  MaxFindings = 1
  MaxNotices = 2
  MaxInflight = 1
  MaxVisits = 2
  MaxBookings = 2
  MaxHolds = 1
  MaxPauses = 1
INVARIANTS
  TypeOK
  WaitingHasOneVisit
  AssignmentFollowsAttempt
  WaitingHasNotice
  StageHasClock
  ClockStopsOnlyOnHold
PROPERTIES
  ApprovalStands
  HoldFreezesCase
CHECK_DEADLOCK FALSE
