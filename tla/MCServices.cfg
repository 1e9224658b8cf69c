CONSTANTS
  m1 = m1  m2 = m2  n1 = n1  n2 = n2
  p1 = p1  p2 = p2  p3 = p3
  e1 = e1  e2 = e2  e3 = e3
  perpetual = perpetual
  Uploads = {m1, m2}
  Hashes = {n1, n2}
  MaxFiles = 1
  MaxPuts = 3
  Staff = {p1, p2, p3}
  GrantIds = {"g1", "g2", "g3"}
  AccessRequests = {"r1", "r2"}
  InitialGrants <- FirstGrants
  Founders = {p1, p2}
  Beneficiary <- ForNewcomer
  Involved <- ByFounder
  MaxEpoch = 3
  Lifetime = 2
  Cooldown = 1
  SendsPerWindow = 2
  MaxAttempts = 2
  MaxChallenges = 3
  LastInstant = 2
  Versions = {m1, m2}
  Editors = {p1, p2}
  Payloads = {n1, n2}
  MaxTime = 2
  Events = {e1, e2, e3}
  SequenceOf <- Positions
  VersionOf <- Positions
  MaxOperators = 1
  MaxConflicts = 2
  Certificates = {m1, m2, perpetual}
  Renewals = {"r1"}
  Perpetual = {perpetual}
  Windows <- TwoWindows
  Forever = 7
  StartedAt = 1
  Budget = 3
  ReminderBudget = 1
  EscalationDelay = 1
  Schedulers = {m1, m2}
  MaxManual = 1
  MaxHolds = 2
  Pages = {p1, p2}
  Delegated = {p2}
  Fields = {"field"}
  Values = {n1, n2}
  Blank = "blank"
  MaxRevision = 3
  MaxFailures = 1
  MaxEdits = 2
  Until = 1
  Tickets = {"t1", "t2"}
  Own = {"t2"}
  ExportIds = {"x"}
  Cases = {m1, m2}
  MaxHandlers = 2
  People = {p1, p2}
  Supervisors = {p1}
  Attempts = {m1, m2}
  Intervals <- Appointments
  MaxAssignments = 2
  MaxAbsences = 1
  Proposers = {m1, m2}
  Reviewers = {p1}
  Operations = {n1, n2}
  Applications = {"x1", "x2", "x3"}
  ServiceOf <- ToService
  WardOf <- InWard
  CategoryOf <- OfCategory
  Entries <- Table
  Readings = {1, 2}
  Queues = {"q1", "q2", "closed"}
  ActiveQueues = {"q1", "q2"}
  DedicatedTo <- ForService
  CentralOf <- Central
  Tries = 2
  ChecklistItems = {"a", "b"}
  MandatoryItems = {"a"}
  EvidenceItems = {"a"}
  OptionalItems = {"a"}
  Inspectors = {"i", "d"}
  Verifiers = {"i", "d"}
  Deciders = {"d"}
  MaxReports = 2
  MaxVerifying = 1
SPECIFICATION Spec
SYMMETRY Symmetric
CHECK_DEADLOCK FALSE
INVARIANTS TypeOK SessionsKnowPowers OnePolicyAtATime FourEyes DeliveredOnce RowsAgree
PROPERTY FinalIsFinal
