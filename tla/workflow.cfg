SPECIFICATION Spec
CONSTANTS
  NumCandidates = 2
  RepairBudget = 0
  NumPlans = 1
  NumFingerprints = 1
  CommitPolicy = "Manual"
  Parallelism = 2
  MaxAttempts = 2
  Faults = {}
  RequestKinds = {"Approve", "ApproveCommit", "Cancel"}
  MaxErrors = 0
  MaxWrites = 1
  MaxCrashes = 0
  MaxIncidents = 3
  MaxRequests = 3
INVARIANTS
  TypeOK
  GatesBelongToApplied
  CancelledRunIsQuiet
  WinnerEvidenceIsFresh
PROPERTIES
  NothingDecidedAfterTheEnd
  CommitIsGated
  NeverTriedTwice
