SPECIFICATION Spec
CONSTANTS
  NumCandidates = 1
  RepairBudget = 2
  NumPlans = 1
  NumFingerprints = 1
  CommitPolicy = "Automatic"
  Parallelism = 1
  MaxAttempts = 2
  Faults = {"Transient", "InternalInvariant", "PolicyViolation", "PermanentConfiguration", "TaskFailure", "UserActionRequired", "Cancelled"}
  RequestKinds = {"Approve"}
  MaxErrors = 1
  MaxWrites = 0
  MaxCrashes = 1
  MaxIncidents = 3
  MaxRequests = 1
INVARIANTS
  WinnerEvidenceIsFresh
  HistoryIsPath
  RepairsWithinBudget
  RepairsAreCharged
