SPECIFICATION FairSpec
CONSTANTS
  NumCandidates = 2
  RepairBudget = 0
  NumPlans = 1
  NumFingerprints = 1
  CommitPolicy = "Automatic"
  Parallelism = 1
  MaxAttempts = 2
  Faults = {"Transient", "TaskFailure", "PolicyViolation", "PermanentConfiguration",
            "UserActionRequired", "InternalInvariant"}
  RequestKinds = {"Approve", "Cancel"}
  MaxErrors = 1
  MaxWrites = 0
  MaxCrashes = 1
  MaxIncidents = 2
  MaxRequests = 2
PROPERTIES
  DispatchReturns
