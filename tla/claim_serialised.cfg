SPECIFICATION Spec
CONSTANTS
  NumCandidates = 2
  RepairBudget = 0
  NumPlans = 1
  NumFingerprints = 1
  CommitPolicy = "Automatic"
  Parallelism = 2
  MaxAttempts = 2
  Faults = {}
  RequestKinds = {"Approve", "Cancel"}
  MaxErrors = 0
  MaxWrites = 0
  MaxCrashes = 0
  MaxIncidents = 2
  MaxRequests = 2
INVARIANTS
  LogReplays
