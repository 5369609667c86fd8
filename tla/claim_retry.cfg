SPECIFICATION Spec
CONSTANTS
  NumCandidates = 1
  RepairBudget = 0
  NumPlans = 1
  NumFingerprints = 1
  CommitPolicy = "Automatic"
  Parallelism = 1
  MaxAttempts = 2
  Faults = {"Transient"}
  RequestKinds = {"Approve"}
  MaxErrors = 1
  MaxWrites = 0
  MaxCrashes = 0
  MaxIncidents = 2
  MaxRequests = 1
INVARIANTS
  TransientFailureIsRetried
