SPECIFICATION Spec
CONSTANTS
  NumCandidates = 1
  RepairBudget = 0
  NumPlans = 2
  NumFingerprints = 1
  CommitPolicy = "None"
  Parallelism = 1
  MaxAttempts = 2
  Faults = {}
  RequestKinds = {"Update", "Approve", "Revise", "Reject"}
  MaxErrors = 0
  MaxWrites = 0
  MaxCrashes = 0
  MaxIncidents = 3
  MaxRequests = 3
PROPERTIES
  WorkNeedsApproval
  HistoryIsDurable
