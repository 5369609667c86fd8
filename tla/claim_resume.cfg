SPECIFICATION FairSpec
CONSTANTS
  NumCandidates = 1
  RepairBudget = 0
  NumPlans = 1
  NumFingerprints = 1
  CommitPolicy = "Automatic"
  Parallelism = 1
  MaxAttempts = 2
  Faults = {}
  RequestKinds = {"Approve"}
  MaxErrors = 0
  MaxWrites = 0
  MaxCrashes = 1
  MaxIncidents = 2
  MaxRequests = 1
PROPERTIES
  CrashedCandidatesResume
