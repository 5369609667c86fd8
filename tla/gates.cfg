SPECIFICATION Spec
CONSTANTS
  VendoredSegments <- MCVendored
  MaximumSurveyDepth = 2
  UserDocuments <- MCUserDocuments
  RepositoryDocuments <- MCRepositoryDocuments
  Projects <- MCProjects
  MaxInterventions = 3
  Requests <- MCRequests
  Outputs <- MCOutputs
  Endings = {"ok", "failed", "timed_out", "cancelled"}
  Coverages = {0, 2}
  Worktrees <- MCWorktrees
  RepairBudget = 1
CHECK_DEADLOCK FALSE
INVARIANTS
  GatesTypeOK
  TrustIsForTheseBytes
  RepositoryOnlyTightens
  NothingLostQuietly
  InitKeepsSettings
  RunIsCovered
  EligibleIsProven
  NothingAgainstEligible
  ProvenIsEligible
