SPECIFICATION FairSpec
CONSTANTS
  Roles = {"planner", "implementer"}
  Root <- MCRoot
  Sensitive <- MCSensitive
  Protected <- MCProtected
  Approved = {}
  InitialTree <- MCTree
  RawPaths <- MCRawPaths
  Patches <- MCPatches
  WorkFiles <- MCWorkFiles
  Commands = {"tests"}
  Subdirectory <- MCSubdirectory
  CallsPerTurn = 2
  TurnBudget = 2
  ToolBudget = 2
CHECK_DEADLOCK FALSE
INVARIANTS
  AgentTypeOK
  OutsideUntouched
  ProtectedKept
  NothingLeftRunning
  BudgetsHold
PROPERTIES
  ReadOnlyKeepsWorktree
  InvocationEnds
