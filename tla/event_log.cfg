SPECIFICATION Spec
CONSTANTS
  Procs = {s, c}
  Servers = {s}
  MaxAppends = 2
  MaxCrashes = 1
  MaxFaults = 1
  Server = s
  Clients = {b}
  PageLimit = 2
  Capacity = 1
  MaxConnects = 2
INVARIANTS
  LogTypeOK
  AcknowledgedSurvive
  CachesAgree
  OnlyFaultsFail
  NothingMissedUnnoticed
PROPERTIES
  Implements
