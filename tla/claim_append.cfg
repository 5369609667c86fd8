SPECIFICATION Spec
CONSTANTS
  Procs = {s, c}
  Servers = {s}
  MaxAppends = 3
  MaxCrashes = 0
  MaxFaults = 0
  Server = s
  Clients = {}
  PageLimit = 2
  Capacity = 1
  MaxConnects = 2
PROPERTIES
  AppendContinues
