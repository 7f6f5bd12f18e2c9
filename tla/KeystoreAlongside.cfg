\* An archive command is run beside a running server.
CONSTANTS
  k1 = k1
  k2 = k2
  k3 = k3
  None = None
  Keys = {k1, k2}
  Roles = {"dev", "bundle"}
  Singletons = {"dev"}
  Before = {k1}
  MaxArchived = 1
  Commands = "between"
  MaxAsks = 3
  MaxFaults = 0
  MaxStops = 0
SPECIFICATION Spec
CHECK_DEADLOCK FALSE
INVARIANT KeyKept
