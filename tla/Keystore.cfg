\* Archive commands are run while the server is stopped; writes fail, processes die.
CONSTANTS
  k1 = k1
  k2 = k2
  k3 = k3
  None = None
  Keys = {k1, k2, k3}
  Roles = {"dev", "bundle"}
  Singletons = {"dev"}
  Before = {}
  MaxArchived = 1
  Commands = "stopped"
  MaxAsks = 6
  MaxFaults = 1
  MaxStops = 2
SPECIFICATION Spec
CHECK_DEADLOCK FALSE
SYMMETRY Alike
INVARIANTS
  KeyKept
  GoneStaysGone
