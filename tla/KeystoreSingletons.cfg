\* A wallet in a singleton role is deleted, replaced and restored.
CONSTANTS
  k1 = k1
  k2 = k2
  k3 = k3
  None = None
  Keys = {k1, k2}
  Roles = {"dev", "v8main", "bundle"}
  Singletons = {"dev", "v8main"}
  Before = {}
  MaxArchived = 1
  Commands = "stopped"
  MaxAsks = 4
  MaxFaults = 0
  MaxStops = 1
SPECIFICATION Spec
CHECK_DEADLOCK FALSE
SYMMETRY Alike
INVARIANT OneHolder
