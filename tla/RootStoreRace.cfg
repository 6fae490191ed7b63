SPECIFICATION Spec
CONSTANTS
  Absent = Absent
  Torn = Torn
  Root = {1, 2}
  Proc = {p1, p2}
  Serialised = FALSE
  MaxForces = 0
  MaxClis = 0
  MaxStops = 0
  MaxMisses = 0
INVARIANT RootPersisted
CHECK_DEADLOCK FALSE
