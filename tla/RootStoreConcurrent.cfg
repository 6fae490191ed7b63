SPECIFICATION Spec
CONSTANTS
  Absent = Absent
  Torn = Torn
  Root = {1, 2, 3, 4}
  Proc = {p1, p2, p3}
  Serialised = FALSE
  MaxForces = 2
  MaxClis = 1
  MaxStops = 0
  MaxMisses = 1
SYMMETRY ProcSymmetry
INVARIANT WholeWhenQuiet
CHECK_DEADLOCK FALSE
