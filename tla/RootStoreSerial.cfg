SPECIFICATION FairSpec
CONSTANTS
  Absent = Absent
  Torn = Torn
  Root = {1, 2, 3, 4, 5}
  Proc = {p1, p2}
  Serialised = TRUE
  MaxForces = 1
  MaxClis = 1
  MaxStops = 2
  MaxMisses = 1
INVARIANTS TypeOK RootContinuity
PROPERTIES SoundPairKept Settles IsRegister
CHECK_DEADLOCK FALSE
