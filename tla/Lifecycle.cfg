SPECIFICATION FairSpec
CONSTANTS
  Client = {c1, c2, c3}
INVARIANTS TypeOK GracefulStop QuietExitWasAsked
PROPERTIES NoWorkAfterShutdown SignalStops FailureEnds
CHECK_DEADLOCK FALSE
