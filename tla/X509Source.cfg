SPECIFICATION FairSpec
CONSTANTS
  NoSvid = NoSvid
  Forever = Forever
  Lifetime = {7, 11}
  CredLife = {Forever, 9}
  Second = 3
  Latency = 1
  MaxRoots = 2
  Cap = 10
INVARIANTS TypeOK BundleNotOlder ExpiredByFailure RootArrives FewAttempts
PROPERTIES LastGoodKept CloseStops
