SPECIFICATION Spec
CONSTANTS
  k1 = k1
  Never = Never
  NoToken = NoToken
  NoSnap = NoSnap
  NoWorker = NoWorker
  Worker = {w1, w2}
  Key = {k1}
  Token <- MCToken
  CloudflareTTL = 2
  GitHubTTL = 2
  Timeout = 1
  Leeway = 1
  MaxNow = 4
SYMMETRY WorkerSymmetry
INVARIANTS TypeOK RetiredKeyDies PublishedKeyWorks KeysNeverOlder MutexReleased
