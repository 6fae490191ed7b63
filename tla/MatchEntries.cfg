SPECIFICATION Spec
CONSTANTS
  aws = aws
  github = github
  k1 = k1
  k2 = k2
  v = v
  w = w
  NoKey = NoKey
  NoEntry = NoEntry
  Attestor <- MCAttestor
  Key <- MCKey
  Value <- MCValue
  Entry <- MCEntry
  Tables <- MCTables
INVARIANT ReturnsAnswer
CHECK_DEADLOCK FALSE
