SPECIFICATION Spec
CONSTANTS
  own = own
  foreign = foreign
  aws = aws
  gha = gha
  deno = deno
  acct = acct
  mine = mine
  web = web
  NoKey = NoKey
  NoEntry = NoEntry
  NoRow = NoRow
  EmptyAud = EmptyAud
  Attestor = {aws, gha, deno}
  Key <- MCKey
  Value = {mine}
  Row <- MCRow
  Change <- MCChange
  FileEntry <- MCFile
  Evidence <- MCEvidence
  Enabled = {aws, gha}
  Aws = aws
  AwsMaxAge = 1
  AwsMaxLead = 0
  AllowedAccountIDs = {1}
  OwnId = {own}
  Audience = {web}
  Second = 4
  WordHalf = 64
  DefaultTTL = 8
  MaxTTL = 16
  HandlerDefault = 5
  Skew = 0
  Id = {1, 2}
  Cli = {c1}
  Req = {q1}
  RootEnd = 9
  SigningTTL = 3
  MaxWrites = 1
  MaxLoads = 1
  MaxNow = 2
INVARIANT WithinPlatformToken
CHECK_DEADLOCK FALSE
