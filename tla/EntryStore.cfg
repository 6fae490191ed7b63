SPECIFICATION StoreSpec
CONSTANTS
  s1 = s1
  s2 = s2
  aws = aws
  sel = sel
  Id = {1, 2}
  Row <- MCRow
  Change <- MCChange
  FileEntry <- MCFile
  Cli = {c1, c2}
  NoRow = NoRow
  MaxWrites = 5
  MaxLoads = 2
INVARIANTS StoreTypeOK OneRowPerId DeletedStaysDeleted EditsKept
CHECK_DEADLOCK FALSE
