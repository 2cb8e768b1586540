CONSTANTS
  b1 = b1
  b2 = b2
  k1 = k1
  k2 = k2
  v1 = v1
  v2 = v2
  None = None
  Blank = Blank
  Browser = {b1}
  Key = {k1, k2}
  Value = {v1, v2}
  AtStart = {k1}
  Ranges <- LimitedK1
  EditKeys <- AllEdit
  JobKeys = {k1, k2}
  JobOps = {"update", "constrain", "add", "remove"}
  WorkersWrite = TRUE
  MaxWrites = 2
  MaxEdits = 2
  MaxFails = 1
SPECIFICATION FairSpec
INVARIANTS StampsAreFresh
PROPERTIES AckedIsApplied ParserRecovers
