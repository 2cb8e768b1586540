CONSTANTS
  b1 = b1
  b2 = b2
  k1 = k1
  k2 = k2
  v1 = v1
  v2 = v2
  None = None
  Blank = Blank
  Browser = {b1, b2}
  Key = {k1, k2}
  Value = {v1, v2}
  AtStart = {k1}
  Ranges <- Unlimited
  EditKeys <- OneEditor
  JobKeys = {k2}
  JobOps = {"update", "add"}
  WorkersWrite = FALSE
  MaxWrites = 1
  MaxEdits = 2
  MaxFails = 1
SPECIFICATION FairSpec
INVARIANTS UpdatesParse NothingMissed EditsAreOnTheirWay InFlightIsCurrent
PROPERTY Converges
