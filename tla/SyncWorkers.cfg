CONSTANTS
  b1 = b1
  b2 = b2
  k1 = k1
  k2 = k2
  v1 = v1
  v2 = v2
  None = None
  Blank = Blank
  Browser = {b1}
  Key = {k1, k2}
  Value = {v1, v2}
  AtStart = {k1, k2}
  Ranges <- Unlimited
  EditKeys <- OneEditor
  JobKeys = {k2}
  JobOps = {"update"}
  WorkersWrite = TRUE
  MaxWrites = 1
  MaxEdits = 0
  MaxFails = 0
SPECIFICATION Spec
INVARIANT NothingMissed
