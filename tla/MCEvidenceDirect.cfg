CONSTANTS
  r1 = r1  r2 = r2
  c1 = c1  c2 = c2  d1 = d1
  k1 = k1
  j1 = j1
  None = None
  Records = {r1, r2}
  Completes = {c1, c2}
  Downloads = {d1}
  Cleaners = {k1}
  Jobs = {j1}
  JobOf <- MCJobOf
  Size <- MCSize
  Subject <- MCSubject
  GlobalObjects = 2
  GlobalBytes = 3
  JobObjects = 2
  JobBytes = 2
  BatchLimit = 1
  ListLimit = 1
  Covered = {r1, r2}
  Rank <- MCRank
  MaxUploads <- MCMaxUploads
  Crashes = 1

SPECIFICATION FairSpec
INVARIANTS
  TypeOK
  QuotaHolds
  FinalizedReadable
PROPERTIES
  VaultSpec
  SlotsReturn
CHECK_DEADLOCK FALSE
