CONSTANTS
  r1 = r1
  c1 = c1
  k1 = k1
  j1 = j1
  p1 = p1  p2 = p2
  q1 = q1  q2 = q2
  t1 = t1
  None = None
  Records = {r1}
  Completes = {c1}
  Downloads = {}
  Cleaners = {k1}
  Jobs = {j1}
  JobOf <- MCJobOf
  Size <- MCSize
  Subject <- MCSubject
  GlobalObjects = 1
  GlobalBytes = 1
  JobObjects = 1
  JobBytes = 1
  BatchLimit = 1
  ListLimit = 2
  Covered = {r1}
  Rank <- MCRank
  MaxUploads <- MCMaxUploads
  Crashes = 1
  Passes = {p1, p2}
  Recoveries = {q1, q2}
  RecoveryOf <- MCRecoveryOf
  Retirers = {t1}
  Losses = 2
SYMMETRY MCSymmetry
ACTION_CONSTRAINT MCAnswersAtOnce
SPECIFICATION BackupSpec
INVARIANTS
  BackupTypeOK
  VerifiedHasCopy
  CopiesRecorded
  RecoveryStands
  OnlyRestoresLinger
CHECK_DEADLOCK FALSE
