CONSTANTS
  r1 = r1  r2 = r2
  p1 = p1  p2 = p2  p3 = p3  g1 = g1
  s1 = s1  s2 = s2
  k1 = k1  k2 = k2
  j1 = j1
  None = None
  Records = {r1, r2}
  Puts = {p1, p2, p3}
  Gets = {g1}
  Hosts = {s1, s2}
  Keys = {k1, k2}
  FirstKey = k1
  Host <- MCHost
  Subject <- MCSubject
  Jobs = {j1}
  JobOf <- MCJobOf
  Size <- MCSize
  Envelope <- MCEnvelope
  MaxRecords = 2
  MaxStoredBytes = 5
  JobRecords = 2
  JobBytes = 2
  BatchLimit = 1
  Installs = 1
  Lives <- MCLives

SPECIFICATION Spec
INVARIANTS
  TypeOK
  WithinLimits
  RowsOpenable
PROPERTY
  AuthorizedAndKept
CHECK_DEADLOCK FALSE
