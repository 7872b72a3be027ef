CONSTANTS
  r1 = r1  r2 = r2
  w1 = w1  w2 = w2
  q1 = q1  q2 = q2
  t1 = t1  t2 = t2
  None = None
  Requests = {r1}
  Workers = {w1}
  Quotes = {q1}
  Txs = {t1}
  Submissions <- MCSingle
  BatchSize = 1
  MinConfirmations = 1
  ReorgDepth = 0
  MaxCrashes = 0
SPECIFICATION Spec
INVARIANTS
  RejectionPersisted
CHECK_DEADLOCK FALSE
