CONSTANTS
  r1 = r1  r2 = r2
  w1 = w1  w2 = w2
  q1 = q1  q2 = q2
  t1 = t1  t2 = t2
  None = None
  Requests = {r1, r2}
  Workers = {w1, w2}
  Quotes = {q1}
  Txs = {t1}
  Submissions <- MCRetry
  BatchSize = 1
  MinConfirmations = 2
  ReorgDepth = 1
  MaxCrashes = 2
SYMMETRY MCSymmetry
SPECIFICATION Spec
INVARIANTS
  TableChecks
PROPERTIES
  StatusLifecycle
CHECK_DEADLOCK FALSE
