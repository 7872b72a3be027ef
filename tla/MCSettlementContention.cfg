CONSTANTS
  r1 = r1  r2 = r2
  w1 = w1  w2 = w2
  q1 = q1  q2 = q2
  t1 = t1  t2 = t2
  None = None
  Requests = {r1, r2}
  Workers = {w1}
  Quotes = {q1, q2}
  Txs = {t1, t2}
  Submissions <- MCContended
  BatchSize = 2
  MinConfirmations = 2
  ReorgDepth = 0
  MaxCrashes = 1
SPECIFICATION Spec
INVARIANTS
  TypeOK
  NoPaymentReuse
  BroadcastOnce
  ConfirmationIsAtomic
  AnswersStayTrue
  ReceiptAtCanonicalDepth
PROPERTIES
  LedgerSpec
CHECK_DEADLOCK FALSE
