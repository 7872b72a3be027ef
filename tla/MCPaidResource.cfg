CONSTANTS
  c1 = c1  c2 = c2  c3 = c3  c4 = c4  c5 = c5
  s1 = s1
  m1 = m1  m2 = m2
  x402Body = x402Body  mppBody = mppBody
  None = None
  Calls = {c1, c2, c3, c4, c5}
  Settlements = {s1}
  Merchants = {m1, m2}
  Digests = {x402Body, mppBody}
  Caller <- MCCaller
  Subject <- MCSubject
  Body <- MCBody
  Direct = {c4, c5}
  Owner <- MCOwner
SYMMETRY MCSymmetry
SPECIFICATION Spec
INVARIANTS
  TypeOK
  ReleaseIsRecorded
  StartedOnce
PROPERTIES
  DeliveryLifecycle
  RefusedOnlyOnConflict
CHECK_DEADLOCK FALSE
