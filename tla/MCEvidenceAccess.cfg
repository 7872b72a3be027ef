CONSTANTS
  b1 = b1  b2 = b2  b3 = b3
  alice = alice  bob = bob  carol = carol
  c1 = c1  c2 = c2  c3 = c3
  None = None
  Requests = {c1, c2, c3}
  Wallets = {alice, bob, carol}
  Blocks = {b1, b2, b3}
  FirstTip = b1
  Chain <- MCChain
  Job <- MCJob
  Escrow <- MCEscrow
  Actor <- MCActor
  Provider <- MCProvider
  Operation <- MCOperation
  Gate = 2
  Limit <- MCLimit
  MaxWindows = 1
  Moves = 2

SPECIFICATION Spec
INVARIANT
  TypeOK
PROPERTY
  GrantedAtTip
CHECK_DEADLOCK FALSE
