CONSTANTS
  m1 = m1  i1 = i1  k1 = k1  k2 = k2  g1 = g1  g2 = g2
  t1 = t1  a1 = a1  w1 = w1  w2 = w2
  read = read  settle = settle  old = old  new = new
  None = None
  Invitations = {i1}
  Challenges = {k1, k2}
  Clients = {g1, g2}
  Tokens = {t1}
  Requests = {a1}
  Merchants = {m1}
  Wallets = {w1, w2}
  Scopes = {read, settle}
  ApiKeys = {old, new}
  Inviter <- MCInviter
  Granted <- MCGranted
  Presents <- MCPresents
  ForWallet <- MCForWallet
  AsClient <- MCAsClient
  Knows = {t1}
  FirstKey <- MCFirstKey
  Provisions = 2

SPECIFICATION FairSpec
INVARIANTS
  TypeOK
  OneClientPerInvitation
  AccessAsGranted
PROPERTIES
  JudgedByGrounds
  RegistrationsEnd
CHECK_DEADLOCK FALSE
