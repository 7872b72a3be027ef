CONSTANTS
  r1 = r1  r2 = r2  r3 = r3  r4 = r4  r5 = r5
  shop = shop  agent = agent
  open = open  bare = bare  long = long
  None = None
  Requests = {r1, r2, r3, r4, r5}
  ByMcp = {r5}
  Merchants = {shop, agent}
  ClientOf <- MCClientOf
  Policies = {open, bare, long}
  FirstPolicy <- MCFirstPolicy
  Serves <- MCServes
  Ttl <- MCTtl
  MaxTtl = 2
  Maximum = 2
  Window = 2
  MaxClock = 2
  Provisions = 1
  Restarts = 1

SPECIFICATION Spec
INVARIANT
  TypeOK
  QuotesBacked
  LimiterBound
SYMMETRY Symmetry
CHECK_DEADLOCK FALSE
