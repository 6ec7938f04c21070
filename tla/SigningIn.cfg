SPECIFICATION SigningSpec
CONSTANTS
  Reqs = {r1, r2}
  Hosts = {w1}
  DesktopHosts = {}
  Rows = {i1, i2, i3}
  None = None
  DesktopWindow = 1
  HopWindow = 1
  HopLimit = 0
  MaxClock = 2
  Subsecond = TRUE
  Callers = {r1, r2}
  Limit = 1
  Lifetime = 2
  MaxSends = 3
  e1 = e1
  e2 = e2
  g1 = g1
  g2 = g2
  a1 = a1
  Clients = {r1, r2}
  Emails = {e1, e2}
  Phones = {p1, p2}
  Identities = {g1, g2, a1}
  ProviderOf <- MCProviderOf
  EmailOf <- MCEmailOf
  Unset = Unset
  MaxDeaths = 1
CHECK_DEADLOCK FALSE
SYMMETRY Symmetry
INVARIANTS SigningTypeOK LoginsBounded CacheCurrent CodesHold LinksAgree
