SPECIFICATION DesktopSpec
CONSTANTS
  Reqs = {r1}
  Hosts = {d1}
  DesktopHosts = {d1}
  Rows = {i1}
  None = None
  DesktopWindow = 1
  HopWindow = 1
  HopLimit = 0
  MaxClock = 2
  Subsecond = TRUE
CHECK_DEADLOCK FALSE
INVARIANT RefreshedOnce
