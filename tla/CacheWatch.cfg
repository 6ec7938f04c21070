SPECIFICATION Running
CONSTANTS
  Procs = {p1, p2}
  None = None
  MaxVersion = 2
  Nodes = {p1, p2}
  Sockets = {s1, s2}
  Viewers = {v1, v2}
  Regular = v1
  ExactLimit = 2
  ChangeMinDelta = 1
  ChangePercent = 2
  Nobody = Nobody
  MaxDeaths = 1
  MaxJoins = 2
CHECK_DEADLOCK FALSE
SYMMETRY Symmetry
INVARIANTS OneLoader StaleExplained PagesHold
