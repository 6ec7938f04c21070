SPECIFICATION Running
CONSTANTS
  Procs = {p1}
  None = None
  MaxVersion = 1
  Nodes = {n1,n2}
  Sockets = {s1}
  Viewers = {v1}
  ExactLimit = 2
  ChangeMinDelta = 1
  ChangePercent = 2
  Nobody = Nobody
  MaxDeaths = 1
  MaxJoins = 1
CHECK_DEADLOCK FALSE
PROPERTIES CatchesUp FlightsEnd DepartedVanish
