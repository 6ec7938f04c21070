SPECIFICATION StudentsSpec
CONSTANTS
  Reqs = {r1, r2}
  Hosts = {d1, d2}
  DesktopHosts = {d1, d2}
  Rows = {i1, i2, i3}
  None = None
  DesktopWindow = 1
  HopWindow = 1
  HopLimit = 0
  MaxClock = 3
  Subsecond = FALSE
  Calls = {r1, r2}
  Quoras = {q1, q2, q3}
  Students = {s1, s2}
  Solvers = {v1}
  Answerers = {v1}
  NoOne = NoOne
  Machine = Machine
  Attempts = 2
  AnswerLimit = 1
  SageAt = 3
  Allowances = {1}
  MaxDay = 1
  MaxSlips = 1
  Slots = {r1, r2}
  Members = {m1, m2}
  Cycles = {y1, y2}
  Courses = {z1}
  Codes = {k1, k2}
  CourseOf <- MCCourseOf
  Sold <- MCSold
  Academic = {k1}
  Buyers <- MCBuyers
  Manual = Manual
  Nothing = Nothing
  MaxEvents = 2
  k3 = k3
  k4 = k4
  Campaigns = {k3, k4}
  Everyone = {k3}
  Runs = {r1, r2}
  LastDevice = 3
  PageSize = 2
  NoCampaign = NoCampaign
  MaxAttempts = 2
  MaxTroubles = 2
  MaxChanges = 1
CHECK_DEADLOCK FALSE
SYMMETRY Symmetry
INVARIANTS StudentsTypeOK RefreshedOnce SingleDevice QuestionsLimited SolversPaidOnce CodesKept AccessCurrent CampaignsAccounted
