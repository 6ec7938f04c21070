SPECIFICATION Spec
CONSTANTS
  Reqs = {r1, r2}
  Classes = {1, 2, 3}
  Rooms = {1, 2, 3, 4}
  Starts = {1, 2}
  Length = 2
  EuropeCapacity = 1
  MalaysiaCapacity = 1
  Enrolled <- MCEnrolled
  None = None
  MaxFaults = 1
  MaxEvents = 1
  Hooks = {r1, r2}
  Files = {f1, f2}
  Named = {f1}
  NoFile = NoFile
  MaxParts = 3
  MaxBreaks = 1
  Tasks = {r1, r2}
  Services = {u1, u2}
  Once = {u1}
  NoService = NoService
  MaxLogs = 2
  MaxLosses = 1
  Editors = {r1, r2}
  Trees = {1, 2}
  Cycled = {1, 2}
  CourseOf <- MCCourseOf
  Ids = {1, 2, 3, 4}
  Nowhere = Nowhere
  MaxEdits = 3
  MaxFailures = 1
  Clerks = {r1, r2}
  Courses = {1, 2, 3}
  WithCycles = {1}
  NoCourse = NoCourse
  MaxOrders = 3
  MaxAborts = 1
CHECK_DEADLOCK FALSE
SYMMETRY Symmetry
INVARIANTS TypeOK CapacityRespected RoomsServe NoOrphanRoom RecordingsKept BooksAgree TreeHolds ArchivesHold
