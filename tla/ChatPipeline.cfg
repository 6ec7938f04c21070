SPECIFICATION FairSpec
CONSTANTS
  Messages = {m1, m2}
  Workers = {w1, w2}
  Refused = {m2}
  MaxBuffer = 2
  MaxBatch = 1
  Count = 2
  MaxLen = 1
  MaxFaults = 1
CHECK_DEADLOCK FALSE
INVARIANTS NothingVanishes DeletedStaysDeleted ShownInOrder
PROPERTIES EntriesFinish StoreSpec
