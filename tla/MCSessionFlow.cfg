CONSTANTS
  Absent = Absent
  None = None
  Ids = {s1, s2}
  MinMinutes = 2
  MaxMinutes = 2
  Preset = 3
  ChunkMinutes = 1
  MaxActions = 1
  MaxPolls = 1
  MaxFaults = 1
  MaxAlike = 2
SPECIFICATION FairSpec
INVARIANTS TypeOK HandleKept OneTopUpAtATime
PROPERTIES EventuallyHonest
CHECK_DEADLOCK FALSE
