CONSTANTS
  Absent = Absent
  NvidiaModels = {"RTX 4090", "RTX 3090", "RTX 3050", "RTX 4070", "A100"}
  OtherModels = {"Radeon"}
  OnlineWindow = 3
  Announcers = {a1, a2}
  NodeIds = {n1}
  IdOf <- MCIdOf
  Descriptions <- MCDescriptions
  Nobody = Nobody
  Interval = 1
  MaxTimeouts = 1
  MaxStray = 1
SPECIFICATION FairSpec
INVARIANTS TypeOK ReadersAgree
PROPERTIES OnlyOwnerWrites OwnerStaysListed StoppedNodeLeaves
CHECK_DEADLOCK FALSE
