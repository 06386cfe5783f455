SPECIFICATION FairSpec
CONSTANTS
  ReqSegs = 2
  RespSegs = 2
  EvBytes = 2
  OPERATE_RETRY = 2
  Mixes <- ServedMixes
  MaxJobs = 2
  MaxFaults = 3
  MaxEvents = 2
  MaxCommands = 1
  MaxSessions = 2
INVARIANTS
  TypeOK
  Remembered
  OwnResponse
  AtMostOnce
  EventsTold
PROPERTIES
  WritesReach
  Answered
  OdReturns
  EventCleared
  ModeAnswered
CHECK_DEADLOCK FALSE
