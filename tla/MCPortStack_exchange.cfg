SPECIFICATION Spec
CONSTANTS
  Devices = {a}
  V10 = {}
  Big = {}
  Locked = {}
  NoSerial = {}
  NEntries = 1
  EventSlots = 6
  Occurs = {"Event", "Error", "Loss"}
  Configs <- BackupConfigs
  Requests <- ObjRequests
  MaxCfgs = 2
  MaxReqs = 2
  MaxFaults = 2
INVARIANTS
  Active
  Stopped
  OneEach
  
  OwnAnswer
CHECK_DEADLOCK FALSE
