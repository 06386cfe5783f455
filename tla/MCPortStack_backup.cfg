SPECIFICATION Spec
CONSTANTS
  Devices = {a, b}
  V10 = {}
  Big = {}
  Locked = {b}
  NoSerial = {}
  NEntries = 2
  EventSlots = 6
  Occurs = {"Param", "Swap", "Loss", "Error", "Short"}
  Configs <- BackupConfigs
  Requests <- NoRequests
  MaxCfgs = 3
  MaxReqs = 0
  MaxFaults = 3
INVARIANTS
  StoredWhole
  OperatesRestored
  IsduUnderWay
CHECK_DEADLOCK FALSE
