SPECIFICATION FairSpec
CONSTANTS
  Devices = {a}
  V10 = {}
  Big = {}
  Locked = {}
  NoSerial = {}
  NEntries = 1
  EventSlots = 6
  Occurs = {"Loss"}
  Configs <- BackupConfigs
  Requests <- NoRequests
  MaxCfgs = 1
  MaxReqs = 0
  MaxFaults = 1
PROPERTY DsLetsGo
CHECK_DEADLOCK FALSE
