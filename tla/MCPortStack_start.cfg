SPECIFICATION FairSpec
CONSTANTS
  Devices = {a, b, c}
  V10 = {b}
  Big = {c}
  Locked = {}
  NoSerial = {a}
  NEntries = 1
  EventSlots = 6
  Occurs = {"WakeFail", "Refuse", "Swap"}
  Configs <- StartConfigs
  Requests <- NoRequests
  MaxCfgs = 3
  MaxReqs = 0
  MaxFaults = 2
INVARIANTS
  TypeOK
  SmExpects
PROPERTIES
  Settles
  DownloadOwn
  LinkRefinement
CHECK_DEADLOCK FALSE
