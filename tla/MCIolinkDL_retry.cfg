SPECIFICATION Spec
CONSTANTS
  IOLINK_MAX_RETRY = 1
  OPERATE_RETRY = 1
  Occurs = {"Retry", "Devmode", "Loss"}
INVARIANT OneDevmodeConf
CHECK_DEADLOCK FALSE
