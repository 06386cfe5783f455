SPECIFICATION FairSpec
CONSTANTS
  MaxGallons = 2
  MaxStops = 1
  MaxCommands = 2
  Steps = {}
  Coasts = {0}
  Occurs = {"Water", "Disconnect", "Mode", "Stop", "Override", "Screens"}
PROPERTIES
  AutoStop
  OverrideExpires
  StopHeard
CHECK_DEADLOCK FALSE
