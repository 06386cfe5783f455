SPECIFICATION FairSpec
CONSTANTS
  MaxGallons = 2
  MaxStops = 1
  MaxCommands = 4
  Steps = {}
  Coasts = {0}
  Occurs = {"Water", "Mode", "Override"}
PROPERTY AutoStopAlways
CHECK_DEADLOCK FALSE
