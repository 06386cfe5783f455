SPECIFICATION Spec
CONSTANTS
  MaxGallons = 2
  MaxStops = 1
  MaxCommands = 2
  Steps = {1}
  Coasts = {0, 1}
  Occurs = {"Water", "Disconnect", "Thumbs", "Mode", "Reset", "Adjust", "Batch", "Override"}
INVARIANT TypeOK
PROPERTIES
  TargetKept
  ConfirmedBeforeReset
CHECK_DEADLOCK FALSE
