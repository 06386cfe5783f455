SPECIFICATION FairSpec
CONSTANTS
  IOLINK_MAX_RETRY = 2
  OPERATE_RETRY = 3
  Occurs = {"Devmode", "Param", "ISDU", "Event", "Loss"}
INVARIANTS
  TypeOK
  OneAccess
  ModeAgreement
  NoStrandedLoss
  RxReported
PROPERTIES
  LinkRefinement
  AccessConfirmed
  LossReported
CHECK_DEADLOCK FALSE
