SPECIFICATION FairSpec
CONSTANTS
  MaxSessions = 1
  MaxJobs = 3
PROPERTY InputNotValid
\* The sessions are bounded.
CHECK_DEADLOCK FALSE
