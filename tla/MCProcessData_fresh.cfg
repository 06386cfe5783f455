SPECIFICATION Spec
CONSTANTS
  MaxSessions = 3
  MaxJobs = 5
INVARIANTS
  InputFresh
  OutputsOwn
\* The sessions are bounded.
CHECK_DEADLOCK FALSE
