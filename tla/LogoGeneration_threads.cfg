SPECIFICATION JobsSpec
CONSTANTS
  Threads = {t1, t2}
  MaxOutages = 1
  Cooldown = 2
  MaxClock = 3
  Attempts = 2
  Strict = {t1}
INVARIANTS
  JobsAreRight
PROPERTIES
  LoneJobsEnd
\* Every thread makes one logo, and one may hang.
CHECK_DEADLOCK FALSE
