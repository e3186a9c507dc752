SPECIFICATION AlertsSpec
CONSTANTS
  Alerts = {a1, a2, a3}
  Window = 2
  MaxSends = 2
  MaxAttempts = 2
  DefaultRetry = 1
  MaxRetry = 3
  RetryAfters = {0, 5}
  MaxClock = 5
INVARIANTS
  AlertsTypeOK
  WindowLimit
  RetryHonoured
  ScheduleIsBounded
SYMMETRY AlertSymmetry
\* All alerts may be sent and the clock at its bound: a state without a step is no error.
CHECK_DEADLOCK FALSE
