SPECIFICATION Spec
CONSTANTS
  Browsers = {b1, b2}
  Requests = {r1, r2, r3}
  Ops = {"verify", "register", "login", "google", "sendcode", "forgot",
         "refresh", "logout", "reset", "change", "delete"}
  MaxSent = 3
  MaxFaults = 1
SYMMETRY SessionsSymmetry
INVARIANTS
  Inv
  StaysSignedIn
\* The person may stop sending requests.
CHECK_DEADLOCK FALSE
