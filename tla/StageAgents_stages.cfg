SPECIFICATION Spec
CONSTANTS
  Kinds <- AllKinds
  Specs = {s1, s2, s3}
  Attempts = 3
  Faults = {"flush", "commit", "answer"}
  MaxFaults = 2
INVARIANTS
  Inv
PROPERTIES
  ShownOnlyGrows
\* A stage ends.
CHECK_DEADLOCK FALSE
