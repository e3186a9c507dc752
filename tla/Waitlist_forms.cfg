SPECIFICATION Spec
CONSTANTS
  Requests = {r1, r2, r3}
  Spellings <- TwoPeople
  NormalForm <- Lowered
  Columns = {c1, c2}
  Values = {v, w}
  MaxFaults = 1
SYMMETRY Interchangeable
INVARIANTS
  Inv
PROPERTIES
  OnlyOwnColumns
\* All forms have been answered.
CHECK_DEADLOCK FALSE
