SPECIFICATION Spec
CONSTANTS
  Width = 5
  Height = 5
  Fraction = 3
  Areas <- Ring
  Distances = {25, 46, 100}
  Spreads = {0, 30}
INVARIANTS
  Inv
PROPERTIES
  FloodSpec
\* The variant is made once.
CHECK_DEADLOCK FALSE
