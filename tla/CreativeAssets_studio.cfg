SPECIFICATION Spec
CONSTANTS
  ImagineIds = {i1}
  AgentIds = {a1}
  NoId = NoId
  Workers = {w1, w2}
  Clients = {c1, c2}
  MaxVersions = 1
  Budget <- StudioBudget
SYMMETRY Alike
INVARIANTS
  Inv
PROPERTIES
  NoZombies
  TextSurvivesRender
\* Users may stop sending requests: a state without a step is no error.
CHECK_DEADLOCK FALSE
