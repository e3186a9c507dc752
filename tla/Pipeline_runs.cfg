SPECIFICATION Spec
CONSTANTS
  Stages <- ChainStages
  DependsOn <- ChainDependsOn
  Gates <- ChainGates
  Streaming <- SomeStreaming
  NoStage = NoStage
  MaxRuns = 2
  t1 = t1
  t2 = t2
  c1 = c1
  c2 = c2
  Tasks = {t1, t2}
  Clients = {c1}
  Budget <- RunsBudget
SYMMETRY TaskSymmetry
INVARIANTS
  GatesHoldBack
  GateNeedsApproval
  OutputIsNewest
PROPERTIES
  FinishedStaysFinished
\* Users may stop sending requests: a state without a step is no error.
CHECK_DEADLOCK FALSE
