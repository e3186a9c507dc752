SPECIFICATION Spec
CONSTANTS
  Stages <- FullStages
  DependsOn <- FullDependsOn
  Gates <- FullGates
  Streaming <- TwoStreaming
  NoStage = NoStage
  MaxRuns = 1
  t1 = t1
  t2 = t2
  c1 = c1
  c2 = c2
  Tasks = {t1}
  Clients = {c1}
  Budget <- GraphBudget
INVARIANTS
  StartedAfterDependencies
  StatusTellsStages
  LimitIsSlack
PROPERTIES
  LifecycleSpec
\* Users may stop sending requests: a state without a step is no error.
CHECK_DEADLOCK FALSE
