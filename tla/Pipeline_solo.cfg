SPECIFICATION FairSpec
CONSTANTS
  Stages <- SoloStages
  DependsOn <- SoloDependsOn
  Gates <- SoloGates
  Streaming <- SomeStreaming
  NoStage = NoStage
  MaxRuns = 1
  t1 = t1
  t2 = t2
  c1 = c1
  c2 = c2
  Tasks = {t1, t2}
  Clients = {c1}
  Budget <- SoloBudget
INVARIANTS
  TypeOK
  ActiveRunHasTask
  RunningStageHasTask
PROPERTIES
  ActiveRunSettles
  TaskEnds
\* Users may stop sending requests: a state without a step is no error.
CHECK_DEADLOCK FALSE
