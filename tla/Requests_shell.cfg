SPECIFICATION MCSpec
CONSTANTS
  r1 = r1
  r2 = r2
  Reqs = {r1, r2}
  Mixes <- MCMixes
  MaxStops = 1
  MaxKeys = 2
  TiersSeen = {"pro", "agency"}
  MaxSites = 2
  Columns = {"files"}
  Texts = {"t1", "t2"}
  MaxAssets = 3
  Letters <- MCLetters
  Knowledge <- MCKnowledge
  MaxImages = 3
  PatchFields = {"name"}
INVARIANTS
  Inv
  FailuresAreTold
  AnswersAreKept
  LettersTellVersions
  PromptsAreExact
PROPERTIES NothingRevives
SYMMETRY Symmetry
CHECK_DEADLOCK FALSE
