SPECIFICATION WorkerFairSpec
CONSTANTS
  Req = {r1, r2}
  MaxActive = 2
  BlockSize = 2
  TotalBlocks = 2
  PromptLens = {0, 1}
  MaxNews = {3}
  BadTokens = {}
  Faults = {}
  DrainRounds = 1
INVARIANTS WorkerTypeOK NothingRetained DrainedIsQuiet ReadyIsLinearizable
PROPERTIES ImplementsServiceAtClient Answered DrainTerminates
CHECK_DEADLOCK FALSE
