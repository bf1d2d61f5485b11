SPECIFICATION WorkerSpec
CONSTANTS
  Req = {r1}
  MaxActive = 2
  BlockSize = 2
  TotalBlocks = 4
  PromptLens = {2}
  MaxNews = {1}
  BadTokens = {}
  Faults = {}
  DrainRounds = 2
INVARIANT StatsAreASnapshot
CHECK_DEADLOCK FALSE
