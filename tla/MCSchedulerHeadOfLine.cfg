SPECIFICATION FairSpec
CONSTANTS
  Req = {r1, r2}
  MaxActive = 2
  BlockSize = 1
  TotalBlocks = 2
  PromptLens = {1, 3}
  MaxNews = {1}
  BadTokens = {}
  Faults = {}
PROPERTY NoHeadOfLineBlocking
CHECK_DEADLOCK FALSE
