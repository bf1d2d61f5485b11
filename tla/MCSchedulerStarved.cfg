SPECIFICATION FairSpec
CONSTANTS
  Req = {r1,r2}
  MaxActive = 3
  BlockSize = 2
  TotalBlocks = 4
  PromptLens = {2}
  MaxNews = {3}
  BadTokens = {}
  Faults = {}
PROPERTY Completes
CHECK_DEADLOCK FALSE
