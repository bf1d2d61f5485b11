SPECIFICATION Spec
CONSTANTS
  Req = {r1,r2,r3}
  MaxActive = 3
  BlockSize = 1
  TotalBlocks = 3
  PromptLens = {1}
  MaxNews = {1,3}
  BadTokens = {0}
  Faults = {}
INVARIANT GoodRequestsSurvive
CHECK_DEADLOCK FALSE
