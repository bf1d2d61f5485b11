SPECIFICATION Spec
CONSTANTS
  Req = {r1,r2,r3}
  MaxActive = 3
  BlockSize = 1
  TotalBlocks = 6
  PromptLens = {1}
  MaxNews = {3}
  BadTokens = {}
  Faults = {}
INVARIANT BudgetBalanced
CHECK_DEADLOCK FALSE
