SPECIFICATION FairSpec
CONSTANTS
  Req = {r1, r2, r3}
  MaxActive = 3
  BlockSize = 2
  TotalBlocks = 2
  PromptLens = {1, 2}
  MaxNews = {1, 4}
  BadTokens = {}
  Faults = {"decode", "record"}
PROPERTIES CompletesIfUncharged
CHECK_DEADLOCK FALSE
