SPECIFICATION Spec
CONSTANTS
  Req = {r1, r2, r3}
  MaxActive = 3
  BlockSize = 1
  TotalBlocks = 4
  PromptLens = {0, 1, 2}
  MaxNews = {0, 1, 3}
  BadTokens = {0, 1}
  Faults = {}
SYMMETRY Symmetry
INVARIANTS PoisonedYieldsNothing BlocksAccounted
PROPERTIES FailureHasCause ImplementsService
CHECK_DEADLOCK FALSE
