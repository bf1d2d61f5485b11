SPECIFICATION Spec
CONSTANTS
  Table = {t1, t2}
  NumBlocks = 3
  BlockSize = 2
  NumLayers = 2
  PromptLens = {1, 3}
  MaxNews = {1, 3}
  MaxUses = 2
SYMMETRY Symmetry
INVARIANTS TypeOK BlocksOnce TightFit GatherIsContiguous
PROPERTIES ImplementsContiguous
CHECK_DEADLOCK FALSE
