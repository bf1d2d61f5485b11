CONSTANTS
  Table = {r1, r2, r3}
  NumLayers = 2
  PromptLens = {1, 3}
  MaxLen = 5
  MaxUses = 2
  ShardCounts <- MCShardCounts
  HeadCounts <- MCHeadCounts
  UnitCounts <- MCUnitCounts
  Window = 6
  Pcts <- MCPcts
  Latencies = {1, 2}
  MaxRecords = 8
SPECIFICATION KernelsSpec
SYMMETRY Symmetry
INVARIANTS TypeOK ReadsOwnPast MlpIsWhole AttentionIsWhole PercentileCuts SnapshotIsRecent
PROPERTIES ImplementsContiguous
CHECK_DEADLOCK FALSE
