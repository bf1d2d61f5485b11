SPECIFICATION MetricsSpec
CONSTANTS
  Window = 6
  Pcts = {50, 99}
  Latencies = {1, 2}
  MaxRecords = 8
INVARIANT RankIsNearest
CHECK_DEADLOCK FALSE
