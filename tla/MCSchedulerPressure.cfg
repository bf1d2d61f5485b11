SPECIFICATION Spec
CONSTANTS
  Req = {r1, r2, r3, r4}
  MaxActive = 3
  BlockSize = 2
  TotalBlocks = 4
  PromptLens = {1, 2}
  MaxNews = {1, 3}
  BadTokens = {}
  Faults = {"prefill", "record"}
SYMMETRY Symmetry
INVARIANTS TypeOK ExactlyOnce Lossless EngineInv BlocksAccounted OvercommitIsAlone ActiveIsCharged ResumedFirst MetricsAgree
PROPERTIES OneTokenPerTick ImplementsService
CHECK_DEADLOCK FALSE
