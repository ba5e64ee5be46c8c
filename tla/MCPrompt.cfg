CONSTANTS
  n1 = n1  n2 = n2
  Nodes = {n1, n2}
  V <- TwoValidators
  HashLess <- ByEntry
  FINALITY_DEPTH = 2
  MAX_FORK_STORE = 4
  VIEW_MAX = 2
  SYNC_MAX_BATCH = 2
  SYNC_MAX_LOOKAHEAD = 2
  SYNC_MAX_NO_PROGRESS_ROUNDS = 3
  Hashes = {1}
  Kinds <- AllFull
  MaxHeight = 3
  MaxView = 1
  Asking = {n1}
  Crashing = {}
  MaxCrashes = 0
  MaxLost = 1
SPECIFICATION PromptSpec
INVARIANTS StateFollowsBlocks PromptAgreement 
PROPERTIES TipsImprove
CHECK_DEADLOCK FALSE
