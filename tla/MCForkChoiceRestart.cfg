CONSTANTS
  n1 = n1  n2 = n2
  Nodes = {n1, n2}
  V <- TwoValidators
  HashLess <- ByEntry
  FINALITY_DEPTH = 1
  MAX_FORK_STORE = 2
  VIEW_MAX = 2
  SYNC_MAX_BATCH = 2
  SYNC_MAX_LOOKAHEAD = 2
  SYNC_MAX_NO_PROGRESS_ROUNDS = 2
  Hashes = {1}
  Kinds <- SomeFail
  MaxHeight = 2
  MaxView = 1
  Asking = {n2}
  Crashing = {n1}
  MaxCrashes = 1
  MaxLost = 1
SPECIFICATION Spec
PROPERTIES FinalizedIsAppendOnly
CHECK_DEADLOCK FALSE
