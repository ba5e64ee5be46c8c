SPECIFICATION Spec
CONSTANTS
  p1 = p1
  p2 = p2
  Peers = {p1, p2}
  Boasts <- OneBoasts
  Bare <- OneBare
  Forked = {p2}
  SYNC_MAX_BATCH = 1
  SYNC_MAX_LOOKAHEAD = 3
  SYNC_MAX_NO_PROGRESS_ROUNDS = 3
  GREYLIST_THRESHOLD = 2
  FINALITY_DEPTH = 1
  RECONNECT_TICK = 2
  RECONNECT_BACKOFF_MIN = 1
  RECONNECT_BACKOFF_MAX = 4
  Tip = 4
  Starts = {0, 1}
  MaxBusy = 1
  Flaky = {p1, p2}
  MaxFaults = 1
PROPERTIES RequestsEnd MeshForms CatchUp
