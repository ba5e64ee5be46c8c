SPECIFICATION SpecReceipts
CONSTANTS
  f1 = f1
  f2 = f2
  x = x
  j1 = j1
  j2 = j2
  j3 = j3
  HUB = hub
  Founders = {f1, f2}
  Confidences = {"High", "Low"}
  MIN_VOUCHES = 2
  JURY_SIZE = 3
  QUORUM = 2
  CHALLENGE_WINDOW = 1
  SYBIL_SLASH = 2
  FALSE_CHALLENGE_SLASH = 1
  Addr = {f1, f2, x}
  Jurors = {j1, j2}
  Applicants = {x, f1}
  Challengers = {f2}
  Targets = {x, f1}
  Suspects = {x}
  Grades <- OracleGrades
  Ballots <- Two
  Nullifiers = {p, q}
  VOUCH_CAPACITY = 1
  MaxCases = 3
  MaxHeight = 3
SYMMETRY Symmetry
INVARIANTS
  CacheInSync
  VerifiedOnMerit
  VouchersAccountable
  ChallengesSound
  RevokedByQuorum
  TransfersFollowOwnership
PROPERTIES
  CasesFinal
CHECK_DEADLOCK FALSE
