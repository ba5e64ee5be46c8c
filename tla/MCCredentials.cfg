SPECIFICATION PartSpec
CONSTANTS
  s1 = s1  s2 = s2  s3 = s3  s4 = s4
  None = None
  StatusIds = {s1, s2, s3, s4}
  Commitments = {"k"}
  IndexOf <- Colliding
  REGISTRY_DEPTH = 2
  MAX_EPOCH = 4
  MaxBatch = 1
  LIMB = 2
  PACKED_STATUS_DEPTH = 2
  MaxBlocks = 2
  Bulk = 14
  p1 = p1  p2 = p2  r1 = r1  r2 = r2  k1 = k1  here = here  elsewhere = elsewhere
  Addr = {s1, s2}
  Governance = s2
  Proofs <- MCProofs
  Nullifier <- MCNullifier
  Roots = {r1, r2}
  Keys = {k1}
  Kinds = {"passportno", "namedob"}
  R = 5
  Widths = {0, 1}
  SCOPE = here
  SELF_ROOT_WINDOW_BLOCKS = 1
  GenesisRoots = {r1}
  GenesisOfac <- MCGenesisOfac
  Starts <- MCStarts
  MaxHeight = 2
  MaxPins = 2
INVARIANTS
  WitnessesGenuine FeedSuffices
  BuilderIsReplay HolderPathsAreWitnesses
  OnePassportOneAddress FreshnessIsCivil
PROPERTIES
  RetiredAdmitsNobody
CHECK_DEADLOCK FALSE
