SPECIFICATION CSpec
CONSTANTS
  j1 = j1
  j2 = j2
  alice = alice
  bob = bob
  treasury = treasury
  escrow0 = escrow0
  Funds = 5
  Addr <- MCAddr
  TREASURY = treasury
  UBI = 0
  EMISSION_PERIOD_SECS = 2
  MAX_RATE = 1
  FeeOf <- MCFeeOf
  Genesis <- MCGenesis
  Founders = {}
  Values = {1}
  Rates = {1}
  Deposits = {1}
  Subjects = {}
  MaxStreams = 2
  MaxTime = 1
  Users <- MCUsers
  Parties <- MCParties
  EscrowOf <- MCEscrowOf
  Jurors <- MCJurors
  JURY_SIZE = 3
  QUORUM = 2
  MAX_CONTRACT_PARTIES = 1
  Replies <- MCReplies
  MaxCases = 2
INVARIANTS
  EscrowBacked
  CasesDecided
PROPERTIES
  AbortsChangeNothing
  LeastAuthority
SYMMETRY JurorSymmetry
CHECK_DEADLOCK FALSE
