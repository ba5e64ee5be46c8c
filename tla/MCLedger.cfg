SPECIFICATION Spec
CONSTANTS
  alice = alice
  bob = bob
  treasury = treasury
  Funds = 10
  Fee = 2
  Addr <- MCAddr
  TREASURY = treasury
  UBI = 3
  EMISSION_PERIOD_SECS = 2
  MAX_RATE = 2
  FeeOf <- MCFeeOf
  Genesis <- MCGenesis
  Founders = {bob}
  Values = {2}
  Rates = {0, 2}
  Deposits = {3}
  Subjects = {bob}
  MaxStreams = 2
  MaxTime = 2
INVARIANTS
  Conservation
  StreamsSolvent
  EmissionBounded
PROPERTIES
  ReportedBalanceProtected
CHECK_DEADLOCK FALSE
