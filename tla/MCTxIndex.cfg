SPECIFICATION IndexSpec
CONSTANTS
  alice = alice
  bob = bob
  carol = carol
  h1 = h1
  h2 = h2
  h3 = h3
  None = None
  STREAM_HUB = stream_hub
  HUMANITY_HUB = humanity_hub
  CONTRACT_HUB = contract_hub
  ESCROW = escrow
  Addr = {alice, bob, carol, escrow, stream_hub, humanity_hub, contract_hub}
  Hashes = {h1, h2, h3}
  Calls <- MCCalls
  Contents <- MCContents
  MaxHeight = 2
  MaxReorgs = 2
INVARIANTS
  LookupIsCanonical
  PreflightIsCharged
