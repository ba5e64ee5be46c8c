SPECIFICATION FairSpec
CONSTANTS
  alice = alice
  t1 = t1
  t2 = t2
  Senders = {alice}
  Threads = {t1, t2}
  MEMPOOL_MAX_TXS = 1
  MEMPOOL_MAX_PER_SENDER = 1
  NoTx = NoTx
  WireBlocks <- AliceBlocks
  Ops = {"pay", "cancel"}
  Txs <- ThreeOfAlice
INVARIANTS
  MempoolBounded
PROPERTIES
  AdmittedIsSettled
