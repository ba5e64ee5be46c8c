SPECIFICATION Spec
CONSTANTS
  alice = alice
  t1 = t1
  t2 = t2
  Senders = {alice}
  Threads = {t1, t2}
  MEMPOOL_MAX_TXS = 3
  MEMPOOL_MAX_PER_SENDER = 3
  NoTx = NoTx
  WireBlocks <- NoBlocks
  Ops = {"pay", "cancel"}
  Txs <- TwoOfAlice
SYMMETRY ThreadSymmetry
INVARIANTS
  ReplayProtected
