\* As MCInstantSendLive.cfg: D is tracked only after T, which spends the same output.
SPECIFICATION Spec
CONSTANTS
  TxOrder <- MCTxOrderPair
  Outpoints <- MCOutpoints
  Vin <- MCVinPair
  Creator <- MCCreator
  Blocks <- MCBlocks
  Genesis = "g"
  Parent <- MCParent
  Height <- MCHeight
  Chain <- MCChain
  Relayed = {"T", "D"}
  Work <- MCWork
  BlockTxs <- MCBlockTxs
  Locks <- MCLocksPair
  ClBlocks = {"a1", "b1"}
  QueueLimit = 0
  ArchiveDepth = 1
  None = None
PROPERTIES DisconnectsConflicts
CHECK_DEADLOCK FALSE
