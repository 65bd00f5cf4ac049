\* T and its competitor D are relayed and mined; T is locked, either block may be
\* ChainLocked.
SPECIFICATION FairSpec
CONSTANTS
  TxOrder <- MCTxOrderPair
  Outpoints <- MCOutpoints
  Vin <- MCVinPair
  Creator <- MCCreator
  Blocks <- MCBlocks
  Genesis = "g"
  Parent <- MCParent
  Height <- MCHeight
  Chain <- MCChain
  Relayed = {"T", "D"}
  Work <- MCWork
  BlockTxs <- MCBlockTxs
  Locks <- MCLocksPair
  ClBlocks = {"a1", "b1"}
  QueueLimit = 0
  ArchiveDepth = 1
  None = None
PROPERTIES ChainLockReturns
CHECK_DEADLOCK FALSE
