\* T is mined in a1 and its child C is relayed; a competitor D of T is in the block with
\* more work, which may be ChainLocked.  Each of the three may be locked, T and D both.
SPECIFICATION Spec
CONSTANTS
  TxOrder <- MCTxOrder
  Outpoints <- MCOutpoints
  Vin <- MCVin
  Creator <- MCCreator
  Blocks <- MCBlocks
  Genesis = "g"
  Parent <- MCParent
  Height <- MCHeight
  Chain <- MCChain
  Relayed = {"C"}
  Work <- MCWork
  BlockTxs <- MCBlockTxs
  Locks <- MCLocks
  ClBlocks = {"b1"}
  QueueLimit = 0
  ArchiveDepth = 1
  None = None
INVARIANTS TypeOK IndexComplete MempoolAgreesWithLocks MempoolAgreesWithChain UnlockedIsTracked
PROPERTIES OverruledTogether
CHECK_DEADLOCK FALSE
