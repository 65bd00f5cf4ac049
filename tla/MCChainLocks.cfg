\* One locked block that competes with the tip, a branch that outgrows it, one
\* spork change or restart; both handler threads.
SPECIFICATION FairSpec
CONSTANTS
  Blocks <- MCShortLocked
  Genesis = 0
  Parent <- MCParent
  Height <- MCHeight
  Chain <- MCChain
  Start = 22
  ClSigs = {12}
  Handlers = {"net", "sig"}
  RpcBlocks = FALSE
  StartEnforced = TRUE
  DIP0008Height = 0
  MaxEvents = 1
  ExpireSeen = FALSE
  None = None
INVARIANTS
  TypeOK
  LockedChainUsable
  KnownBestIsTracked
  TipJobNotLost
  NotifiedLockIsActive
PROPERTIES
  StoredLockEnforced
