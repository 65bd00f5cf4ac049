\* Headers also arrive on RPC threads.
SPECIFICATION Spec
CONSTANTS
  Blocks <- MCShortLocked
  Genesis = 0
  Parent <- MCParent
  Height <- MCHeight
  Chain <- MCChain
  Start = 1
  ClSigs = {12}
  Handlers = {"net", "sig"}
  RpcBlocks = TRUE
  StartEnforced = TRUE
  DIP0008Height = 0
  MaxEvents = 0
  ExpireSeen = FALSE
  None = None
INVARIANTS
  KnownBestIsTracked
