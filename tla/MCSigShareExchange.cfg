\* Four members, one of them slow, three sessions; two shares recover a signature.
\* A member sends its share to at most two recovery members, and requests one
\* share at a time from a node.
SPECIFICATION FairSpec
CONSTANTS
  Members = {1, 2, 3, 4}
  Sessions = {1, 2, 3}
  SignHashOf <- MCSignHashOf
  Threshold = 2
  Scenarios <- MCScenarios
  RecoveryOrder <- MCRecoveryOrder
  RecoveryMembers = 2
  MaxRequests = 1
  MaxLost = 1
  MaxRetries = 1
  Slow = {4}
INVARIANTS
  TypeOK
  RecvIdsResolve
  OneRequestAtATime
  NobodyBanned
PROPERTIES
  ImplementsSigning
  SharesSpread
  SignedIsRecovered
CHECK_DEADLOCK FALSE
