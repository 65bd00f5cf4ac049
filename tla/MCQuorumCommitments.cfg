\* Two quorums of a rotated cycle; blocks 1 and 2 are in the mining window.
SPECIFICATION Spec
CONSTANTS
  Quorums = {"q0", "q1"}
  Commitments <- MCCommitments
  Relayed <- MCRelayed
  Asked = {"q0"}
  WindowStart = 1
  WindowEnd = 2
  MaxHeight = 3
  None = None
INVARIANTS
  TypeOK
  PoolIsComplete
  OneCommitmentUnlessOvertaken
  DbMatchesChain
  NeverOffersTwice
PROPERTIES
  UndoneStaysMineable
