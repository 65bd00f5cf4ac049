\* Both members (node 3 is none) must sign; one of them may lose its votes.  Shares are
\* announced and requested (not all members are connected).
SPECIFICATION Spec
CONSTANTS
  Nodes = {1, 2, 3}
  Quorums = {q1}
  Ids = {id1}
  Msgs = {m1, m2}
  Members <- MCWithOutsider
  Threshold = 2
  Forgetful = {1}
  AllConnected = FALSE
  MaxInterrupts = 1
  None = None
SYMMETRY MCMsgSymmetry
INVARIANTS
  TypeOK
  SharesFollowVotes
  SharesAreGenuine
  RecoveredByThreshold
  OneMsgPerQuorumAndId
PROPERTIES
  ImplementsAgreement
