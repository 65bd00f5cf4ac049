\* One commitment per quorum; a reader asks for "q0".
SPECIFICATION Spec
CONSTANTS
  Quorums = {"q0", "q1"}
  Commitments <- MCOneEach
  Relayed = {}
  Asked = {"q0"}
  WindowStart = 1
  WindowEnd = 2
  MaxHeight = 2
  None = None
INVARIANTS
  OneCommitmentPerQuorum
