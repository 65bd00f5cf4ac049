\* A reader of IsSporkActive races with the message thread.
SPECIFICATION Spec
CONSTANTS
  Nodes = {1, 2}
  Keys = {1, 2, 3}
  PrivKey <- MCPrivKey
  Values = {0, 1}
  Default = 9
  Configs <- MCConfigs
  Network <- MCNetwork
  MaxTime = 1
  MaxUpdates = 3
  MaxRestarts = 0
  None = None
INVARIANTS
  CachedActiveFresh
