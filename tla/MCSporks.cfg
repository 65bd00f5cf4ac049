\* Three keys, two of them in use, two must agree; a crash or a restart, perhaps with other settings.
SPECIFICATION FairSpec
CONSTANTS
  Nodes = {1, 2}
  Keys = {1, 2, 3}
  PrivKey <- MCPrivKey
  Values = {0, 1}
  Default = 9
  Configs <- MCConfigs
  Network <- MCNetwork
  MaxTime = 1
  MaxUpdates = 2
  MaxRestarts = 1
  None = None
INVARIANTS
  TypeOK
  OneAgreedValue
  CachedValueFresh
  ActiveIsServed
PROPERTIES
  NoFallBack
  SporkSpreads
