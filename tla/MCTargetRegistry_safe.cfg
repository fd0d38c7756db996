SPECIFICATION Spec
CONSTANTS
  lab = lab
  lab2 = lab2
  xt1 = xt1
  xt2 = xt2
  xt = xt
  h1 = h1
  h2 = h2
  NoTarget = NoTarget
  Invalid = Invalid
  Selectors <- MCSelectors
  Agents <- MCAgents
  NameOf <- MCNameOf
  Addresses <- MCAddresses
  Environments <- MCEnvironments
  Local = Local
  Default = Default
  Here = Here
  MaxAds = 4
  MaxSockets = 4
INVARIANTS TypeOK BackendFollowsRecord CloseIsComplete
PROPERTIES ReachesLatest OnlyChoice
CHECK_DEADLOCK FALSE
