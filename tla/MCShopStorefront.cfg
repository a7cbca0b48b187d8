\* Three shops, one of them with channels, and two requests in flight; or one thread.
SPECIFICATION ShopSpec
CONSTANTS
  r1 = r1
  r2 = r2
  fb = fb
  Requests = {r1, r2}
  MaxShops = 3
  Connectable = {1}
  FacebookUsers = {fb}
  MaxConnections = 2
  MaxChannels = 2
  MaxSends = 2
  MaxMishaps = 1
SYMMETRY Alike
CONSTRAINTS
  Small
  FewEvents
CHECK_DEADLOCK FALSE
INVARIANTS
  StorefrontIsSound
  SendsUseTheirConnection
  ThreadKeepsUp
PROPERTIES
  PrimaryIsHandedOver
  OneCopyAtATime
