SPECIFICATION WebSpec
CONSTANTS
  a = a
  b = b
  elsewhere = elsewhere
  Tabs = {a, b}
  Elsewhere = elsewhere
  MaxSessions = 3
  MaxActs = 2
  MaxFaults = 1
  Sockets = {a}
  MaxLapses = 2
CHECK_DEADLOCK FALSE
INVARIANTS
  OneLivePerFamily
  ReuseNeedsALostAnswer
PROPERTIES
  DeadFamiliesStayDead
  RefreshesEnd
  RoomFollowsMembership
