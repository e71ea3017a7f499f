SPECIFICATION LiveSpec
CONSTANTS
  Nodes = {n1}
  Urls = {u1, u2}
  Absent = Absent
  NoNode = NoNode
  Closed = Closed
  Garbage = Garbage
  StaticIdentity = NoNode
  Latencies = {10, 14}
  MAX = 1000
  StaleAfter = 3
  MaxPingFailures = 3
  U8_MAX = 4
  MaxLag = 1
  FeedCapacity = 2
  MaxChanges = 2
  MaxLosses = 1
INVARIANTS
  TypeOK ProximityMeasured RouteRemovable ClosedUnrouted
PROPERTIES
  SilentNodeDropped
