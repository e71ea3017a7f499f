SPECIFICATION Spec
CONSTANTS
  Nodes = {n1}
  Urls = {u1, u2}
  Absent = Absent
  NoNode = NoNode
  Closed = Closed
  Garbage = Garbage
  StaticIdentity = NoNode
  Latencies = {10}
  MAX = 1000
  StaleAfter = 3
  MaxPingFailures = 3
  U8_MAX = 4
  MaxLag = 1
  FeedCapacity = 1
  MaxChanges = 1
  MaxLosses = 0
INVARIANTS
  AddressesPropagate
