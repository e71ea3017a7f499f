SPECIFICATION Spec
CONSTANTS
  base = base
  er = er
  Urls = {base, er}
  Base = {base}
  Startup <- MCStartup
  Pools = {p1, p2, p3, p4}
  NoUrl = NoUrl
  NoPool = NoPool
  ConnectionsPerUpstream = 1
  QueueCapacity = 1
  MaxAnnouncements = 2
  MaxRequests = 0
  MaxDeaths = 0
INVARIANTS
  OfflineUnrouted
CHECK_DEADLOCK FALSE
