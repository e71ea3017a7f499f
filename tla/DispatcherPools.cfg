SPECIFICATION LiveSpec
CONSTANTS
  base = base
  er = er
  Urls = {base, er}
  Base = {base}
  Startup <- MCStartup
  Pools = {p1, p2, p3, p4}
  NoUrl = NoUrl
  NoPool = NoPool
  ConnectionsPerUpstream = 2
  QueueCapacity = 1
  MaxAnnouncements = 2
  MaxRequests = 2
  MaxDeaths = 2
INVARIANTS
  TypeOK OnlineRouted
PROPERTIES
  RouterStarts
  DispatcherUnblocked
CHECK_DEADLOCK FALSE
