SPECIFICATION LiveSpec
CONSTANTS
  h1 = h1 i1 = i1 i2 = i2 i3 = i3 i4 = i4
  Handlers = {h1}
  Ids = {i1, i2, i3, i4}
  Ephem = {i2, i3, i4}
  Owner <- MCOwner
  Conns = {c1, c2}
  NoConn = NoConn
  MailboxCapacity = 1
  ChannelCapacity = 1
  QueueCapacity = 1
  UnsubCapacity = 1
  MaxLosses = 1
INVARIANTS TypeOK NoCircularWait
PROPERTIES DispatcherGoesOn
CHECK_DEADLOCK FALSE
