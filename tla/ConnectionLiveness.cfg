SPECIFICATION LiveSpec
CONSTANTS
  Conns = {c1, c2}
  Clients = {k1, k2}
  Subids = {s1, s2}
  NoConn = NoConn
  NoSub = NoSub
  NoTopic = NoTopic
  Topics = {a1}
  MailboxCapacity = 1
  InboxCapacity = 1
  MaxReconnectAttempts = 0
  Breaks = 1
  Refusals = 1
  Rejections = 0
  Budget <- MCBudget
PROPERTIES
  LossReported
  Revived
