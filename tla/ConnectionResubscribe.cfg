SPECIFICATION LiveSpec
CONSTANTS
  Conns = {c1}
  Clients = {k1}
  Subids = {s1}
  NoConn = NoConn
  NoSub = NoSub
  NoTopic = NoTopic
  Topics = {a1}
  MailboxCapacity = 1
  InboxCapacity = 1
  MaxReconnectAttempts = 0
  Breaks = 2
  Refusals = 0
  Rejections = 0
  Budget <- MCBudget
PROPERTIES
  Revived
