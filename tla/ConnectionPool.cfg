SPECIFICATION Spec
CONSTANTS
  Conns = {c1, c2}
  Clients = {k1, k2}
  Subids = {s1, s2}
  NoConn = NoConn
  NoSub = NoSub
  NoTopic = NoTopic
  Topics = {a1, a2}
  MailboxCapacity = 2
  InboxCapacity = 2
  MaxReconnectAttempts = 1
  Breaks = 2
  Refusals = 2
  Rejections = 1
  Budget <- MCBudget
SYMMETRY IdSymmetry
INVARIANTS
  TypeOK
  TopicIsolation
  MailboxProtocol
  NoSilentLoss
