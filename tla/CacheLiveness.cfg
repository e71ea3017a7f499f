SPECIFICATION LiveSpec
CONSTANTS
  Pdas = {p1}
  Calls = {t1, t2}
  Fills = {f1, f2, f3, f4}
  Records = {r1}
  None = None
  Garbage = {}
  NoPda = NoPda
  NoFill = NoFill
  Vacant = Vacant
  Rollback = 1
  MaxAttempts = 0
  ReplayWindow = 1
  ChannelCapacity = 1
  MaxSlot = 2
  Evictions = 0
  Cancels = 1
  Interrupts = 1
  Terminations = 0
  Exhaustions = 0
  Budget <- MCBudget
PROPERTIES CallsReturn Converges StreamServes
