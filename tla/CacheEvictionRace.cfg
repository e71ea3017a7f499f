SPECIFICATION Spec
CONSTANTS
  Pdas = {p1, p2}
  Calls = {t1, t2}
  Fills = {f1, f2, f3, f4, f5}
  Records = {r1}
  None = None
  Garbage = {}
  NoPda = NoPda
  NoFill = NoFill
  Vacant = Vacant
  Rollback = 1
  MaxAttempts = 0
  ReplayWindow = 1
  ChannelCapacity = 1
  MaxSlot = 2
  Evictions = 1
  Cancels = 0
  Interrupts = 0
  Terminations = 0
  Exhaustions = 0
  Budget <- MCBudget
SYMMETRY CallSymmetry
INVARIANTS Coherent
