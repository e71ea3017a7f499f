SPECIFICATION Spec
CONSTANTS
  Pdas = {p1}
  Calls = {t1, t2}
  Fills = {f1, f2, f3, f4}
  Records = {r1}
  None = None
  Garbage = {g1}
  NoPda = NoPda
  NoFill = NoFill
  Vacant = Vacant
  Rollback = 2
  MaxAttempts = 1
  ReplayWindow = 1
  ChannelCapacity = 2
  MaxSlot = 2
  Evictions = 0
  Cancels = 1
  Interrupts = 1
  Terminations = 1
  Exhaustions = 1
  Budget <- MCBudget
SYMMETRY CallSymmetry
INVARIANTS TypeOK FillsOwned EntryFaithful
PROPERTIES ImplementsView
