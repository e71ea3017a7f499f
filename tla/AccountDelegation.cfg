SPECIFICATION Spec
CONSTANTS
  Ers = {e1, e2}
  Chain = Chain
  None = None
  MaxIds = 2
  MaxSubs = 3
  FeedCapacity = 2
  Budget <- MCBudget
INVARIANTS SourcesAdjusted
SYMMETRY ErSymmetry
CHECK_DEADLOCK FALSE
