SPECIFICATION Spec
CONSTANTS
  a1 = a1 a2 = a2 e1 = e1 e2 = e2 b1 = b1 b2 = b2 t1 = t1 t2 = t2 h1 = h1 h2 = h2
  Calls = {r1, r2}
  Accounts = {a1, a2}
  Ers = {e1, e2}
  None = None
  BaseChain <- MCBaseChain
  Txns = {t1, t2}
  static_account_keys <- MCKeys
  Hashes = {h1, h2}
  Issuers <- MCIssuers
  PubkeyLists <- MCPubkeyLists
  SignatureLists <- MCSignatureLists
  StaticIdentity = None
  MaxCalls = 2
  MaxChanges = 2
INVARIANTS TypeOK RoutedByAnswers PositionsMatch Remembered
SYMMETRY CallSymmetry
CHECK_DEADLOCK FALSE
