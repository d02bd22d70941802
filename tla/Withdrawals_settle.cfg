\* One withdrawal, settled by two handlers and two reconciliation runs at once.
CONSTANTS
  u1 = u1  u2 = u2  r1 = r1  r2 = r2  h1 = h1  h2 = h2  h3 = h3  n1 = n1  n2 = n2
  User = {u1}
  Activated = {u1}
  Tier <- NormalTier
  Request = {r1}
  Owner <- AllOwnedByU1
  Amount = {2000}
  MinWithdrawal = 2000
  MaxWithdrawal = 5000000
  DailyCount = 3
  DailyAmount = 50000
  Reward = 3000
  EarnCap = 3000
  Asset = {1000, 3000}
  Unavailable = Unavailable
  Handler = {h1, h2}
  Run = {n1, n2}
  MockModes = {FALSE}
  SameNumber <- AnyAnswer
  CarriesMetadata = TRUE
  MaxFaults = 1
  NoRequest = NoRequest
SPECIFICATION Spec
SYMMETRY Slots
INVARIANTS
  TypeOK
  NoLossToUser
  ExactUnlessStale
  RowFollowsWithdrawal
  PayoutHasRow
PROPERTY OnlyRunsRewriteSettledRows
CHECK_DEADLOCK FALSE
