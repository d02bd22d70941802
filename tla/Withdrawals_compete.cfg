\* Two requests of one user with money for one of them, both providers, the cron and a fault.
CONSTANTS
  u1 = u1  u2 = u2  r1 = r1  r2 = r2  h1 = h1  h2 = h2  h3 = h3  n1 = n1  n2 = n2
  User = {u1}
  Activated = {u1}
  Tier <- NormalTier
  Request = {r1, r2}
  Owner <- AllOwnedByU1
  Amount = {2000, 3000}
  MinWithdrawal = 2000
  MaxWithdrawal = 5000000
  DailyCount = 2
  DailyAmount = 50000
  Reward = 3000
  EarnCap = 3000
  Asset = {3000}
  Unavailable = Unavailable
  Handler = {}
  Run = {n1}
  MockModes = {TRUE, FALSE}
  SameNumber <- NoneOrUnderWay
  CarriesMetadata = TRUE
  MaxFaults = 1
  NoRequest = NoRequest
SPECIFICATION FairSpec
INVARIANTS
  BalanceNeverNegative
PROPERTY RecordedPayoutSettles
CHECK_DEADLOCK FALSE
