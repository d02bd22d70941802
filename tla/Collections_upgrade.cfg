\* A PREMIUM and a VIP upgrade of one user with odd amounts, the cron, failing status calls and a fault.
CONSTANTS
  u1 = u1  p1 = p1  p2 = p2  h1 = h1  h2 = h2  n1 = n1  n2 = n2
  User = {u1}
  Payment = {p1, p2}
  Payer <- AllPaidByU1
  Product <- PremiumAndVip
  Handler = {h1}
  Run = {n1}
  AdminDecision = {"ACTIVATED"}
  MockModes = {FALSE}
  ActivationRun = {}
  PaysEarly = FALSE
  WrongAmount = TRUE
  MaxFaults = 1
  NoPayment = NoPayment
SPECIFICATION FairSpec
INVARIANTS
  EntitlementsPaid
PROPERTY RecordedPaymentsSettle
CHECK_DEADLOCK FALSE
