\* Two attempts of one user to activate, webhooks, two overlapping loops, failing status calls, a ban and a fault.
CONSTANTS
  u1 = u1  p1 = p1  p2 = p2  h1 = h1  h2 = h2  n1 = n1  n2 = n2
  User = {u1}
  Payment = {p1, p2}
  Payer <- AllPaidByU1
  Product <- TwoActivations
  Handler = {h1}
  Run = {n1, n2}
  AdminDecision = {"BANNED"}
  MockModes = {TRUE, FALSE}
  ActivationRun = {n1, n2}
  PaysEarly = TRUE
  WrongAmount = FALSE
  MaxFaults = 1
  NoPayment = NoPayment
SPECIFICATION Spec
SYMMETRY SlotsAndPayments
INVARIANTS
  EntitlementsPaid
  CompletedRowsGranted
  GrantsKeepTheirRow
CHECK_DEADLOCK FALSE
