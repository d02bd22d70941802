---------------------------- MODULE MCCollections ----------------------------
(* Small instances of Collections for TLC. *)
EXTENDS Collections, TLC

CONSTANTS u1, p1, p2, h1, h2, n1, n2

AllPaidByU1 == [p \in Payment |-> u1]
TwoActivations == [p \in Payment |-> "ACTIVATION"]
PremiumAndVip == p1 :> "PREMIUM" @@ p2 :> "VIP"

Slots == Permutations(Handler) \cup Permutations(Run)
SlotsAndPayments == Slots \cup Permutations(Payment)
=============================================================================
