---------------------------- MODULE MCWithdrawals ----------------------------
(* Small instances of Withdrawals for TLC. *)
EXTENDS Withdrawals, TLC

CONSTANTS u1, u2, r1, r2, h1, h2, h3, n1, n2

AllOwnedByU1 == [r \in Request |-> u1]
EachItsOwner == r1 :> u1 @@ r2 :> u2
NormalTier   == [u \in User |-> "NORMAL"]
MixedTiers   == [u \in User |-> IF u = u1 THEN "VIP" ELSE "PREMIUM"]

\* Nothing is known of the transaction with the payout's number; or there is none
\* for the payout of r1, and a payment under way for that of r2.
AnyAnswer == [r \in Request |-> {"completed", "pending", "failed"}]
NoneOrUnderWay == r1 :> {} @@ r2 :> {"pending", "completed"}

Slots == Permutations(Handler) \cup Permutations(Run)
SlotsAndRequests == Slots \cup Permutations(Request)
=============================================================================
