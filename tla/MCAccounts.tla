----------------------------- MODULE MCAccounts -----------------------------
(* Small instances of Accounts for TLC. *)
EXTENDS Accounts, TLC

Alike == Permutations(Request) \cup Permutations(Address) \cup Permutations(Device)
=============================================================================
