------------------------------- MODULE MCTasks -------------------------------
(* Small instances of Tasks for TLC. *)
EXTENDS Tasks, TLC

Calls == Permutations(Call)
UsersAndCalls == Permutations(User) \cup Calls
=============================================================================
