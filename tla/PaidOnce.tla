------------------------------ MODULE PaidOnce ------------------------------
(***************************************************************************)
(* What completing tasks promises, without sessions, requests or jobs:     *)
(* users are paid for a task once, at its reward of the moment, while its  *)
(* limit of the moment is not reached by those paid for it, and what is    *)
(* announced of a payment is its amount.                                   *)
(***************************************************************************)
EXTENDS Integers, FiniteSets

CONSTANTS User, Task, Rewards, Limits, NoLimit

VARIABLES
  reward, limit,   \* of each task, as admins set them
  paid,            \* to each user for each task, 0 before
  announced        \* amount passed on to commissions, 0 before

vars == <<reward, limit, paid, announced>>

Init ==
  /\ reward \in [Task -> Rewards] /\ limit \in [Task -> Limits]
  /\ paid = [u \in User |-> [t \in Task |-> 0]]
  /\ announced = [u \in User |-> [t \in Task |-> 0]]

Set(t, x, l) ==
  /\ reward' = [reward EXCEPT ![t] = x]
  /\ limit' = [limit EXCEPT ![t] = l]
  /\ UNCHANGED <<paid, announced>>

Pay(u, t) ==
  /\ paid[u][t] = 0
  /\ limit[t] # NoLimit => Cardinality({v \in User : paid[v][t] # 0}) < limit[t]
  /\ paid' = [paid EXCEPT ![u][t] = reward[t]]
  /\ UNCHANGED <<reward, limit, announced>>

Announce(u, t) ==
  /\ paid[u][t] # 0 /\ announced[u][t] = 0
  /\ announced' = [announced EXCEPT ![u][t] = paid[u][t]]
  /\ UNCHANGED <<reward, limit, paid>>

Next ==
  \/ \E t \in Task, x \in Rewards, l \in Limits : Set(t, x, l)
  \/ \E u \in User, t \in Task : Pay(u, t) \/ Announce(u, t)

Spec == Init /\ [][Next]_vars
=============================================================================
