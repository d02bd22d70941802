------------------------------ MODULE MCRewards ------------------------------
(***************************************************************************)
(* Instances of Rewards.                                                   *)
(***************************************************************************)
EXTENDS Rewards, TLC

\* A chain of four: 4 was referred by 2, 2 by 3, 3 by 1; ids are not in the
\* order of the levels.  One completion of 4 and one of 2.
ChainReferrer == 1 :> 0 @@ 2 :> 3 @@ 3 :> 1 @@ 4 :> 2
ChainEarner == "c1" :> 4 @@ "c2" :> 2
ChainRank == 1 :> 3 @@ 2 :> 3 @@ 3 :> 2 @@ 4 :> 0
ChainReward == "c1" :> 100 @@ "c2" :> 200
Percents == <<40, 10, 5>>

\* One user on her own, active on several days.
AloneReferrer == 1 :> 0
AloneEarner == "c1" :> 1 @@ "c2" :> 1 @@ "c3" :> 1
AloneRank == 1 :> 0
AloneReward == "c1" :> 1 @@ "c2" :> 1 @@ "c3" :> 1

\* Badges within reach of the instances, each reward a fraction of the cap.
B(category, threshold, reward) ==
  [category |-> category, threshold |-> threshold, reward |-> reward]
FirstReferral == {B("REFERRALS", 1, 4)}
SoloBadges == {B("TASKS", 2, 2), B("TASKS", 3, 5), B("STREAK", 2, 3),
               B("STREAK", 3, 7), B("EARNINGS", 4, 2)}
=============================================================================
