\* Three completions of one user over three days.
SPECIFICATION Spec
CONSTANTS
  User = {1}
  Referrer <- AloneReferrer
  Completion = {"c1", "c2", "c3"}
  Earner <- AloneEarner
  Reward <- AloneReward
  Percent <- Percents
  Badge <- SoloBadges
  Cap = 10
  InitialRank <- AloneRank
  Restless = {}
  MaxDay = 3
  MaxFaults = 1
  NoUser = 0
  NoCompletion = "none"
INVARIANTS
  TypeOK
  StreakEarned
CHECK_DEADLOCK FALSE
