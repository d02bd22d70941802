\* A chain of four users, one completion at its end and one in its middle.
SPECIFICATION FairSpec
CONSTANTS
  User = {1, 2, 3, 4}
  Referrer <- ChainReferrer
  Completion = {"c1", "c2"}
  Earner <- ChainEarner
  Reward <- ChainReward
  Percent <- Percents
  Badge <- FirstReferral
  Cap = 10
  InitialRank <- ChainRank
  Restless = {2}
  MaxDay = 1
  MaxFaults = 1
  NoUser = 0
  NoCompletion = "none"
INVARIANTS
  WalletsAgree
  NoWaitCycle
PROPERTY EventsHandled
CHECK_DEADLOCK FALSE
