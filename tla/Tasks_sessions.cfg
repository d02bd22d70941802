\* One user, a task with a code and one without, a limit of one task a day, sessions cleaned up.
CONSTANTS
  User = {u1}
  Task = {t1, t2}
  CodeTask = {t1}
  Call = {c1, c2}
  Rewards = {1}
  Limits = {NoLimit}
  Managed = {}
  Overnight = TRUE
  MaxDaily = 1
  MaxAge = 3
  NoLimit = NoLimit
  NoUser = NoUser
  NoTask = NoTask
SPECIFICATION Spec
SYMMETRY Calls
INVARIANTS
  TypeOK
  WrongCodesBounded
  DailyOverrunBounded
CHECK_DEADLOCK FALSE
