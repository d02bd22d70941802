\* Two users race for one task, on one day, while admins change its reward, limit and status.
CONSTANTS
  User = {u1, u2}
  Task = {t1}
  CodeTask = {}
  Call = {c1, c2}
  Rewards = {1, 2}
  Limits = {1, NoLimit}
  Managed = {t1}
  Overnight = FALSE
  MaxDaily = 30
  MaxAge = 1
  NoLimit = NoLimit
  NoUser = NoUser
  NoTask = NoTask
SPECIFICATION Spec
SYMMETRY UsersAndCalls
INVARIANTS
  BooksAgree
  UsedSessionsPaid
PROPERTY
  PaysAsPromised
CHECK_DEADLOCK FALSE
