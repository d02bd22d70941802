\* Two requests in flight, two passwords, one link, two changes.
SPECIFICATION Spec
CONSTANTS
  Password = {"old", "new"}
  Request = {r1, r2}
  Link = {"k1"}
  MaxVersion = 2
  ByGoogle = "google"
  NoLink = "none"
  NoToken = NoToken
SYMMETRY RequestSymmetry
INVARIANTS
  TypeOK
  SessionsFollowPassword
  LinkSpent
CHECK_DEADLOCK FALSE
