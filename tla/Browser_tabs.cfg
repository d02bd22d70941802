\* Two tabs, one of which signs out, three calls, two requests, one change elsewhere, one network failure.
SPECIFICATION BrowserSpec
CONSTANTS
  Password = {p, q}
  Request = {r1, r2}
  Link = {}
  MaxVersion = 1
  ByGoogle = "google"
  NoLink = "none"
  NoToken = NoToken
  Tab = {t1, t2}
  t1 = t1
  t2 = t2
  k1 = k1
  k2 = k2
  k3 = k3
  Call = {k1, k2, k3}
  TabOf <- TwoTabs
  SigningOut = {t1}
  MaxFaults = 1
  NoTab = NoTab
  NoRequest = NoRequest
  Gone = Gone
SYMMETRY Alike
INVARIANTS
  NoFalseExpiry
  LogoutLasts
  WaitingIsServed
CHECK_DEADLOCK FALSE
