\* Two requests at a time, up to two accounts, one address, one number, one device.
CONSTANTS
  Address = {a1}
  Number = {n1}
  Device = {d1}
  Request = {r1, r2}
  MaxUsers = 2
  MaxLinks = 2
  None = None
SPECIFICATION Spec
SYMMETRY Alike
INVARIANTS
  TypeOK
  OneAccountEach
  VerifiedByHolder
  SessionsVerified
  SharedDeviceNoticed
CHECK_DEADLOCK FALSE
