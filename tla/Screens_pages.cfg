\* Two rows, two filters, two calls in flight, each page in turn.
SPECIFICATION Spec
CONSTANTS
  Opened <- AllPages
  Item = {i1, i2}
  Query = {q1, q2}
  MaxCalls = 2
  NoItem = NoItem
  NoQuery = NoQuery
SYMMETRY Symmetry
INVARIANTS
  TypeOK
  BusyHasCause
  ShownMatchesQuery
  
  RepeatsOnlyAfterOverlap
CHECK_DEADLOCK TRUE
