SPECIFICATION FeatureSpec
CONSTANTS
  s1 = s1
  s2 = s2
  a1 = a1
  a2 = a2
  c1 = c1
  c2 = c2
  c3 = c3
  A = A
  B = B
  C = C
  D = D
  x = x
  y = y
  Song = {A, B, C, D}
  Tx = {x, y}
  InList <- MCInList
  Moves <- MCMoves
  Caller = {c1, c2, c3}
  Search = {q1}
  Extract = {q2}
  Stream <- MCStream
  MaxEntries = 1
  MaxBytes = 1
  Budgets <- MCBudgets
  Session = {s1, s2}
  Admin = {a1, a2}
  None = none
  MaxVersion = 2
  MaxFailures = 1
SYMMETRY Symmetry
CHECK_DEADLOCK FALSE

INVARIANTS
  FlushMeansStored
  WaitersServed
  OwnEnds
  OwnersAtWork

PROPERTIES
  NeverOlder
  OrderKept
