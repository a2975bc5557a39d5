SPECIFICATION LeanSpec

CONSTANTS
  Session = {s1, s2}
  Caller = {c1, c2, c3}
  None = none
  MaxLeases = 1
  AllowUnknown = TRUE
  StartHealth = {"healthy"}
  Budget <- SomeOfEach

INVARIANTS
  SlotsAccounted
  NoStrandedWaiter

PROPERTIES
  WaiterWoken

\* When the requests are spent the pool is at rest.
CHECK_DEADLOCK FALSE
