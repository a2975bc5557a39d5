SPECIFICATION ServiceSpec
CONSTANTS
  a1 = a1
  a2 = a2
  Worker = {a1, a2}
  Session = {s1, s2}
  None = none
  Preferred = {"ytmusic", "soundcloud"}
  Ranked <- MCRanked
  DirectId = "v1"
  MaxSessions = 2
  Budget <- MCBudget
  t1 = t1
  t2 = t2
  t3 = t3
  Key <- MCKey
  External = {"d1", "d2"}
  ProviderOf <- MCProviderOf
  NameOf <- MCNameOf
  NameKey = "dx"
  Track = {t1, t2}
  Song = {t1, t2, t3}
  Place = {"pa", "pb", "pc"}
  Caller = {a1, a2}
  Canonical <- MCCanonical
  Nothing = nothing
  Starts <- Libraries
  Loader = {w1, w2}
  MaxRows = 6
  Chances <- MCChances
  User = {1, 2}
  Grant = {11}
  Request = {a1, a2}
  SessionBound = 3
  MaxGrants = 1
  Budgets <- MCBudgets
SYMMETRY Symmetry
CHECK_DEADLOCK FALSE

INVARIANTS
  NoSilentSubstitute
  SkippedMeansWait
  DownloadsProtected
  NoMutualWait
  Reconciled
  AdminRemains
  CodeWorksOnce
  NothingStuck

PROPERTIES
  IdentitiesKept
  NothingLost
