SPECIFICATION Spec
CONSTANTS
  s1 = s1
  s2 = s2
  r1 = r1
  Sub = {s1, s2}
  Release = {r1}
  ArtistOf <- OwnArtist
  ReleasesBy <- Shared
  MaxSyncs = 2
  Batch = 1
  Budget <- SyncBudget
INVARIANTS
  OneJobPerRelease
PROPERTIES
  
  ReleasesFetched
CHECK_DEADLOCK FALSE
