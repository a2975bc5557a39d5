SPECIFICATION ArtistSpec
CONSTANTS
  Key <- ArtistKeys
  External = {"d1", "d2", "s1"}
  ProviderOf <- ArtistProvider
  NameOf <- OneName
  NameKey = "dx"
  Track = {t1, t2}
  Loader = {w1, w2}
  MaxRows = 6
  Chances <- ArtistChances
INVARIANT NamesakesApart
CHECK_DEADLOCK FALSE
