CONSTANTS
  p1 = p1  p2 = p2  alice = alice  bob = bob  o1 = o1  o2 = o2  o3 = o3
  Protocol <- TwoProtocols
  Name <- TwoNames
  Object <- ThreeObjects
  None = None
  ReplaceKick = {TRUE, FALSE}
  OnePlayerOnAccount = FALSE
  Relogin = TRUE
  FastRelogs = TRUE
  MaxTasks = 2
  MaxReleases = 1
SPECIFICATION SmallSpec
CHECK_DEADLOCK FALSE
SYMMETRY Symmetry
INVARIANTS OnePlayerEach OnlyRacedIsGhost
PROPERTIES RefsExact LinkedBothWays
