CONSTANTS
  key = key
  cert = cert
  bare = bare
  s1 = s1
  s2 = s2
  east = east
  west = west
  root = root
  Missing = Missing
  Assets = {cert, bare}
  Sources = {s1, s2}
  Scopes = {east, west, root}
  Home <- MCHome
  ScopesOf <- MCScopesOf
  Areas <- MCAreas
  Certificates <- MCCertificates
  Expires <- MCExpires
  CriticalWindow = 1
  SoonWindow = 2
  AppsDeclared = TRUE
  Claimed = {bare}
  CarryModes = {TRUE}
  Reconfigurable = TRUE
  MaxScans = 4
SPECIFICATION Spec
INVARIANTS IInv EntriesAreSightings FeedIsInventory
PROPERTIES AbsenceIsObserved RemovalsAreObserved UndatedResolutionsAreObserved CompleteIsFirstHand FindingsOutlastOutages FirstBlindSpotPages ImplementsLedger
