CONSTANTS
  key = key
  cert = cert
  bare = bare
  s1 = s1
  s2 = s2
  east = east
  west = west
  root = root
  Missing = Missing
  Assets = {key, cert}
  Sources = {s1}
  Scopes = {east, west, root}
  Home <- OneHome
  ScopesOf <- MCScopesOf
  Areas <- MCAreas
  Certificates <- MCCertificates
  Expires <- MCExpires
  CriticalWindow = 1
  SoonWindow = 2
  AppsDeclared = FALSE
  Claimed = {key}
  CarryModes = {TRUE}
  Reconfigurable = FALSE
  MaxScans = 3
SPECIFICATION Spec
PROPERTY ResolutionsAreObserved
CHECK_DEADLOCK FALSE
