CONSTANTS
  c1 = c1  c2 = c2  c3 = c3  soft = soft  hard = hard
  name = name  org = org  v1 = v1  v2 = v2
  Calls = {c1, c2, c3}
  Ids = {soft, hard}
  Fields = {name, org}
  ReadOnly = {org}
  Values = {v1, v2}
  Versioned = TRUE
  SoftDelete = {soft}
  Serial = {soft}
  Bodies <- MCBodies
SPECIFICATION Spec
SYMMETRY Symmetry
INVARIANT EntityInv
INVARIANT TrailTellsWrites
INVARIANT RepliesTellTruth
PROPERTY VersionsCount
PROPERTY IfMatchHolds
PROPERTY ChangesAreAsked
