CONSTANTS
  c1 = c1  c2 = c2  c3 = c3  soft = soft  hard = hard
  name = name  org = org  v1 = v1  v2 = v2
  Calls = {c1, c2, c3}
  Ids = {soft}
  Fields = {name, org}
  ReadOnly = {org}
  Values = {v1, v2}
  Versioned = TRUE
  SoftDelete = {soft}
  Serial = {}
  Bodies <- MCBodies
SPECIFICATION Spec
PROPERTY IfMatchHonoured
