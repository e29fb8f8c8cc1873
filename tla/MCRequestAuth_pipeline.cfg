CONSTANTS
  r1 = r1  r2 = r2  c1 = c1  c2 = c2
  u1 = u1  u2 = u2
  h1 = h1  h2 = h2
  use = use  view = view  cross = cross  super = super
  Requests = {r1, r2, c1, c2}
  ByHashCall <- Calls
  Hashes = {h1, h2}
  Privileges = {use, view, cross, super}
  PrivilegesOf <- Sets
  Subjects = {u1, u2}
  Grants <- Granted
  CrossOrg = cross
  Superadmin = super
  Tokens <- SomeTokens
  Routes <- SomeRoutes
  SeedOpen = TRUE
  MaxEntries = 2
  Ttl = 1
  FetchTimeout = 1
  MaxTime = 2
SPECIFICATION FairSpec
INVARIANT AuthInv
INVARIANT HandledIsEntitled
INVARIANT RefusedForCause
PROPERTY RequestsAnswered
