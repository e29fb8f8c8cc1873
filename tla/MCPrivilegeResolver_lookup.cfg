CONSTANTS
  r1 = r1  r2 = r2  r3 = r3  r4 = r4
  h1 = h1  h2 = h2  h3 = h3  h0 = h0
  p1 = p1  p2 = p2
  Requests <- Calls3
  Hashes = {h1, h2, h3, h0}
  Privileges = {p1, p2}
  PrivilegesOf <- SetsOf
  MaxEntries = 2
  Ttl = 2
  FetchTimeout = 1
  MaxTime = 3
SPECIFICATION FairSpec
INVARIANT TypeOK
INVARIANT SizeWithinCap
INVARIANT EntriesLearned
INVARIANT DegradedByOwnFailure
INVARIANT SmallWorkingSetStays
PROPERTY ImplementsLookup
PROPERTY LookupSettles
