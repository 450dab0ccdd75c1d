CONSTANTS
  minted = minted  password = password  unknown = unknown  seeded = seeded
  N = 3
  Roles = {minted, password, unknown}
  Declared = {minted, password}
  Minted = {minted}
  States = {seeded}
  None = None
  Caps = {2, 3}
  MaxRetries = 1
  Reports <- MCReports
SPECIFICATION ReadSpec
INVARIANTS EntriesAreTheReport ExitZeroIsComplete
PROPERTIES KeepsPromise RunEnds
