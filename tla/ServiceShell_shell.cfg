\* Two writers and a reader share two connections; one restart.
SPECIFICATION ShellFairSpec
CONSTANTS
  Vaults = {v1}
  Accounts = {a1, a2}
  Items = {i1}
  RevIds = {r1, r2}
  Handlers = {h1, h2}
  Readers = {s1}
  PoolSize = 2
  MaxStarts = 2
  MCGenesis = genesis
  First = r1
  MCOps = {"create", "delete"}
  CursorSeqs = {0}
  MaxHead = 2
  MaxSyncChanges = 1
  None = None
  Owner <- MCOwner
  Genesis <- MCGenesisOf
  Hashes <- MCHashes
  Submissions <- MCSubmissions
  Cursors <- MCCursors
INVARIANTS CreatedIsLogged PoolMakesWay
PROPERTY ShutdownEnds
CHECK_DEADLOCK FALSE
