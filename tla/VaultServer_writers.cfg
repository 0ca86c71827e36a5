\* Two writers and a sync with pages of one, one vault, heads up to 3.
SPECIFICATION Spec
CONSTANTS
  Vaults = {v1}
  Accounts = {a1, a2}
  Items = {i1, i2}
  RevIds = {r1, r2, r3}
  Handlers = {h1, h2}
  Readers = {s1}
  MCGenesis = genesis
  MCOps = {"create", "update", "delete"}
  BaseSeqs = {0, 1, 2}
  BaseRevisions = {0, 1, 2}
  CursorSeqs = {0, 1}
  MaxHead = 3
  MaxSyncChanges = 1
  None = None
  Owner <- MCOwner
  Genesis <- MCGenesisOf
  Hashes <- MCHashes
  Submissions <- MCSubmissions
  Cursors <- MCCursors
SYMMETRY Symmetry
INVARIANTS TypeOK SnapshotsStayTrue ChainIntact ItemHistories SyncReplyIsSegment
PROPERTY ImplementsVaultLog
