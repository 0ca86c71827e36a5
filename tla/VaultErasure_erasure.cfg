\* Two writers and a reader on two vaults whose accounts a clean-up deletes.
SPECIFICATION ErasureFairSpec
CONSTANTS
  Vaults = {v1, v2}
  Accounts = {a1, a2}
  Synthetic = {a1, a2}
  Items = {i1}
  RevIds = {r1, r2}
  Handlers = {h1, h2}
  Readers = {s1}
  MCGenesis = genesis
  MCOps = {"create"}
  BaseSeqs = {0}
  BaseRevisions = {0, 1}
  CursorSeqs = {0}
  MaxHead = 1
  MaxSyncChanges = 1
  None = None
  Owner <- MCOwner
  Genesis <- MCGenesisOf
  Hashes <- MCHashes
  Submissions <- MCSubmissions
  Cursors <- MCCursors
INVARIANTS NothingOfErased KeptVaultsWhole RepliesTrueOrRefused
PROPERTY WritersAndCleanUpsEnd
CHECK_DEADLOCK FALSE
