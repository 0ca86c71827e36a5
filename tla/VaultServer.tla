---------------------------- MODULE VaultServer ----------------------------
(***************************************************************************)
(* The server side of the encrypted vault: the write handlers create_item  *)
(* and create_item_revision and the read handler sync_vault of             *)
(* crates/api/src/vault.rs, over the PostgreSQL tables vaults, vault_items *)
(* and vault_item_revisions.                                               *)
(*                                                                         *)
(* A write handler is one READ COMMITTED transaction.  Its statements are  *)
(* separate steps, its effects become visible when it commits, and the     *)
(* only row it waits for is the vaults row it locks FOR UPDATE (plus the   *)
(* uncommitted index entries of another transaction that inserts the same  *)
(* primary key).  sync_vault runs three SELECTs outside any transaction,   *)
(* so writers commit between them.                                         *)
(***************************************************************************)
EXTENDS Integers, FiniteSets

CONSTANTS
  Vaults,          \* rows of the vaults table
  Accounts,        \* accounts whose sessions send requests
  Owner,           \* the account_id column of a vault
  Items,           \* item UUIDs, chosen by clients
  RevIds,          \* revision UUIDs, chosen by clients
  Hashes,          \* head hashes; the server cannot compute them
  Genesis,         \* the genesis_head_hash column of a vault
  Handlers,        \* write handlers that may run at the same time
  Readers,         \* sync handlers that may run at the same time
  Submissions,     \* validated write requests clients may send, and resend
  Cursors,         \* validated sync queries clients may send
  MaxHead,         \* bound of the model: no vault grows past this head_seq
  MaxSyncChanges,  \* MAX_SYNC_CHANGES_PER_RESPONSE
  None             \* "no row", "no transaction"

Ops == {"create", "update", "delete"}

(* What the validators let through: sequence numbers are not negative, and
   update and delete name a base revision while create has none.            *)
Submission ==
  { s \in [account : Accounts, vault : Vaults, item : Items, op : Ops,
           id : RevIds, base_head_seq : Nat, base_head_hash : Hashes,
           new_head_hash : Hashes, base_revision_seq : Nat] :
      (s.op = "create") <=> (s.base_revision_seq = 0) }

VaultHead == [seq : Nat, hash : Hashes]

Cursor == [account : Accounts, vault : Vaults, seq : Nat, hash : Hashes]

ASSUME ServerAssumption ==
  /\ Owner \in [Vaults -> Accounts]
  /\ Genesis \in [Vaults -> Hashes]
  /\ Submissions \subseteq Submission
  /\ Cursors \subseteq Cursor
  /\ MaxHead \in Nat
  /\ MaxSyncChanges \in Nat \ {0}
  /\ None \notin Vaults \cup RevIds \cup Handlers \cup Submissions

VARIABLES
  head,       \* vaults.head_seq and vaults.head_hash
  items,      \* vault_items rows, by id
  revisions,  \* vault_item_revisions rows
  lock,       \* the handler whose transaction holds the vaults row
  tx,         \* write handlers: where they are and what they have read
  sync        \* sync handlers: where they are and what they have read

tables == <<head, items, revisions>>
vars   == <<head, items, revisions, lock, tx, sync>>

Revision ==
  [id : RevIds, vault : Vaults, item : Items, op : Ops,
   revision_seq : Nat, base_revision_seq : Nat, head_seq : Nat,
   base_head_seq : Nat, previous_head_hash : Hashes, head_hash : Hashes]

ItemRow ==
  [vault : Vaults \cup {None}, latest_id : RevIds \cup {None},
   latest_seq : Nat, deleted : BOOLEAN]

NoItem == [vault |-> None, latest_id |-> None, latest_seq |-> 0, deleted |-> FALSE]

Open     == {"insert_item", "lock_item", "insert_revision", "commit"}
Answered == {"idle", "created", "conflict", "not_found", "unavailable"}

Tx ==
  [phase : Open, sub : Submissions, head : VaultHead, latest : Nat]
  \cup [phase : {"created"}, sub : Submissions, head : {None}, latest : {0}]
  \cup [phase : Answered \ {"created"}, sub : {None}, head : {None}, latest : {0}]

Init ==
  /\ head = [v \in Vaults |-> [seq |-> 0, hash |-> Genesis[v]]]
  /\ items = [i \in Items |-> NoItem]
  /\ revisions = {}
  /\ lock = [v \in Vaults |-> None]
  /\ tx = [h \in Handlers |->
             [phase |-> "idle", sub |-> None, head |-> None, latest |-> 0]]
  /\ sync = [r \in Readers |-> [phase |-> "idle"]]

-----------------------------------------------------------------------------
(***************************************************************************)
(* Write handlers.                                                         *)
(***************************************************************************)

\* Slip: the head compared by its number alone.
HeadMatchesSeqOnly(vault, s) == vault.seq = s.base_head_seq

HeadMatches(vault, s) ==
  vault.seq = s.base_head_seq /\ vault.hash = s.base_head_hash

\* A request that holds no lock yet starts on a handler that has answered.
Starts(h, s) ==
  /\ tx[h].phase \in Answered
  /\ lock[s.vault] = None

\* The handler answers: commit or rollback has released its row locks.
Answer(h, how, s) ==
  /\ tx' = [tx EXCEPT ![h] = [phase |-> how, sub |-> s, head |-> None, latest |-> 0]]
  /\ lock' = [v \in Vaults |-> IF lock[v] = h THEN None ELSE lock[v]]
  /\ UNCHANGED sync

Proceed(h, phase, s, vault, latest) ==
  /\ tx' = [tx EXCEPT ![h] = [phase |-> phase, sub |-> s, head |-> vault, latest |-> latest]]
  /\ UNCHANGED <<tables, sync>>

\* lock_vault_head finds no vault of this id that belongs to the account; the
\* row of another account's vault is not waited for.
VaultNotFound(h, s) ==
  /\ tx[h].phase \in Answered
  /\ Owner[s.vault] # s.account
  /\ Answer(h, "not_found", None)
  /\ UNCHANGED tables

\* create_item: the head moved on since the client built the change.
CreateConflict(h, s) ==
  /\ Starts(h, s)
  /\ Owner[s.vault] = s.account
  /\ s.op = "create"
  /\ ~HeadMatches(head[s.vault], s)
  /\ Answer(h, "conflict", None)
  /\ UNCHANGED tables

\* Slip: SELECT without FOR UPDATE.
LockForCreateUnlocked(h, s) ==
  /\ Starts(h, s)
  /\ Owner[s.vault] = s.account
  /\ s.op = "create"
  /\ HeadMatches(head[s.vault], s)
  /\ head[s.vault].seq < MaxHead
  /\ UNCHANGED lock
  /\ Proceed(h, "insert_item", s, head[s.vault], 0)

\* create_item: the vaults row is locked and its head is the request's base.
LockForCreate(h, s) ==
  /\ Starts(h, s)
  /\ Owner[s.vault] = s.account
  /\ s.op = "create"
  /\ HeadMatches(head[s.vault], s)
  /\ head[s.vault].seq < MaxHead
  /\ lock' = [lock EXCEPT ![s.vault] = h]
  /\ Proceed(h, "insert_item", s, head[s.vault], 0)

\* create_item_revision: the vaults row is locked; the item comes next.
LockForRevision(h, s) ==
  /\ Starts(h, s)
  /\ Owner[s.vault] = s.account
  /\ s.op # "create"
  /\ head[s.vault].seq < MaxHead
  /\ lock' = [lock EXCEPT ![s.vault] = h]
  /\ Proceed(h, "lock_item", s, head[s.vault], 0)

\* Another transaction's uncommitted row with the same item id: INSERT waits.
ItemInsertPending(h, i) ==
  \E o \in Handlers \ {h} :
    /\ tx[o].phase \in {"insert_revision", "commit"}
    /\ tx[o].sub.op = "create"
    /\ tx[o].sub.item = i

\* Slip: item ids unique per vault only.
InsertItemRowPerVault(h) ==
  /\ tx[h].phase = "insert_item"
  /\ items[tx[h].sub.item].vault # tx[h].sub.vault
  /\ Proceed(h, "insert_revision", tx[h].sub, tx[h].head, 0)
  /\ UNCHANGED lock

InsertItemRow(h) ==
  /\ tx[h].phase = "insert_item"
  /\ ~ItemInsertPending(h, tx[h].sub.item)
  /\ items[tx[h].sub.item].vault = None
  /\ Proceed(h, "insert_revision", tx[h].sub, tx[h].head, 0)
  /\ UNCHANGED lock

\* The primary key of vault_items spans all vaults: 23505 becomes a 409.
ItemIdTaken(h) ==
  /\ tx[h].phase = "insert_item"
  /\ ~ItemInsertPending(h, tx[h].sub.item)
  /\ items[tx[h].sub.item].vault # None
  /\ Answer(h, "conflict", None)
  /\ UNCHANGED tables

ItemNotFound(h) ==
  /\ tx[h].phase = "lock_item"
  /\ items[tx[h].sub.item].vault # tx[h].sub.vault
  /\ Answer(h, "not_found", None)
  /\ UNCHANGED tables

\* The three reasons create_item_revision gives for a conflict.
Stale(vault, item, s) ==
  \/ ~HeadMatches(vault, s)
  \/ s.base_revision_seq # item.latest_seq
  \/ item.deleted

RevisionConflict(h) ==
  LET s == tx[h].sub IN
  /\ tx[h].phase = "lock_item"
  /\ items[s.item].vault = s.vault
  /\ Stale(tx[h].head, items[s.item], s)
  /\ Answer(h, "conflict", None)
  /\ UNCHANGED tables

LockItem(h) ==
  LET s == tx[h].sub IN
  /\ tx[h].phase = "lock_item"
  /\ items[s.item].vault = s.vault
  /\ ~Stale(tx[h].head, items[s.item], s)
  /\ Proceed(h, "insert_revision", s, tx[h].head, items[s.item].latest_seq)
  /\ UNCHANGED lock

\* The row insert_revision_row writes.
NewRevision(s, vault, latest) ==
  [id |-> s.id, vault |-> s.vault, item |-> s.item, op |-> s.op,
   revision_seq |-> latest + 1, base_revision_seq |-> s.base_revision_seq,
   head_seq |-> vault.seq + 1, base_head_seq |-> s.base_head_seq,
   previous_head_hash |-> s.base_head_hash, head_hash |-> s.new_head_hash]

\* The primary key and the two UNIQUE constraints of vault_item_revisions.
UniqueViolation(row) ==
  \E r \in revisions :
    \/ r.id = row.id
    \/ r.vault = row.vault /\ r.head_seq = row.head_seq
    \/ r.vault = row.vault /\ r.item = row.item /\ r.revision_seq = row.revision_seq

\* The CHECK constraints that relate columns of one row.
ChecksHold(row) ==
  /\ row.head_seq = row.base_head_seq + 1
  /\ row.op = "create" => row.revision_seq = 1 /\ row.base_revision_seq = 0
  /\ row.op # "create" => row.revision_seq > row.base_revision_seq /\ row.base_revision_seq > 0

RevisionInsertPending(h, id) ==
  \E o \in Handlers \ {h} : tx[o].phase = "commit" /\ tx[o].sub.id = id

InsertRevisionRow(h) ==
  LET row == NewRevision(tx[h].sub, tx[h].head, tx[h].latest) IN
  /\ tx[h].phase = "insert_revision"
  /\ ~RevisionInsertPending(h, tx[h].sub.id)
  /\ ~UniqueViolation(row)
  /\ ChecksHold(row)
  /\ Proceed(h, "commit", tx[h].sub, tx[h].head, tx[h].latest)
  /\ UNCHANGED lock

RevisionIdTaken(h) ==
  /\ tx[h].phase = "insert_revision"
  /\ ~RevisionInsertPending(h, tx[h].sub.id)
  /\ UniqueViolation(NewRevision(tx[h].sub, tx[h].head, tx[h].latest))
  /\ Answer(h, "conflict", None)
  /\ UNCHANGED tables

\* Slip: deleted_at is left as it was.
LatestItemRowNotDeleted(row) ==
  [vault |-> row.vault, latest_id |-> row.id, latest_seq |-> row.revision_seq,
   deleted |-> items[row.item].deleted]

\* update_item_latest: deleted_at keeps its value once it is set.
LatestItemRow(row) ==
  [vault |-> row.vault, latest_id |-> row.id, latest_seq |-> row.revision_seq,
   deleted |-> items[row.item].deleted \/ row.op = "delete"]

\* Slip: the head hash is set on all of the item's revisions.
CommitRehashing(h) ==
  LET row == NewRevision(tx[h].sub, tx[h].head, tx[h].latest) IN
  /\ tx[h].phase = "commit"
  /\ revisions' = { [r EXCEPT !.head_hash = IF r.item = row.item THEN row.head_hash ELSE @] :
                      r \in revisions } \cup {row}
  /\ items' = [items EXCEPT ![row.item] = LatestItemRow(row)]
  /\ head' = [head EXCEPT ![row.vault] = [seq |-> row.head_seq, hash |-> row.head_hash]]
  /\ Answer(h, "created", tx[h].sub)

\* update_item_latest, update_vault_head, the audit event and COMMIT.  The
\* answer is lost, or reported as 503, when the connection breaks after COMMIT.
Commit(h) ==
  LET row == NewRevision(tx[h].sub, tx[h].head, tx[h].latest) IN
  /\ tx[h].phase = "commit"
  /\ revisions' = revisions \cup {row}
  /\ items' = [items EXCEPT ![row.item] = LatestItemRow(row)]
  /\ head' = [head EXCEPT ![row.vault] = [seq |-> row.head_seq, hash |-> row.head_hash]]
  /\ \/ Answer(h, "created", tx[h].sub)
     \/ Answer(h, "unavailable", None)

\* Slip: an error of COMMIT is ignored.
RollbackUnnoticed(h) ==
  /\ tx[h].phase \in Open
  /\ Answer(h, "created", tx[h].sub)
  /\ UNCHANGED tables

\* Slip: the handler keeps what it had read.
RollbackKeepingReads(h) ==
  /\ tx[h].phase \in Open
  /\ tx' = [tx EXCEPT ![h].phase = "unavailable"]
  /\ lock' = [v \in Vaults |-> IF lock[v] = h THEN None ELSE lock[v]]
  /\ UNCHANGED <<tables, sync>>

\* Slip: the failed transaction goes back to the pool without a rollback.
RollbackLeaked(h) ==
  /\ tx[h].phase \in Open
  /\ tx' = [tx EXCEPT ![h] = [phase |-> "unavailable", sub |-> None, head |-> None, latest |-> 0]]
  /\ UNCHANGED <<tables, lock, sync>>

\* A statement fails, the process dies or the client goes away: rollback.
Rollback(h) ==
  /\ tx[h].phase \in Open
  /\ Answer(h, "unavailable", None)
  /\ UNCHANGED tables

-----------------------------------------------------------------------------
(***************************************************************************)
(* sync_vault: three reads, each of the tables as they are at that moment. *)
(***************************************************************************)

\* load_vault_head, for a vault of the session's account.
LoadVaultHead(r, c) ==
  /\ sync[r].phase \in {"idle", "replied"}
  /\ Owner[c.vault] = c.account
  /\ sync' = [sync EXCEPT ![r] =
                [phase |-> "check_cursor", from |-> c, head |-> head[c.vault]]]
  /\ UNCHANGED <<tables, lock, tx>>

CursorMatches(c, vault) ==
  /\ c.seq <= vault.seq
  /\ \/ c.seq = vault.seq /\ c.hash = vault.hash
     \/ c.seq < vault.seq /\ c.seq = 0 /\ c.hash = Genesis[c.vault]
     \/ /\ c.seq < vault.seq /\ c.seq # 0
        /\ \E row \in revisions :
             row.vault = c.vault /\ row.head_seq = c.seq /\ row.head_hash = c.hash

SyncCursorMatches(r) ==
  /\ sync[r].phase = "check_cursor"
  /\ CursorMatches(sync[r].from, sync[r].head)
  /\ sync' = [sync EXCEPT ![r].phase = "read_rows"]
  /\ UNCHANGED <<tables, lock, tx>>

SyncConflict(r) ==
  /\ sync[r].phase = "check_cursor"
  /\ ~CursorMatches(sync[r].from, sync[r].head)
  /\ sync' = [sync EXCEPT ![r] = [phase |-> "idle"]]
  /\ UNCHANGED <<tables, lock, tx>>

\* ORDER BY head_seq ASC LIMIT n: the n rows with the smallest head_seq.
FirstRows(rows, n) ==
  { x \in rows : Cardinality({ y \in rows : y.head_seq <= x.head_seq }) <= n }

RowsPast(c, vault) ==
  { x \in revisions : x.vault = c.vault /\ x.head_seq > c.seq /\ x.head_seq <= vault.seq }

\* Slip: LIMIT without the extra row that tells there are more.
SelectedRowsNoProbe(c, vault) == FirstRows(RowsPast(c, vault), MaxSyncChanges)

\* The rows past the cursor up to the head read first; one row more than fits
\* in a reply is selected, and only tells that there are more.
SelectedRows(c, vault) == FirstRows(RowsPast(c, vault), MaxSyncChanges + 1)

ReadRows(r) ==
  LET c        == sync[r].from
      vault    == sync[r].head
      selected == SelectedRows(c, vault)
      has_more == Cardinality(selected) > MaxSyncChanges
      changes  == FirstRows(selected, MaxSyncChanges)
      Reply(to) ==
        sync' = [sync EXCEPT ![r] =
                   [phase |-> "replied", from |-> c, head |-> vault, to |-> to,
                    changes |-> changes, has_more |-> has_more]]
  IN
  /\ sync[r].phase = "read_rows"
  /\ \/ changes = {} /\ Reply(vault)
     \/ \E last \in changes :
          /\ \A x \in changes : x.head_seq <= last.head_seq
          /\ Reply([seq |-> last.head_seq, hash |-> last.head_hash])
  /\ UNCHANGED <<tables, lock, tx>>

-----------------------------------------------------------------------------
Begin(h) ==
  \E s \in Submissions :
    \/ VaultNotFound(h, s)
    \/ CreateConflict(h, s)
    \/ LockForCreate(h, s)
    \/ LockForRevision(h, s)

\* The statements a transaction runs once it holds the vaults row.
Continue(h) ==
  \/ InsertItemRow(h) \/ ItemIdTaken(h)
  \/ ItemNotFound(h) \/ RevisionConflict(h) \/ LockItem(h)
  \/ InsertRevisionRow(h) \/ RevisionIdTaken(h)
  \/ Commit(h)

Read(r) ==
  \/ \E c \in Cursors : LoadVaultHead(r, c)
  \/ SyncCursorMatches(r)
  \/ SyncConflict(r)
  \/ ReadRows(r)

Next ==
  \/ \E h \in Handlers : Begin(h) \/ Continue(h) \/ Rollback(h)
  \/ \E r \in Readers : Read(r)

Spec == Init /\ [][Next]_vars

-----------------------------------------------------------------------------
(***************************************************************************)
(* Properties.                                                             *)
(***************************************************************************)

SyncState ==
  [phase : {"idle"}]
  \cup [phase : {"check_cursor", "read_rows"}, from : Cursors, head : VaultHead]
  \cup [phase : {"replied"}, from : Cursors, head : VaultHead, to : VaultHead,
        changes : SUBSET Revision, has_more : BOOLEAN]

(* Every table, lock and handler has the columns and values the code and the
   schema give it.                                                          *)
TypeOK ==
  /\ head \in [Vaults -> VaultHead]
  /\ items \in [Items -> ItemRow]
  /\ revisions \subseteq Revision
  /\ lock \in [Vaults -> Handlers \cup {None}]
  /\ tx \in [Handlers -> Tx]
  /\ sync \in [Readers -> SyncState]

RowsOf(v) == { r \in revisions : r.vault = v }

\* A handler holds the row of the vault its open transaction writes, no other.
LocksHeld ==
  \A v \in Vaults, h \in Handlers :
    lock[v] = h <=> tx[h].phase \in Open /\ tx[h].sub.vault = v

\* What handler h has read and checked so far is what the tables say now.
ReadsHold(h) ==
  LET s == tx[h].sub
      i == items[s.item]
  IN
  /\ Owner[s.vault] = s.account
  /\ tx[h].head = head[s.vault]
  /\ tx[h].phase = "insert_item" => s.op = "create"
  /\ tx[h].phase = "lock_item" => s.op # "create"
  /\ tx[h].phase # "lock_item" => HeadMatches(head[s.vault], s)
  /\ tx[h].phase \in {"insert_revision", "commit"} =>
       /\ tx[h].latest = s.base_revision_seq
       /\ s.op = "create" => i.vault = None
       /\ s.op # "create" => i.vault = s.vault /\ i.latest_seq = tx[h].latest /\ ~i.deleted
  /\ tx[h].phase = "commit" => \A r \in revisions : r.id # s.id

InsertedItem(h) ==
  tx[h].phase \in {"insert_revision", "commit"} /\ tx[h].sub.op = "create"

\* Two transactions never both hold an uncommitted row with the same key.
KeysReserved ==
  \A h, o \in Handlers : h # o =>
    /\ InsertedItem(h) /\ InsertedItem(o) => tx[h].sub.item # tx[o].sub.item
    /\ tx[h].phase = "commit" /\ tx[o].phase = "commit" => tx[h].sub.id # tx[o].sub.id

(* What an open transaction has read stays true until it ends: the head it
   compared, the item it looked at and the ids it found free.  Only the lock
   on the vaults row makes it so, because every statement of a READ COMMITTED
   transaction sees what others have committed in the meantime.             *)
SnapshotsStayTrue ==
  /\ LocksHeld
  /\ \A h \in Handlers : tx[h].phase \in Open => ReadsHold(h)
  /\ KeysReserved

ChainOf(v) ==
  /\ \A n \in 1..head[v].seq : \E r \in RowsOf(v) : r.head_seq = n
  /\ \A r \in RowsOf(v) : r.head_seq \in 1..head[v].seq
  /\ \A q, r \in RowsOf(v) : q.head_seq = r.head_seq => q = r
  /\ \A r \in RowsOf(v) : r.head_seq = 1 => r.previous_head_hash = Genesis[v]
  /\ \A q, r \in RowsOf(v) :
       r.head_seq = q.head_seq + 1 => r.previous_head_hash = q.head_hash
  /\ \A r \in RowsOf(v) : r.head_seq = head[v].seq => r.head_hash = head[v].hash
  /\ head[v].seq = 0 => head[v].hash = Genesis[v]

(* The revisions of a vault are one gapless chain: one row for each head_seq
   from 1 to vaults.head_seq, each naming the hash of the row before it, the
   first naming the genesis hash and the last being the vault's stored head.
   Two writers that read the same head, or a head checked by its number only,
   would fork or break it (vault.rs head_matches, lock_vault_head).         *)
ChainIntact == \A v \in Vaults : ChainOf(v)

HistoryOf(i) ==
  LET rows == { r \in revisions : r.item = i }
      row  == items[i]
  IN
  /\ row.vault = None => rows = {} /\ row = NoItem
  /\ row.vault # None =>
       /\ row.latest_seq > 0
       /\ \E r \in rows : r.revision_seq = row.latest_seq /\ r.id = row.latest_id
  /\ \A n \in 1..row.latest_seq : \E r \in rows : r.revision_seq = n
  /\ \A r \in rows :
       /\ r.vault = row.vault
       /\ r.revision_seq \in 1..row.latest_seq
       /\ r.base_revision_seq = r.revision_seq - 1
       /\ r.op = "create" <=> r.revision_seq = 1
       /\ r.op = "delete" => r.revision_seq = row.latest_seq
  /\ \A q, r \in rows : q.revision_seq < r.revision_seq => q.head_seq < r.head_seq
  /\ row.deleted <=> \E r \in rows : r.op = "delete"

(* The two places an item's history is kept agree: vault_items names the
   newest of the item's revisions, which are numbered 1, 2, ... in the order
   of the vault's chain, all in one vault, starting with its only create, and
   a delete is the last of them and is what deleted_at records.             *)
ItemHistories == \A i \in Items : HistoryOf(i)

(* A 201 answer tells the truth for good: whatever other handlers commit,
   fail or roll back later, the vault's chain holds the acknowledged change
   right after the head the client built it on, with the hash it proposed.  *)
CreatedIsLogged ==
  \A h \in Handlers :
    tx[h].phase = "created" =>
      LET s == tx[h].sub IN
      \E r \in revisions :
        /\ r.id = s.id /\ r.vault = s.vault /\ r.item = s.item /\ r.op = s.op
        /\ r.head_seq = s.base_head_seq + 1
        /\ r.head_hash = s.new_head_hash

HashIs(v, n, hash) ==
  \/ n = 0 /\ hash = Genesis[v]
  \/ \E r \in RowsOf(v) : r.head_seq = n /\ r.head_hash = hash

\* The reply of handler rd is the segment of its vault's chain from the cursor on.
ReplyIsSegment(rd) ==
  LET c == sync[rd].from
      s == sync[rd]
  IN
  /\ HashIs(c.vault, c.seq, c.hash)
  /\ HashIs(c.vault, s.to.seq, s.to.hash)
  /\ s.changes = { r \in RowsOf(c.vault) : c.seq < r.head_seq /\ r.head_seq <= s.to.seq }
  /\ Cardinality(s.changes) = s.to.seq - c.seq
  /\ Cardinality(s.changes) <= MaxSyncChanges
  /\ s.has_more <=> s.to.seq < s.head.seq

(* A sync reply, though put together from three reads with commits between
   them, is a segment of the chain: it starts at the cursor, holds every
   change up to to_head and no other, never more than the limit, and
   has_more is false only when it reaches the head the handler saw.         *)
SyncReplyIsSegment ==
  \A rd \in Readers : sync[rd].phase = "replied" => ReplyIsSegment(rd)

EntryOf(r) ==
  [id |-> r.id, item |-> r.item, op |-> r.op,
   previous_head_hash |-> r.previous_head_hash, head_hash |-> r.head_hash]

\* The committed revisions of a vault, read as a log.
LogOf(v) ==
  [n \in 1..head[v].seq |-> EntryOf(CHOOSE r \in RowsOf(v) : r.head_seq = n)]

logs == [v \in Vaults |-> LogOf(v)]

Log == INSTANCE VaultLog WITH log <- logs

(* The tables implement the append-only log of VaultLog: no step of any
   handler removes, reorders or rewrites a committed change, and each commit
   appends one change that extends the head and continues its item.         *)
ImplementsVaultLog == Log!Spec

=============================================================================
