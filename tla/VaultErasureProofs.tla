------------------------- MODULE VaultErasureProofs -------------------------
(***************************************************************************)
(* Proofs about VaultErasure, for any number of accounts, vaults, writers  *)
(* and readers.  A writer or reader beside the clean-up does what it does  *)
(* in VaultServer, so that the invariant of VaultServerProofs, said of the *)
(* vaults that are kept, carries over; what is new is what a clean-up      *)
(* takes with it.                                                          *)
(***************************************************************************)
EXTENDS VaultErasure, VaultServerProofs

KeptVaults == { v \in Vaults : Kept(v) }

\* A reply is checked once: what becomes of the vault later is not its matter.
RepliesVerify ==
  \A rd \in Readers :
    sync[rd].phase = "replied" => ReplyVerifies(rd) \/ sync[rd].changes = {}

ErasureInv ==
  InvIn(KeptVaults) /\ SyncIn(KeptVaults) /\ NothingOfErased /\ RepliesVerify

LEMMA ErasureInvInit == ErasureInit => ErasureInv
<1> SUFFICES ASSUME ErasureInit PROVE ErasureInv
  OBVIOUS
<1>1. Init /\ IInv
  BY InvInit DEF ErasureInit
<1>2. InvIn(KeptVaults)
  BY <1>1, AllVaults DEF InvIn, ChainsIn, CreatedIn, KeptVaults
<1>3. SyncIn(KeptVaults) /\ RepliesVerify
  BY <1>1 DEF Init, SyncIn, RepliesVerify
<1>4. NothingOfErased
  BY <1>1 DEF Init, NothingOfErased, NoItem, Open
<1> QED
  BY <1>2, <1>3, <1>4 DEF ErasureInv

-----------------------------------------------------------------------------
(***************************************************************************)
(* The handlers.                                                           *)
(***************************************************************************)

(* A write handler beside the clean-up takes a step of VaultServer, or finds
   that its vault is gone. *)
LEMMA WriterSteps ==
  ASSUME NEW h \in Handlers, BeginWrite(h) \/ ContinueWrite(h) \/ Rollback(h)
  PROVE  Begin(h) \/ Continue(h) \/ Rollback(h)
  BY DEF BeginWrite, ContinueWrite, Begin

(* An open transaction keeps its request; a new one is in a vault that is kept
   and that no clean-up has taken. *)
LEMMA OpenRequest ==
  ASSUME TypeOK, NEW h \in Handlers, BeginWrite(h) \/ ContinueWrite(h) \/ Rollback(h),
         NEW o \in Handlers, tx'[o].phase \in Open
  PROVE  \/ tx[o].phase \in Open /\ tx'[o].sub = tx[o].sub
         \/ Kept(tx'[o].sub.vault) /\ tx'[o].sub.vault \notin cleaner.vaults
<1>1. CASE BeginWrite(h)
  <2>1. PICK s \in Submissions :
           \/ VaultNotFound(h, s)
           \/ /\ Kept(s.vault) /\ s.vault \notin cleaner.vaults
              /\ CreateConflict(h, s) \/ LockForCreate(h, s) \/ LockForRevision(h, s)
    BY <1>1 DEF BeginWrite
  <2>2. CASE VaultNotFound(h, s) \/ CreateConflict(h, s)
    BY <2>2 DEF VaultNotFound, CreateConflict, Answer, TypeOK, Open
  <2>3. CASE LockForCreate(h, s) \/ LockForRevision(h, s)
    <3>1. tx' = [tx EXCEPT ![h] = tx'[h]] /\ tx'[h].sub = s
      BY <2>3 DEF LockForCreate, LockForRevision, Proceed, TypeOK
    <3>2. Kept(s.vault) /\ s.vault \notin cleaner.vaults
      BY <2>1, <2>3 DEF VaultNotFound, LockForCreate, LockForRevision
    <3> QED
      BY <3>1, <3>2 DEF TypeOK
  <2> QED
    BY <2>1, <2>2, <2>3
<1>2. CASE ContinueWrite(h)
  <2>1. CASE InsertItemRow(h) \/ LockItem(h) \/ InsertRevisionRow(h)
    <3>1. /\ tx[h].phase \in Open
          /\ \E phase, vault, latest : Proceed(h, phase, tx[h].sub, vault, latest)
      BY <2>1 DEF InsertItemRow, LockItem, InsertRevisionRow, Open
    <3>2. tx'[h].sub = tx[h].sub /\ \A p \in Handlers \ {h} : tx'[p] = tx[p]
      BY <3>1 DEF Proceed, TypeOK
    <3> QED
      BY <3>1, <3>2
  <2>2. CASE ItemIdTaken(h) \/ ItemNotFound(h) \/ RevisionConflict(h)
               \/ RevisionIdTaken(h) \/ Commit(h)
    <3>1. \E how \in Answered : \E s : Answer(h, how, s)
      BY <2>2 DEF ItemIdTaken, ItemNotFound, RevisionConflict, RevisionIdTaken, Commit, Answered
    <3>2. tx'[h].phase \in Answered /\ \A p \in Handlers \ {h} : tx'[p] = tx[p]
      BY <3>1 DEF Answer, TypeOK
    <3> QED
      BY <3>2 DEF Open, Answered
  <2> QED
    BY <1>2, <2>1, <2>2 DEF ContinueWrite, Continue
<1>3. CASE Rollback(h)
  BY <1>3 DEF Rollback, Answer, TypeOK, Open
<1> QED
  BY <1>1, <1>2, <1>3

(* What a write handler commits, it commits into a vault that is kept. *)
LEMMA WriterKeepsNothing ==
  ASSUME ErasureInv, UNCHANGED <<erased, cleaner>>,
         NEW h \in Handlers, BeginWrite(h) \/ ContinueWrite(h) \/ Rollback(h)
  PROVE  NothingOfErased'
<1>1. TypeOK /\ SnapshotsStayTrue /\ NothingOfErased
  BY DEF ErasureInv, InvIn
<1>2. \A v : Kept(v)' <=> Kept(v)
  BY DEF Kept
<1>3. (\A r \in revisions : Kept(r.vault))'
      /\ (\A i \in Items : items[i].vault # None => Kept(items[i].vault))'
  <2>1. CASE Commit(h)
    <3>1. PICK row \in Revision : CommitsRow(h, row)
      BY <1>1, <2>1, CommitRow
    <3>2. Kept(row.vault)
      BY <1>1, <2>1, <3>1 DEF CommitsRow, NothingOfErased, Commit, Open
    <3> QED
      BY <1>1, <1>2, <3>1, <3>2 DEF CommitsRow, NothingOfErased, LatestItemRow
  <2>2. CASE ~Commit(h)
    <3>1. UNCHANGED tables
      BY <2>2, WriterSteps, OnlyCommitWrites
    <3> QED
      BY <1>1, <1>2, <3>1 DEF NothingOfErased, tables
  <2> QED
    BY <2>1, <2>2
<1>4. ASSUME NEW o \in Handlers, tx'[o].phase \in Open
      PROVE  (Kept(tx[o].sub.vault) /\ tx[o].sub.vault \notin cleaner.vaults)'
  BY <1>1, <1>2, <1>4, OpenRequest DEF NothingOfErased
<1> QED
  BY <1>3, <1>4 DEF NothingOfErased

(* A segment of a whole chain is what the client can verify. *)
LEMMA SegmentVerifies ==
  ASSUME TypeOK, NEW rd \in Readers, sync[rd].phase = "replied",
         ChainOf(sync[rd].from.vault), ReplyIsSegment(rd)
  PROVE  ReplyVerifies(rd)
<1>1. PICK s, c, v : s = sync[rd] /\ c = s.from /\ v = c.vault
  OBVIOUS
<1>2. v \in Vaults /\ c.seq \in Nat /\ s.to.seq \in Nat
  BY <1>1, ServerAssumption DEF TypeOK, SyncState, Cursor, VaultHead
<1>3. ChainOf(v) /\ head[v].seq \in Nat
  BY <1>1, <1>2 DEF TypeOK, VaultHead
<1>4. /\ HashIs(v, c.seq, c.hash) /\ HashIs(v, s.to.seq, s.to.hash)
      /\ s.changes = { r \in RowsOf(v) : c.seq < r.head_seq /\ r.head_seq <= s.to.seq }
      /\ Cardinality(s.changes) = s.to.seq - c.seq
  BY <1>1 DEF ReplyIsSegment
<1>5. \A r \in RowsOf(v) : r.head_seq \in 1..head[v].seq
  BY <1>3 DEF ChainOf
<1>6. ASSUME NEW x \in s.changes
      PROVE  \/ x.head_seq = c.seq + 1 /\ x.previous_head_hash = c.hash
             \/ \E y \in s.changes :
                  y.head_seq = x.head_seq - 1 /\ y.head_hash = x.previous_head_hash
  <2>1. x \in RowsOf(v) /\ x.head_seq \in 1..head[v].seq
        /\ c.seq < x.head_seq /\ x.head_seq <= s.to.seq
    BY <1>4, <1>5
  <2>2. CASE x.head_seq = c.seq + 1
    <3>1. CASE c.seq = 0 /\ c.hash = Genesis[v]
      BY <1>3, <2>1, <2>2, <3>1 DEF ChainOf
    <3>2. ASSUME NEW r \in RowsOf(v), r.head_seq = c.seq, r.head_hash = c.hash
          PROVE  x.previous_head_hash = c.hash
      BY <1>3, <2>1, <2>2, <3>2 DEF ChainOf
    <3> QED
      BY <1>4, <2>2, <3>1, <3>2 DEF HashIs
  <2>3. CASE x.head_seq # c.seq + 1
    <3>1. x.head_seq - 1 \in 1..head[v].seq
      BY <1>2, <1>3, <2>1, <2>3
    <3>2. PICK y \in RowsOf(v) : y.head_seq = x.head_seq - 1
      BY <1>3, <3>1 DEF ChainOf
    <3>3. x.head_seq = y.head_seq + 1
      BY <2>1, <3>2
    <3>4. y.head_hash = x.previous_head_hash
      BY <1>3, <2>1, <3>2, <3>3 DEF ChainOf
    <3>5. y \in s.changes
      BY <1>2, <1>4, <2>1, <2>3, <3>2
    <3> QED
      BY <3>2, <3>4, <3>5
  <2> QED
    BY <2>2, <2>3
<1>7. ASSUME s.changes = {} PROVE s.to.hash = c.hash
  <2>1. s.to.seq = c.seq
    BY <1>2, <1>4, <1>7, FS_EmptySet
  <2> QED
    BY <1>3, <1>4, <1>5, <2>1 DEF HashIs, ChainOf
<1>8. ASSUME s.changes # {}
      PROVE  \E x \in s.changes : x.head_seq = s.to.seq /\ x.head_hash = s.to.hash
  <2>1. c.seq < s.to.seq
    BY <1>2, <1>4, <1>5, <1>8
  <2>2. PICK x \in RowsOf(v) : x.head_seq = s.to.seq /\ x.head_hash = s.to.hash
    BY <1>2, <1>4, <2>1 DEF HashIs
  <2> QED
    BY <1>2, <1>4, <2>1, <2>2
<1> QED
  BY <1>1, <1>4, <1>6, <1>7, <1>8 DEF ReplyVerifies

(* A reply about a vault that is gone is empty. *)
LEMMA ErasedReplyEmpty ==
  ASSUME TypeOK, NothingOfErased, NEW rd \in Readers, ReadRows(rd),
         ~Kept(sync[rd].from.vault)
  PROVE  sync'[rd].changes = {}
<1>1. RowsPast(sync[rd].from, sync[rd].head) = {}
  BY DEF NothingOfErased, RowsPast
<1>2. SelectedRows(sync[rd].from, sync[rd].head) = {}
  BY <1>1 DEF SelectedRows, FirstRows
<1> QED
  BY <1>2 DEF ReadRows, FirstRows, TypeOK

(* Every reply made while the clean-up is at work is true or refused. *)
LEMMA ReaderReplies ==
  ASSUME ErasureInv, NEW rd \in Readers, Read(rd), sync'[rd].phase = "replied",
         InvIn(KeptVaults)', SyncIn(KeptVaults)', UNCHANGED erased
  PROVE  ReplyVerifies(rd)' \/ sync'[rd].changes = {}
<1>1. TypeOK /\ TypeOK' /\ NothingOfErased
  BY DEF ErasureInv, InvIn
<1>2. ReadRows(rd)
  <2>1. ASSUME SyncCursorMatches(rd) PROVE FALSE
    BY <1>1, <2>1 DEF SyncCursorMatches, TypeOK, SyncState
  <2> QED
    BY <1>1, <2>1 DEF Read, LoadVaultHead, SyncConflict, TypeOK
<1>3. sync'[rd].from = sync[rd].from /\ sync[rd].from.vault \in Vaults
  BY <1>1, <1>2, ServerAssumption DEF ReadRows, TypeOK, SyncState, Cursor
<1>4. CASE Kept(sync[rd].from.vault)
  <2>1. (sync[rd].from.vault \in KeptVaults)'
    BY <1>3, <1>4 DEF KeptVaults, Kept
  <2>2. ChainOf(sync[rd].from.vault)' /\ ReplyIsSegment(rd)'
    BY <2>1 DEF InvIn, ChainsIn, SyncIn, SyncTrails
  <2>3. (TypeOK /\ sync[rd].phase = "replied" /\ ChainOf(sync[rd].from.vault)
         /\ ReplyIsSegment(rd) => ReplyVerifies(rd))'
    BY SegmentVerifies, PTL
  <2> QED
    BY <1>1, <2>2, <2>3
<1>5. CASE ~Kept(sync[rd].from.vault)
  BY <1>1, <1>2, <1>5, ErasedReplyEmpty
<1> QED
  BY <1>4, <1>5

-----------------------------------------------------------------------------
(***************************************************************************)
(* The clean-up.                                                           *)
(***************************************************************************)

(* The rows a clean-up commits away are those of the vaults it has taken, and
   no open transaction has anything to do with them. *)
LEMMA EraseKeepsInv ==
  ASSUME ErasureInv, CommitErase
  PROVE  ErasureInv'
<1> USE ServerAssumption
<1> DEFINE gone == cleaner.vaults
<1>1. /\ TypeOK /\ SnapshotsStayTrue /\ ItemHistories /\ NothingOfErased
      /\ ChainsIn(KeptVaults) /\ CreatedIn(KeptVaults)
  BY DEF ErasureInv, InvIn
<1>2. /\ \A v \in Vaults : Kept(v)' <=> Kept(v) /\ v \notin gone
      /\ cleaner' = NoCleaner
  BY DEF CommitErase, Kept, VaultsOf
<1>3. /\ \A i \in Items : items'[i] = IF items[i].vault \in gone THEN NoItem ELSE items[i]
      /\ revisions' = { r \in revisions : r.vault \notin gone }
      /\ UNCHANGED <<head, lock, tx, sync>>
  BY DEF CommitErase
<1>4. TypeOK'
  BY <1>1, <1>3 DEF CommitErase, TypeOK, ItemRow, NoItem
<1>5. \A h \in Handlers : tx[h].phase \in Open => tx[h].sub.vault \notin gone
  BY <1>1 DEF NothingOfErased
<1>6. SnapshotsStayTrue'
  <2>1. LocksHeld' /\ KeysReserved'
    BY <1>1, <1>3 DEF SnapshotsStayTrue, LocksHeld, KeysReserved, InsertedItem
  <2>2. ASSUME NEW h \in Handlers, tx'[h].phase \in Open PROVE ReadsHold(h)'
    <3>1. tx[h].phase \in Open /\ ReadsHold(h) /\ tx[h].sub.vault \notin gone
          /\ tx[h].sub.item \in Items
      BY <1>1, <1>3, <1>5, <2>2, OpenTx, RequestFields DEF SnapshotsStayTrue
    <3>2. /\ items[tx[h].sub.item].vault = None
              => items'[tx[h].sub.item].vault = None
          /\ items[tx[h].sub.item].vault = tx[h].sub.vault
              => items'[tx[h].sub.item] = items[tx[h].sub.item]
      BY <1>3, <3>1 DEF NoItem
    <3> QED
      BY <1>3, <3>1, <3>2 DEF ReadsHold, HeadMatches
  <2> QED
    BY <2>1, <2>2 DEF SnapshotsStayTrue
<1>7. ASSUME NEW v \in Vaults, Kept(v)' PROVE Kept(v) /\ RowsOf(v)' = RowsOf(v)
  BY <1>2, <1>3, <1>7 DEF RowsOf
<1>8. ChainsIn(KeptVaults)'
  <2>1. ASSUME NEW v \in Vaults, Kept(v)' PROVE ChainOf(v)'
    BY <1>1, <1>3, <1>7, <2>1 DEF ChainsIn, KeptVaults, ChainOf
  <2> QED
    BY <2>1 DEF ChainsIn, KeptVaults
<1>9. ItemHistories'
  <2>1. ASSUME NEW i \in Items PROVE HistoryOf(i)'
    <3>1. HistoryOf(i)
      BY <1>1 DEF ItemHistories
    <3>2. \A r \in revisions : r.item = i => r.vault = items[i].vault
      BY <3>1 DEF HistoryOf
    <3>3. CASE items[i].vault \in gone
      <4>1. { r \in revisions' : r.item = i } = {}
        BY <1>3, <3>2, <3>3
      <4>2. items'[i] = NoItem
        BY <1>3, <3>3
      <4>3. NoItem.vault = None /\ NoItem.latest_seq = 0 /\ NoItem.deleted = FALSE
        BY DEF NoItem
      <4> QED
        BY <4>1, <4>2, <4>3 DEF HistoryOf
    <3>4. CASE items[i].vault \notin gone
      <4>1. /\ items'[i] = items[i]
            /\ { r \in revisions' : r.item = i } = { r \in revisions : r.item = i }
        BY <1>3, <3>2, <3>4
      <4> QED
        BY <3>1, <4>1 DEF HistoryOf
    <3> QED
      BY <3>3, <3>4
  <2> QED
    BY <2>1 DEF ItemHistories
<1>10. CreatedIn(KeptVaults)'
  <2>1. ASSUME NEW h \in Handlers, tx[h].phase = "created", tx[h].sub.vault \in Vaults,
               Kept(tx[h].sub.vault)'
        PROVE  Logged(tx[h].sub)'
    <3>1. Logged(tx[h].sub) /\ tx[h].sub.vault \notin gone
      BY <1>1, <1>2, <1>3, <2>1 DEF CreatedIn, KeptVaults
    <3> QED
      BY <1>3, <3>1 DEF Logged
  <2> QED
    BY <1>3, <2>1 DEF CreatedIn, KeptVaults
<1>11. SyncIn(KeptVaults)'
  <2>1. ASSUME NEW rd \in Readers, sync[rd].phase # "idle", sync[rd].from.vault \in Vaults,
               Kept(sync[rd].from.vault)'
        PROVE  SyncTrails(rd)'
    <3>1. SyncTrails(rd)
      BY <1>2, <1>3, <2>1 DEF ErasureInv, SyncIn, KeptVaults
    <3>2. RowsOf(sync[rd].from.vault)' = RowsOf(sync[rd].from.vault)
      BY <1>3, <1>7, <2>1
    <3> QED
      BY <1>3, <3>1, <3>2 DEF SyncTrails, HeadWas, HashIs, ReplyIsSegment
  <2> QED
    BY <1>3, <2>1 DEF SyncIn, KeptVaults
<1>12. NothingOfErased'
  <2>1. \A r \in revisions' : Kept(r.vault)'
    BY <1>1, <1>2, <1>3 DEF NothingOfErased, TypeOK, Revision
  <2>2. (\A i \in Items : items[i].vault # None => Kept(items[i].vault))'
    BY <1>1, <1>2, <1>3 DEF NothingOfErased, TypeOK, ItemRow, NoItem
  <2>3. (\A h \in Handlers : tx[h].phase \in Open =>
           Kept(tx[h].sub.vault) /\ tx[h].sub.vault \notin cleaner.vaults)'
    BY <1>1, <1>2, <1>3, <1>5, OpenTx, RequestFields DEF NothingOfErased, NoCleaner
  <2> QED
    BY <2>1, <2>2, <2>3 DEF NothingOfErased
<1>13. RepliesVerify'
  BY <1>3 DEF ErasureInv, RepliesVerify, ReplyVerifies
<1> QED
  BY <1>4, <1>6, <1>8, <1>9, <1>10, <1>11, <1>12, <1>13 DEF ErasureInv, InvIn

-----------------------------------------------------------------------------
(* Every step keeps the invariant. *)
LEMMA ErasureStep == ErasureInv /\ [ErasureNext]_erasureVars => ErasureInv'
<1> SUFFICES ASSUME ErasureInv, [ErasureNext]_erasureVars PROVE ErasureInv'
  OBVIOUS
<1> USE ServerAssumption
<1>1. /\ InvIn(KeptVaults) /\ SyncIn(KeptVaults) /\ NothingOfErased /\ RepliesVerify
      /\ TypeOK /\ SnapshotsStayTrue /\ KeptVaults \in SUBSET Vaults
  BY DEF ErasureInv, InvIn, KeptVaults
<1>2. PICK live \in SUBSET Vaults : live = KeptVaults
  BY <1>1
<1>3. UNCHANGED erased => live = KeptVaults'
  BY <1>2 DEF KeptVaults, Kept
<1>4. ASSUME NEW h \in Handlers, BeginWrite(h) \/ ContinueWrite(h) \/ Rollback(h),
             UNCHANGED <<erased, cleaner>>
      PROVE  ErasureInv'
  <2>1. Begin(h) \/ Continue(h) \/ Rollback(h)
    BY <1>4, WriterSteps
  <2>2. TypeOK' /\ UNCHANGED sync
    BY <1>1, <2>1, TypeStep, OnlyCommitWrites DEF Next, Commit, Answer
  <2>3. tx[h].phase = "commit" => tx[h].sub.vault \in live
    BY <1>1, <1>2, OpenTx, RequestFields DEF NothingOfErased, Open, KeptVaults
  <2>4. InvIn(live)'
    BY <1>1, <1>2, <2>1, <2>2, <2>3, WriteKeepsInv DEF InvIn
  <2>5. SyncIn(live)'
    BY <1>1, <1>2, <2>1, SyncKept
  <2>6. RepliesVerify'
    BY <1>1, <2>2 DEF RepliesVerify, ReplyVerifies
  <2> QED
    BY <1>3, <1>4, <2>4, <2>5, <2>6, WriterKeepsNothing DEF ErasureInv
<1>5. ASSUME NEW h \in Handlers, NEW s \in Submissions, ErasedNotFound(h, s),
             UNCHANGED <<erased, cleaner>>
      PROVE  ErasureInv'
  <2>1. Answer(h, "not_found", None) /\ UNCHANGED tables /\ UNCHANGED sync
    BY <1>5 DEF ErasedNotFound, Answer
  <2>2. TypeOK'
    BY <1>1, <2>1, TypeAnswer DEF TypeOK, tables, Answered
  <2>3. InvIn(live)'
    BY <1>1, <1>2, <2>1, <2>2, AnswerKeepsInv DEF InvIn, Answered
  <2>4. SyncIn(live)'
    BY <1>1, <1>2, <2>1, TrailsUnchanged DEF SyncIn
  <2>5. RepliesVerify'
    BY <1>1, <2>1 DEF RepliesVerify, ReplyVerifies
  <2>6. \A o \in Handlers : tx'[o].phase \in Open => tx'[o] = tx[o]
    BY <1>1, <2>1 DEF Answer, TypeOK, Open
  <2>7. NothingOfErased'
    BY <1>1, <1>5, <2>1, <2>6 DEF NothingOfErased, Kept, tables
  <2> QED
    BY <1>3, <1>5, <2>3, <2>4, <2>5, <2>7 DEF ErasureInv
<1>6. ASSUME NEW r \in Readers, ReadVault(r), UNCHANGED <<erased, cleaner>>
      PROVE  ErasureInv'
  <2>1. UNCHANGED <<tables, lock, tx>> /\ \A o \in Readers \ {r} : sync'[o] = sync[o]
    BY <1>1, <1>6 DEF ReadVault, LoadVaultHead, LoadErasedVault, SyncCursorMatches,
                      SyncConflict, ReadRows, TypeOK
  <2>2. Read(r) \/ sync'[r] = [phase |-> "idle"]
    BY <1>1, <1>6 DEF ReadVault, Read, LoadErasedVault, TypeOK
  <2>3. TypeOK'
    <3>1. CASE Read(r)
      BY <1>1, <3>1, TypeStep DEF Next
    <3>2. CASE sync'[r] = [phase |-> "idle"]
      BY <1>1, <1>6, <2>1, <3>2
         DEF ReadVault, LoadVaultHead, LoadErasedVault, SyncCursorMatches, SyncConflict,
             ReadRows, TypeOK, SyncState, tables
    <3> QED
      BY <2>2, <3>1, <3>2
  <2>4. InvIn(live)'
    BY <1>1, <1>2, <2>1, <2>3, ReadKeepsInv DEF InvIn
  <2>5. SyncIn(live)'
    <3>1. CASE Read(r)
      BY <1>1, <1>2, <3>1, SyncKept
    <3>2. CASE sync'[r] = [phase |-> "idle"]
      BY <1>1, <1>2, <2>1, <3>2, TrailsUnchanged DEF SyncIn
    <3> QED
      BY <2>2, <3>1, <3>2
  <2>6. InvIn(KeptVaults)' /\ SyncIn(KeptVaults)'
    BY <1>3, <1>6, <2>4, <2>5
  <2>7. RepliesVerify'
    <3>1. sync'[r].phase = "replied" => ReplyVerifies(r)' \/ sync'[r].changes = {}
      BY <1>6, <2>2, <2>6, ReaderReplies
    <3>2. \A o \in Readers \ {r} : sync'[o].phase = "replied" =>
            ReplyVerifies(o)' \/ sync'[o].changes = {}
      BY <1>1, <2>1 DEF RepliesVerify, ReplyVerifies
    <3> QED
      BY <3>1, <3>2 DEF RepliesVerify
  <2>8. NothingOfErased'
    BY <1>1, <1>6, <2>1 DEF NothingOfErased, Kept, tables
  <2> QED
    BY <2>6, <2>7, <2>8 DEF ErasureInv
<1>7. ASSUME UNCHANGED <<vars, erased>>, NothingOfErased' PROVE ErasureInv'
  <2>1. InvIn(live)' /\ SyncIn(live)'
    BY <1>1, <1>2, <1>7, ReadKeepsInv, TrailsUnchanged DEF InvIn, SyncIn, TypeOK, vars, tables
  <2>2. RepliesVerify'
    BY <1>1, <1>7 DEF RepliesVerify, ReplyVerifies, vars
  <2> QED
    BY <1>3, <1>7, <2>1, <2>2 DEF ErasureInv
<1>8. CASE StartErase \/ EraseFails
  <2>1. UNCHANGED <<vars, erased>> /\ cleaner'.vaults = {}
    BY <1>8 DEF StartErase, EraseFails, NoCleaner
  <2>2. NothingOfErased'
    BY <1>1, <2>1 DEF NothingOfErased, Kept, vars
  <2> QED
    BY <1>7, <2>1, <2>2
<1>9. ASSUME NEW v \in Vaults, TakeVault(v) PROVE ErasureInv'
  <2>1. /\ UNCHANGED <<vars, erased>> /\ lock[v] = None
        /\ \A w : w \in cleaner'.vaults => w \in cleaner.vaults \/ w = v
    BY <1>9 DEF TakeVault
  <2>2. \A h \in Handlers : ~(tx[h].phase \in Open /\ tx[h].sub.vault = v)
    BY <1>1, <2>1 DEF SnapshotsStayTrue, LocksHeld
  <2>3. NothingOfErased'
    BY <1>1, <2>1, <2>2 DEF NothingOfErased, Kept, vars
  <2> QED
    BY <1>7, <2>1, <2>3
<1>10. CASE CommitErase
  BY <1>10, EraseKeepsInv
<1>11. CASE UNCHANGED erasureVars
  <2>1. UNCHANGED <<vars, erased>> /\ UNCHANGED cleaner
    BY <1>11 DEF erasureVars
  <2>2. NothingOfErased'
    BY <1>1, <2>1 DEF NothingOfErased, Kept, vars
  <2> QED
    BY <1>7, <2>1, <2>2
<1> QED
  BY <1>4, <1>5, <1>6, <1>8, <1>9, <1>10, <1>11 DEF ErasureNext, Serve, Erase

LEMMA ErasureInvariance == ErasureSpec => []ErasureInv
  BY ErasureInvInit, ErasureStep, PTL DEF ErasureSpec

(* An account is deleted with everything in its vault: no writer that waited
   for the clean-up leaves a row behind (maintenance.rs, the cascading foreign
   keys and the FOR UPDATE of vault.rs). *)
THEOREM ErasureComplete == ErasureSpec => []NothingOfErased
  BY ErasureInvariance, PTL DEF ErasureInv

(* A clean-up takes all of an account or nothing: the vaults that are kept are
   whole, whatever a clean-up beside them did or failed to do. *)
THEOREM KeptWhole == ErasureSpec => []KeptVaultsWhole
<1>1. ErasureInv => KeptVaultsWhole
  <2> SUFFICES ASSUME ErasureInv PROVE KeptVaultsWhole
    OBVIOUS
  <2>1. \A v \in Vaults : Kept(v) => ChainOf(v)
    BY DEF ErasureInv, InvIn, ChainsIn, KeptVaults
  <2>2. \A i \in Items : HistoryOf(i)
    BY DEF ErasureInv, InvIn, ItemHistories
  <2>3. ASSUME NEW h \in Handlers, tx[h].phase = "created", Kept(tx[h].sub.vault)
        PROVE  \E r \in RowsOf(tx[h].sub.vault) :
                 /\ r.id = tx[h].sub.id
                 /\ r.head_seq = tx[h].sub.base_head_seq + 1
                 /\ r.head_hash = tx[h].sub.new_head_hash
    <3>1. tx[h].sub.vault \in Vaults
      BY <2>3, RequestFields DEF ErasureInv, InvIn, TypeOK, Tx, Open, Answered
    <3>2. Logged(tx[h].sub)
      BY <2>3, <3>1 DEF ErasureInv, InvIn, CreatedIn, KeptVaults
    <3> QED
      BY <3>2 DEF Logged, RowsOf
  <2> QED
    BY <2>1, <2>2, <2>3 DEF KeptVaultsWhole
<1> QED
  BY <1>1, ErasureInvariance, PTL

(* A client is never told a segment that is not one, even of a vault that is
   deleted between the reads of its sync request. *)
THEOREM RepliesSafe == ErasureSpec => []RepliesTrueOrRefused
<1>1. ErasureInv => RepliesTrueOrRefused
  <2> SUFFICES ASSUME ErasureInv, NEW rd \in Readers, sync[rd].phase = "replied"
               PROVE  /\ Kept(sync[rd].from.vault) => ReplyIsSegment(rd)
                      /\ ReplyVerifies(rd) \/ sync[rd].changes = {}
    BY DEF RepliesTrueOrRefused
  <2>1. sync[rd].from.vault \in Vaults
    BY ServerAssumption DEF ErasureInv, InvIn, TypeOK, SyncState, Cursor
  <2>2. Kept(sync[rd].from.vault) => ReplyIsSegment(rd)
    BY <2>1 DEF ErasureInv, SyncIn, SyncTrails, KeptVaults
  <2> QED
    BY <2>2 DEF ErasureInv, RepliesVerify
<1> QED
  BY <1>1, ErasureInvariance, PTL

-----------------------------------------------------------------------------
(* A vault that is kept only ever gains changes, one after its head at a time
   and each naming that head; an account that is deleted stays deleted.     *)
KeptHistoriesGrow ==
  [][ /\ erased \subseteq erased'
      /\ \A v \in Vaults : Kept(v)' =>
           /\ RowsOf(v) \subseteq RowsOf(v)'
           /\ \A r \in RowsOf(v)' \ RowsOf(v) :
                /\ r.head_seq = head[v].seq + 1
                /\ r.previous_head_hash = head[v].hash ]_erasureVars

\* The steps that leave the revisions alone, and the one that adds to them.
LEMMA WriterRows ==
  ASSUME ErasureInv, ErasureNext
  PROVE  \/ revisions' = revisions
         \/ CommitErase
         \/ /\ UNCHANGED erased
            /\ \E h \in Handlers, row \in Revision : CommitsRow(h, row)
<1>1. CASE Erase
  BY <1>1 DEF Erase, StartErase, TakeVault, EraseFails, vars
<1>2. ASSUME NEW h \in Handlers, BeginWrite(h) \/ ContinueWrite(h) \/ Rollback(h),
             ~Commit(h)
      PROVE  revisions' = revisions
  BY <1>2, WriterSteps, OnlyCommitWrites DEF tables
<1>3. ASSUME NEW h \in Handlers, Commit(h)
      PROVE  \E row \in Revision : CommitsRow(h, row)
  BY <1>3, CommitRow DEF ErasureInv, InvIn
<1>4. ASSUME NEW h \in Handlers, NEW s \in Submissions, ErasedNotFound(h, s)
      PROVE  revisions' = revisions
  BY <1>4 DEF ErasedNotFound, tables
<1>5. ASSUME NEW r \in Readers, ReadVault(r) PROVE revisions' = revisions
  BY <1>5 DEF ReadVault, LoadVaultHead, LoadErasedVault, SyncCursorMatches, SyncConflict,
              ReadRows, tables
<1>6. CASE Serve
  BY <1>2, <1>3, <1>4, <1>5, <1>6 DEF Serve
<1> QED
  BY <1>1, <1>6 DEF ErasureNext

(* No clean-up, finished or failed, takes a change from a vault whose account
   it does not delete, and no writer beside it rewrites one. *)
THEOREM KeptOnlyGrows == ErasureSpec => KeptHistoriesGrow
<1>1. ErasureInv /\ [ErasureNext]_erasureVars =>
        [ /\ erased \subseteq erased'
          /\ \A v \in Vaults : Kept(v)' =>
               /\ RowsOf(v) \subseteq RowsOf(v)'
               /\ \A r \in RowsOf(v)' \ RowsOf(v) :
                    /\ r.head_seq = head[v].seq + 1
                    /\ r.previous_head_hash = head[v].hash ]_erasureVars
  <2> SUFFICES ASSUME ErasureInv, ErasureNext
               PROVE  /\ erased \subseteq erased'
                      /\ \A v \in Vaults : Kept(v)' =>
                           /\ RowsOf(v) \subseteq RowsOf(v)'
                           /\ \A r \in RowsOf(v)' \ RowsOf(v) :
                                /\ r.head_seq = head[v].seq + 1
                                /\ r.previous_head_hash = head[v].hash
    OBVIOUS
  <2>1. erased \subseteq erased'
    BY DEF ErasureNext, Serve, Erase, StartErase, TakeVault, CommitErase, EraseFails
  <2>2. ASSUME NEW v \in Vaults, Kept(v)'
        PROVE  /\ RowsOf(v) \subseteq RowsOf(v)'
               /\ \A r \in RowsOf(v)' \ RowsOf(v) :
                    /\ r.head_seq = head[v].seq + 1
                    /\ r.previous_head_hash = head[v].hash
    <3>1. CASE revisions' = revisions
      BY <3>1 DEF RowsOf
    <3>2. CASE CommitErase
      <4>1. v \notin cleaner.vaults
        BY <2>2, <3>2 DEF CommitErase, VaultsOf, Kept
      <4> QED
        BY <3>2, <4>1 DEF CommitErase, RowsOf
    <3>3. ASSUME NEW h \in Handlers, NEW row \in Revision, CommitsRow(h, row)
          PROVE  /\ RowsOf(v) \subseteq RowsOf(v)'
                 /\ \A r \in RowsOf(v)' \ RowsOf(v) :
                      /\ r.head_seq = head[v].seq + 1
                      /\ r.previous_head_hash = head[v].hash
      BY <3>3 DEF CommitsRow, RowsOf
    <3> QED
      BY <3>1, <3>2, <3>3, WriterRows
  <2> QED
    BY <2>1, <2>2
<1> QED
  BY <1>1, ErasureInvariance, PTL DEF ErasureSpec, KeptHistoriesGrow

=============================================================================
