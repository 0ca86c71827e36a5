------------------------- MODULE VaultServerProofs -------------------------
(***************************************************************************)
(* Proofs about VaultServer, for any number of vaults, handlers, items and *)
(* requests.                                                               *)
(***************************************************************************)
EXTENDS VaultServer, Sequences, SequenceTheorems, FiniteSetTheorems, TLAPS

LEMMA TypeInit == Init => TypeOK
  BY ServerAssumption
     DEF Init, TypeOK, VaultHead, ItemRow, NoItem, Tx, Answered, SyncState

(* An answer keeps the lock table and the handler table well typed. *)
LEMMA TypeAnswer ==
  ASSUME TypeOK, NEW h \in Handlers, NEW how \in Answered,
         NEW s \in Submissions \cup {None},
         how = "created" <=> s # None,
         Answer(h, how, s)
  PROVE  /\ tx' \in [Handlers -> Tx]
         /\ lock' \in [Vaults -> Handlers \cup {None}]
         /\ sync' = sync
  BY ServerAssumption DEF TypeOK, Answer, Tx

LEMMA TypeProceed ==
  ASSUME TypeOK, NEW h \in Handlers, NEW phase \in Open, NEW s \in Submissions,
         NEW vault \in VaultHead, NEW latest \in Nat,
         Proceed(h, phase, s, vault, latest)
  PROVE  /\ tx' \in [Handlers -> Tx]
         /\ UNCHANGED <<head, items, revisions, sync>>
  BY DEF TypeOK, Proceed, Tx, tables

(* An open transaction carries its request and what it has read. *)
LEMMA OpenTx ==
  ASSUME TypeOK, NEW h \in Handlers, tx[h].phase \in Open
  PROVE  /\ tx[h].sub \in Submissions
         /\ tx[h].head \in VaultHead
         /\ tx[h].latest \in Nat
  BY DEF TypeOK, Tx, Open, Answered

LEMMA RequestFields ==
  ASSUME NEW s \in Submissions
  PROVE  /\ s.vault \in Vaults /\ s.item \in Items /\ s.id \in RevIds /\ s.op \in Ops
         /\ s.base_head_seq \in Nat /\ s.base_revision_seq \in Nat
         /\ s.base_head_hash \in Hashes /\ s.new_head_hash \in Hashes
         /\ s.op = "create" <=> s.base_revision_seq = 0
  BY ServerAssumption DEF Submission

LEMMA NewRevisionType ==
  ASSUME NEW s \in Submissions, NEW vault \in VaultHead, NEW latest \in Nat
  PROVE  NewRevision(s, vault, latest) \in Revision
  BY RequestFields DEF NewRevision, Revision, VaultHead

LEMMA FirstRowsSubset ==
  ASSUME NEW rows, NEW n PROVE FirstRows(rows, n) \subseteq rows
  BY DEF FirstRows

(* What sync_vault puts in its reply, when the tables are well typed. *)
LEMMA ReadRowsReply ==
  ASSUME TypeOK, NEW r \in Readers, ReadRows(r)
  PROVE  \E to \in VaultHead, changes \in SUBSET Revision, has_more \in BOOLEAN :
           sync' = [sync EXCEPT ![r] =
                      [phase |-> "replied", from |-> sync[r].from, head |-> sync[r].head,
                       to |-> to, changes |-> changes, has_more |-> has_more]]
<1> DEFINE c == sync[r].from
           vault == sync[r].head
           selected == SelectedRows(c, vault)
           has_more == Cardinality(selected) > MaxSyncChanges
           changes == FirstRows(selected, MaxSyncChanges)
           Reply(to) ==
             sync' = [sync EXCEPT ![r] =
                        [phase |-> "replied", from |-> c, head |-> vault, to |-> to,
                         changes |-> changes, has_more |-> has_more]]
<1>1. changes \in SUBSET Revision
  BY FirstRowsSubset DEF TypeOK, SelectedRows, RowsPast
<1>2. vault \in VaultHead
  BY DEF ReadRows, TypeOK, SyncState
<1>3. \/ Reply(vault)
      \/ \E last \in changes : Reply([seq |-> last.head_seq, hash |-> last.head_hash])
  BY DEF ReadRows
<1>4. \A last \in changes : [seq |-> last.head_seq, hash |-> last.head_hash] \in VaultHead
  BY <1>1 DEF Revision, VaultHead
<1>5. \E to \in VaultHead : Reply(to)
  BY <1>2, <1>3, <1>4
<1>6. has_more \in BOOLEAN
  OBVIOUS
<1> QED
  BY <1>1, <1>5, <1>6

LEMMA TypeStep == TypeOK /\ [Next]_vars => TypeOK'
<1> SUFFICES ASSUME TypeOK, [Next]_vars PROVE TypeOK'
  OBVIOUS
<1> USE ServerAssumption
<1>1. ASSUME NEW h \in Handlers, Begin(h) PROVE TypeOK'
  <2> PICK s \in Submissions : \/ VaultNotFound(h, s) \/ CreateConflict(h, s)
                               \/ LockForCreate(h, s) \/ LockForRevision(h, s)
    BY <1>1 DEF Begin
  <2> s.vault \in Vaults
    BY RequestFields
  <2> head[s.vault] \in VaultHead
    BY DEF TypeOK
  <2>1. CASE VaultNotFound(h, s)
    BY <2>1, TypeAnswer DEF VaultNotFound, TypeOK, Answered, tables
  <2>2. CASE CreateConflict(h, s)
    BY <2>2, TypeAnswer DEF CreateConflict, TypeOK, Answered, tables
  <2>3. CASE LockForCreate(h, s)
    BY <2>3, TypeProceed DEF LockForCreate, TypeOK, Open
  <2>4. CASE LockForRevision(h, s)
    BY <2>4, TypeProceed DEF LockForRevision, TypeOK, Open
  <2> QED
    BY <2>1, <2>2, <2>3, <2>4
<1>2. ASSUME NEW h \in Handlers, Continue(h) PROVE TypeOK'
  <2> tx[h].phase \in Open
    BY <1>2 DEF Continue, InsertItemRow, ItemIdTaken, ItemNotFound, RevisionConflict,
                LockItem, InsertRevisionRow, RevisionIdTaken, Commit, Open
  <2> DEFINE s == tx[h].sub
             row == NewRevision(s, tx[h].head, tx[h].latest)
  <2> s \in Submissions /\ tx[h].head \in VaultHead /\ tx[h].latest \in Nat
    BY OpenTx
  <2>1. CASE InsertItemRow(h)
    BY <2>1, TypeProceed DEF InsertItemRow, TypeOK, Open
  <2>2. CASE ItemIdTaken(h)
    BY <2>2, TypeAnswer DEF ItemIdTaken, TypeOK, Answered, tables
  <2>3. CASE ItemNotFound(h)
    BY <2>3, TypeAnswer DEF ItemNotFound, TypeOK, Answered, tables
  <2>4. CASE RevisionConflict(h)
    BY <2>4, TypeAnswer DEF RevisionConflict, TypeOK, Answered, tables
  <2>5. CASE LockItem(h)
    <3> items[s.item].latest_seq \in Nat
      BY RequestFields DEF TypeOK, ItemRow
    <3> QED
      BY <2>5, TypeProceed DEF LockItem, TypeOK, Open
  <2>6. CASE InsertRevisionRow(h)
    BY <2>6, TypeProceed DEF InsertRevisionRow, TypeOK, Open
  <2>7. CASE RevisionIdTaken(h)
    BY <2>7, TypeAnswer DEF RevisionIdTaken, TypeOK, Answered, tables
  <2>8. CASE Commit(h)
    <3>1. row \in Revision
      BY NewRevisionType
    <3>2. head' \in [Vaults -> VaultHead] /\ items' \in [Items -> ItemRow]
          /\ revisions' \subseteq Revision
      BY <2>8, <3>1 DEF Commit, TypeOK, Revision, VaultHead, ItemRow, LatestItemRow
    <3>3. Answer(h, "created", s) \/ Answer(h, "unavailable", None)
      BY <2>8 DEF Commit
    <3>4. /\ tx' \in [Handlers -> Tx]
          /\ lock' \in [Vaults -> Handlers \cup {None}]
          /\ sync' = sync
      BY <3>3, TypeAnswer DEF Answered
    <3> QED
      BY <3>2, <3>4 DEF TypeOK
  <2> QED
    BY <1>2, <2>1, <2>2, <2>3, <2>4, <2>5, <2>6, <2>7, <2>8 DEF Continue
<1>3. ASSUME NEW h \in Handlers, Rollback(h) PROVE TypeOK'
  BY <1>3, TypeAnswer DEF Rollback, TypeOK, Answered, tables
<1>4. ASSUME NEW r \in Readers, Read(r) PROVE TypeOK'
  <2>1. ASSUME NEW c \in Cursors, LoadVaultHead(r, c) PROVE TypeOK'
    <3> head[c.vault] \in VaultHead
      BY DEF TypeOK, Cursor
    <3> QED
      BY <2>1 DEF LoadVaultHead, TypeOK, SyncState, tables
  <2>2. CASE SyncCursorMatches(r)
    BY <2>2 DEF SyncCursorMatches, TypeOK, SyncState, tables
  <2>3. CASE SyncConflict(r)
    BY <2>3 DEF SyncConflict, TypeOK, SyncState, tables
  <2>4. CASE ReadRows(r)
    <3> PICK to \in VaultHead, changes \in SUBSET Revision, has_more \in BOOLEAN :
               sync' = [sync EXCEPT ![r] =
                          [phase |-> "replied", from |-> sync[r].from, head |-> sync[r].head,
                           to |-> to, changes |-> changes, has_more |-> has_more]]
      BY <2>4, ReadRowsReply
    <3> sync[r] \in [phase : {"read_rows"}, from : Cursors, head : VaultHead]
      BY <2>4 DEF ReadRows, TypeOK, SyncState
    <3> QED
      BY <2>4 DEF ReadRows, TypeOK, SyncState, tables
  <2> QED
    BY <1>4, <2>1, <2>2, <2>3, <2>4 DEF Read
<1>5. CASE UNCHANGED vars
  BY <1>5 DEF TypeOK, vars
<1> QED
  BY <1>1, <1>2, <1>3, <1>4, <1>5 DEF Next

(* Every reachable state of the tables, locks and handlers is well typed. *)
THEOREM TypeCorrect == Spec => []TypeOK
  BY TypeInit, TypeStep, PTL DEF Spec

-----------------------------------------------------------------------------
(***************************************************************************)
(* The inductive invariant: the four safety properties hold each other up. *)
(* The chain stays linked because the head a transaction compared is still *)
(* the head when it commits, and that holds because its lock is exclusive. *)
(* What is said of a vault's rows is said of the vaults in a set, because  *)
(* VaultErasure deletes rows of the others.                                *)
(***************************************************************************)
ChainsIn(live) == \A v \in live : ChainOf(v)

Logged(s) ==
  \E r \in revisions :
    /\ r.id = s.id /\ r.vault = s.vault /\ r.item = s.item /\ r.op = s.op
    /\ r.head_seq = s.base_head_seq + 1
    /\ r.head_hash = s.new_head_hash

CreatedIn(live) ==
  \A h \in Handlers :
    tx[h].phase = "created" /\ tx[h].sub.vault \in live => Logged(tx[h].sub)

InvIn(live) ==
  TypeOK /\ SnapshotsStayTrue /\ ChainsIn(live) /\ ItemHistories /\ CreatedIn(live)

IInv == TypeOK /\ SnapshotsStayTrue /\ ChainIntact /\ ItemHistories /\ CreatedIsLogged

LEMMA AllVaults == IInv <=> InvIn(Vaults)
<1>1. ChainIntact <=> ChainsIn(Vaults)
  BY DEF ChainIntact, ChainsIn
<1>2. \A s : Logged(s) <=>
        \E r \in revisions :
          /\ r.id = s.id /\ r.vault = s.vault /\ r.item = s.item /\ r.op = s.op
          /\ r.head_seq = s.base_head_seq + 1
          /\ r.head_hash = s.new_head_hash
  BY DEF Logged
<1>3. ASSUME TypeOK, NEW h \in Handlers, tx[h].phase = "created"
      PROVE  tx[h].sub.vault \in Vaults
  BY <1>3, RequestFields DEF TypeOK, Tx, Open, Answered
<1>4. TypeOK => (CreatedIsLogged <=> CreatedIn(Vaults))
  BY <1>2, <1>3 DEF CreatedIsLogged, CreatedIn
<1> QED
  BY <1>1, <1>4 DEF IInv, InvIn

LEMMA InvInit == Init => IInv
<1> SUFFICES ASSUME Init PROVE IInv
  OBVIOUS
<1> USE ServerAssumption
<1>1. TypeOK
  BY TypeInit
<1>2. SnapshotsStayTrue
  BY DEF Init, SnapshotsStayTrue, LocksHeld, KeysReserved, InsertedItem, Open
<1>3. ChainIntact
  BY DEF Init, ChainIntact, ChainOf, RowsOf
<1>4. ItemHistories
  BY DEF Init, ItemHistories, HistoryOf, NoItem
<1>5. CreatedIsLogged
  BY DEF Init, CreatedIsLogged
<1> QED
  BY <1>1, <1>2, <1>3, <1>4, <1>5 DEF IInv

(* A step that leaves the tables alone and acknowledges nothing new keeps
   the three properties of the committed rows. *)
LEMMA TablesUnchanged ==
  ASSUME NEW live \in SUBSET Vaults,
         ChainsIn(live), ItemHistories, CreatedIn(live), UNCHANGED tables,
         \A h \in Handlers : tx'[h].phase = "created" => tx'[h] = tx[h]
  PROVE  ChainsIn(live)' /\ ItemHistories' /\ CreatedIn(live)'
<1>1. ChainsIn(live)'
  BY DEF ChainsIn, ChainOf, RowsOf, tables
<1>2. ItemHistories'
  BY DEF ItemHistories, HistoryOf, tables
<1>3. CreatedIn(live)'
  BY DEF CreatedIn, Logged, tables
<1> QED
  BY <1>1, <1>2, <1>3

(* An answer frees the handler's lock and leaves the others as they were. *)
LEMMA AnswerKeepsLocks ==
  ASSUME TypeOK, LocksHeld, KeysReserved,
         NEW h \in Handlers, NEW how \in Answered, NEW s, Answer(h, how, s)
  PROVE  LocksHeld' /\ KeysReserved'
         /\ tx'[h].phase \notin Open
         /\ \A o \in Handlers \ {h} : tx'[o] = tx[o]
<1> USE ServerAssumption
<1>1. tx'[h].phase = how /\ how \notin Open /\ \A o \in Handlers \ {h} : tx'[o] = tx[o]
  BY DEF TypeOK, Answer, Answered, Open
<1>2. LocksHeld'
  BY <1>1 DEF TypeOK, Answer, LocksHeld
<1>3. KeysReserved'
  BY <1>1 DEF KeysReserved, InsertedItem, Open
<1> QED
  BY <1>1, <1>2, <1>3

LEMMA AnswerKeepsInv ==
  ASSUME NEW live \in SUBSET Vaults, InvIn(live), NEW h \in Handlers,
         NEW how \in Answered \ {"created"}, Answer(h, how, None), UNCHANGED tables
  PROVE  SnapshotsStayTrue' /\ ChainsIn(live)' /\ ItemHistories' /\ CreatedIn(live)'
<1>1. LocksHeld' /\ KeysReserved' /\ tx'[h].phase \notin Open
      /\ \A o \in Handlers \ {h} : tx'[o] = tx[o]
  BY AnswerKeepsLocks DEF InvIn, SnapshotsStayTrue
<1>2. SnapshotsStayTrue'
  BY <1>1 DEF InvIn, SnapshotsStayTrue, ReadsHold, HeadMatches, tables
<1>3. \A o \in Handlers : tx'[o].phase = "created" => tx'[o] = tx[o]
  BY <1>1 DEF Answer, InvIn, TypeOK
<1> QED
  BY <1>2, <1>3, TablesUnchanged DEF InvIn

(* A statement that moves an open transaction on keeps the invariant when
   what it has read holds and its new keys are its own. *)
LEMMA ProceedKeepsInv ==
  ASSUME NEW live \in SUBSET Vaults, InvIn(live), NEW h \in Handlers, NEW phase \in Open,
         NEW s \in Submissions, NEW vault \in VaultHead, NEW latest \in Nat,
         Proceed(h, phase, s, vault, latest),
         LocksHeld', ReadsHold(h)',
         \A o \in Handlers \ {h} :
           /\ InsertedItem(h)' /\ InsertedItem(o) => tx[o].sub.item # s.item
           /\ phase = "commit" /\ tx[o].phase = "commit" => tx[o].sub.id # s.id
  PROVE  SnapshotsStayTrue' /\ ChainsIn(live)' /\ ItemHistories' /\ CreatedIn(live)'
<1>1. tx'[h] = [phase |-> phase, sub |-> s, head |-> vault, latest |-> latest]
      /\ (\A o \in Handlers \ {h} : tx'[o] = tx[o]) /\ UNCHANGED tables
  BY DEF Proceed, InvIn, TypeOK
<1>2. KeysReserved'
  BY <1>1 DEF InvIn, SnapshotsStayTrue, KeysReserved, InsertedItem
<1>3. \A o \in Handlers : tx'[o].phase \in Open => ReadsHold(o)'
  BY <1>1 DEF InvIn, SnapshotsStayTrue, ReadsHold, HeadMatches, tables
<1>4. \A o \in Handlers : tx'[o].phase = "created" => tx'[o] = tx[o]
  BY <1>1 DEF Open
<1> QED
  BY <1>1, <1>2, <1>3, <1>4, TablesUnchanged DEF InvIn, SnapshotsStayTrue

(* A request that takes the free vaults row: it, and nobody else, holds it. *)
LEMMA BeginKeepsInv ==
  ASSUME NEW live \in SUBSET Vaults, InvIn(live), NEW h \in Handlers, NEW s \in Submissions,
         VaultNotFound(h, s) \/ CreateConflict(h, s)
           \/ LockForCreate(h, s) \/ LockForRevision(h, s)
  PROVE  SnapshotsStayTrue' /\ ChainsIn(live)' /\ ItemHistories' /\ CreatedIn(live)'
<1> USE ServerAssumption
<1>1. CASE VaultNotFound(h, s)
  BY <1>1, AnswerKeepsInv DEF VaultNotFound, Answered
<1>2. CASE CreateConflict(h, s)
  BY <1>2, AnswerKeepsInv DEF CreateConflict, Answered
<1>3. ASSUME NEW phase \in {"insert_item", "lock_item"},
             phase = "insert_item" <=> s.op = "create",
             phase = "insert_item" => HeadMatches(head[s.vault], s),
             Starts(h, s), Owner[s.vault] = s.account,
             lock' = [lock EXCEPT ![s.vault] = h],
             Proceed(h, phase, s, head[s.vault], 0)
      PROVE  SnapshotsStayTrue' /\ ChainsIn(live)' /\ ItemHistories' /\ CreatedIn(live)'
  <2>1. s.vault \in Vaults /\ head[s.vault] \in VaultHead
    BY RequestFields DEF InvIn, TypeOK
  <2>2. tx'[h] = [phase |-> phase, sub |-> s, head |-> head[s.vault], latest |-> 0]
        /\ (\A o \in Handlers \ {h} : tx'[o] = tx[o]) /\ UNCHANGED tables
    BY <1>3 DEF Proceed, InvIn, TypeOK
  <2>3. phase \in Open
    BY DEF Open
  <2>4. LocksHeld'
    <3>1. \A v \in Vaults : lock[v] # h
      BY <1>3 DEF Starts, InvIn, SnapshotsStayTrue, LocksHeld, Open, Answered
    <3>2. \A v \in Vaults : lock'[v] = IF v = s.vault THEN h ELSE lock[v]
      BY <1>3, <2>1 DEF InvIn, TypeOK
    <3>3. \A o \in Handlers \ {h} : ~(tx[o].phase \in Open /\ tx[o].sub.vault = s.vault)
      BY <1>3, <2>1 DEF Starts, InvIn, SnapshotsStayTrue, LocksHeld
    <3>4. ASSUME NEW v \in Vaults, NEW o \in Handlers
          PROVE  lock'[v] = o <=> tx'[o].phase \in Open /\ tx'[o].sub.vault = v
      <4>1. CASE o = h
        BY <4>1, <3>1, <3>2, <2>2, <2>3
      <4>2. CASE o # h
        BY <4>2, <3>2, <3>3, <2>2 DEF InvIn, SnapshotsStayTrue, LocksHeld
      <4> QED
        BY <4>1, <4>2
    <3> QED
      BY <3>4 DEF LocksHeld
  <2>5. ReadsHold(h)'
    BY <1>3, <2>2 DEF ReadsHold, HeadMatches, tables
  <2>6. ~InsertedItem(h)' /\ phase # "commit"
    BY <2>2 DEF InsertedItem
  <2> QED
    BY <1>3, <2>1, <2>3, <2>4, <2>5, <2>6, ProceedKeepsInv
<1>4. CASE LockForCreate(h, s)
  BY <1>4, <1>3 DEF LockForCreate
<1>5. CASE LockForRevision(h, s)
  BY <1>5, <1>3 DEF LockForRevision
<1> QED
  BY <1>1, <1>2, <1>4, <1>5

(* The statements before COMMIT only read, or reserve a key. *)
LEMMA StatementKeepsInv ==
  ASSUME NEW live \in SUBSET Vaults, InvIn(live), NEW h \in Handlers,
         InsertItemRow(h) \/ LockItem(h) \/ InsertRevisionRow(h)
  PROVE  SnapshotsStayTrue' /\ ChainsIn(live)' /\ ItemHistories' /\ CreatedIn(live)'
<1> USE ServerAssumption
<1> DEFINE s == tx[h].sub
<1>1. tx[h].phase \in Open
  BY DEF InsertItemRow, LockItem, InsertRevisionRow, Open
<1>2. /\ s \in Submissions /\ tx[h].head \in VaultHead /\ tx[h].latest \in Nat
      /\ ReadsHold(h)
  BY <1>1, OpenTx DEF InvIn, SnapshotsStayTrue
<1>3. ASSUME NEW phase \in Open, NEW latest \in Nat,
             Proceed(h, phase, s, tx[h].head, latest), UNCHANGED lock
      PROVE  /\ LocksHeld' /\ UNCHANGED tables
             /\ tx'[h] = [phase |-> phase, sub |-> s, head |-> tx[h].head, latest |-> latest]
  <2>1. tx'[h] = [phase |-> phase, sub |-> s, head |-> tx[h].head, latest |-> latest]
        /\ (\A o \in Handlers \ {h} : tx'[o] = tx[o]) /\ UNCHANGED tables
    BY <1>3 DEF Proceed, InvIn, TypeOK
  <2> QED
    BY <2>1, <1>1, <1>3 DEF LocksHeld, InvIn, SnapshotsStayTrue
<1>4. CASE InsertItemRow(h)
  <2>1. Proceed(h, "insert_revision", s, tx[h].head, 0) /\ UNCHANGED lock
        /\ s.op = "create" /\ items[s.item].vault = None
        /\ HeadMatches(head[s.vault], s)
    BY <1>2, <1>4 DEF InsertItemRow, ReadsHold
  <2>2. "insert_revision" \in Open
    BY DEF Open
  <2>3. LocksHeld' /\ UNCHANGED tables
        /\ tx'[h] = [phase |-> "insert_revision", sub |-> s, head |-> tx[h].head, latest |-> 0]
    BY <1>3, <2>1, <2>2
  <2>4. s.base_revision_seq = 0
    BY <2>1, <1>2, RequestFields
  <2>5. ReadsHold(h)'
    BY <2>1, <2>3, <2>4, <1>2 DEF ReadsHold, HeadMatches, tables
  <2>6. \A o \in Handlers \ {h} : InsertedItem(o) => tx[o].sub.item # s.item
    BY <1>4 DEF InsertItemRow, ItemInsertPending, InsertedItem
  <2> QED
    BY <1>2, <2>1, <2>2, <2>3, <2>5, <2>6, ProceedKeepsInv
<1>5. CASE LockItem(h)
  <2> DEFINE latest == items[s.item].latest_seq
  <2>1. Proceed(h, "insert_revision", s, tx[h].head, latest) /\ UNCHANGED lock
        /\ s.op # "create" /\ items[s.item].vault = s.vault
        /\ ~Stale(tx[h].head, items[s.item], s)
    BY <1>2, <1>5 DEF LockItem, ReadsHold
  <2>2. "insert_revision" \in Open
    BY DEF Open
  <2>3. latest \in Nat
    BY <1>2, RequestFields DEF InvIn, TypeOK, ItemRow
  <2>4. LocksHeld' /\ UNCHANGED tables
        /\ tx'[h] = [phase |-> "insert_revision", sub |-> s, head |-> tx[h].head, latest |-> latest]
    BY <1>3, <2>1, <2>2, <2>3
  <2>5. ReadsHold(h)'
    BY <2>1, <2>4, <1>2 DEF ReadsHold, HeadMatches, Stale, tables
  <2>6. ~InsertedItem(h)'
    BY <2>1, <2>4 DEF InsertedItem
  <2> QED
    BY <1>2, <2>1, <2>2, <2>3, <2>4, <2>5, <2>6, ProceedKeepsInv
<1>6. CASE InsertRevisionRow(h)
  <2>1. Proceed(h, "commit", s, tx[h].head, tx[h].latest) /\ UNCHANGED lock
        /\ tx[h].phase = "insert_revision"
        /\ (\A r \in revisions : r.id # s.id)
    BY <1>6 DEF InsertRevisionRow, UniqueViolation, NewRevision
  <2>2. "commit" \in Open
    BY DEF Open
  <2>3. LocksHeld' /\ UNCHANGED tables
        /\ tx'[h] = [phase |-> "commit", sub |-> s, head |-> tx[h].head, latest |-> tx[h].latest]
    BY <1>2, <1>3, <2>1, <2>2
  <2>4. ReadsHold(h)'
    BY <2>1, <2>3, <1>2 DEF ReadsHold, HeadMatches, tables
  <2>5. \A o \in Handlers \ {h} : InsertedItem(h)' /\ InsertedItem(o) => tx[o].sub.item # s.item
    BY <2>1, <2>3 DEF InvIn, SnapshotsStayTrue, KeysReserved, InsertedItem
  <2>6. \A o \in Handlers \ {h} : tx[o].phase = "commit" => tx[o].sub.id # s.id
    BY <1>6 DEF InsertRevisionRow, RevisionInsertPending
  <2> QED
    BY <1>2, <2>1, <2>2, <2>3, <2>4, <2>5, <2>6, ProceedKeepsInv
<1> QED
  BY <1>4, <1>5, <1>6

-----------------------------------------------------------------------------
(***************************************************************************)
(* COMMIT.                                                                 *)
(***************************************************************************)

(* The row a transaction commits, what its reads say about it, and what the
   commit does to the tables. *)
CommitsRow(h, row) ==
  /\ row.id = tx[h].sub.id /\ row.vault = tx[h].sub.vault
  /\ row.item = tx[h].sub.item /\ row.op = tx[h].sub.op
  /\ row.head_hash = tx[h].sub.new_head_hash
  /\ row.head_seq = tx[h].sub.base_head_seq + 1
  /\ row.head_seq = head[row.vault].seq + 1
  /\ row.previous_head_hash = head[row.vault].hash
  /\ row.revision_seq = row.base_revision_seq + 1
  /\ row.op = "create" =>
       row.base_revision_seq = 0 /\ items[row.item].vault = None
  /\ row.op # "create" =>
       /\ row.base_revision_seq > 0
       /\ items[row.item].vault = row.vault
       /\ items[row.item].latest_seq = row.base_revision_seq
       /\ items[row.item].deleted = FALSE
  /\ \A r \in revisions : r.id # row.id
  /\ revisions' = revisions \cup {row}
  /\ \A v \in Vaults : head'[v] = IF v = row.vault
                                 THEN [seq |-> row.head_seq, hash |-> row.head_hash]
                                 ELSE head[v]
  /\ \A i \in Items : items'[i] = IF i = row.item THEN LatestItemRow(row) ELSE items[i]

LEMMA CommitRow ==
  ASSUME TypeOK, SnapshotsStayTrue, NEW h \in Handlers, Commit(h)
  PROVE  \E row \in Revision : CommitsRow(h, row)
<1> DEFINE s == tx[h].sub
           row == NewRevision(s, tx[h].head, tx[h].latest)
<1>1. tx[h].phase = "commit" /\ tx[h].phase \in Open
  BY DEF Commit, Open
<1>2. /\ s \in Submissions /\ tx[h].head \in VaultHead /\ tx[h].latest \in Nat
      /\ ReadsHold(h)
  BY <1>1, OpenTx DEF SnapshotsStayTrue
<1>3. row \in Revision
  BY <1>2, NewRevisionType
<1>4. items[s.item].deleted \in BOOLEAN /\ (s.op = "create" <=> s.base_revision_seq = 0)
      /\ s.base_revision_seq \in Nat
  BY <1>2, RequestFields DEF TypeOK, ItemRow
<1>5. tx[h].head = head[s.vault] /\ HeadMatches(head[s.vault], s)
      /\ tx[h].latest = s.base_revision_seq
      /\ (s.op = "create" => items[s.item].vault = None)
      /\ (s.op # "create" => items[s.item].vault = s.vault
            /\ items[s.item].latest_seq = tx[h].latest /\ ~items[s.item].deleted)
      /\ \A r \in revisions : r.id # s.id
  BY <1>1, <1>2 DEF ReadsHold
<1>6. /\ row.id = s.id /\ row.vault = s.vault /\ row.item = s.item /\ row.op = s.op
      /\ row.head_hash = s.new_head_hash
      /\ row.head_seq = s.base_head_seq + 1
      /\ row.head_seq = head[row.vault].seq + 1
      /\ row.previous_head_hash = head[row.vault].hash
      /\ row.revision_seq = row.base_revision_seq + 1
      /\ row.op = "create" =>
           row.base_revision_seq = 0 /\ items[row.item].vault = None
      /\ row.op # "create" =>
           /\ row.base_revision_seq > 0
           /\ items[row.item].vault = row.vault
           /\ items[row.item].latest_seq = row.base_revision_seq
           /\ items[row.item].deleted = FALSE
      /\ \A r \in revisions : r.id # row.id
  BY <1>2, <1>4, <1>5 DEF NewRevision, HeadMatches
<1>7. /\ revisions' = revisions \cup {row}
      /\ \A v \in Vaults : head'[v] = IF v = row.vault
                                     THEN [seq |-> row.head_seq, hash |-> row.head_hash]
                                     ELSE head[v]
      /\ \A i \in Items : items'[i] = IF i = row.item THEN LatestItemRow(row) ELSE items[i]
  BY DEF Commit, TypeOK
<1> HIDE DEF row
<1> QED
  <2>1. CommitsRow(h, row)
    BY <1>6, <1>7 DEF CommitsRow
  <2> QED
    BY <1>3, <2>1 DEF row

LEMMA CommitChain ==
  ASSUME NEW live \in SUBSET Vaults, InvIn(live), NEW h \in Handlers, Commit(h)
  PROVE  ChainsIn(live)'
<1>1. PICK row \in Revision :
         /\ row.head_seq = head[row.vault].seq + 1
         /\ row.previous_head_hash = head[row.vault].hash
         /\ revisions' = revisions \cup {row}
         /\ \A v \in Vaults : head'[v] = IF v = row.vault
                                        THEN [seq |-> row.head_seq, hash |-> row.head_hash]
                                        ELSE head[v]
  <2>1. \E row \in Revision : CommitsRow(h, row)
    BY CommitRow DEF InvIn
  <2> QED
    BY <2>1 DEF CommitsRow
<1>2. ASSUME NEW v \in live PROVE ChainOf(v)'
  <2>1. ChainOf(v) /\ head[v].seq \in Nat
    BY DEF InvIn, TypeOK, VaultHead, ChainsIn
  <2>2. CASE v # row.vault
    BY <1>1, <2>1, <2>2 DEF ChainOf, RowsOf
  <2>3. CASE v = row.vault
    <3>1. /\ head'[v].seq = head[v].seq + 1 /\ head'[v].hash = row.head_hash
          /\ RowsOf(v)' = RowsOf(v) \cup {row}
          /\ row.head_seq = head[v].seq + 1
          /\ row.previous_head_hash = head[v].hash
      BY <1>1, <2>3 DEF RowsOf
    <3>2. \A n \in 1..head'[v].seq : \E r \in RowsOf(v)' : r.head_seq = n
      BY <2>1, <3>1 DEF ChainOf
    <3>3. \A r \in RowsOf(v)' : r.head_seq \in 1..head'[v].seq
      BY <2>1, <3>1 DEF ChainOf
    <3>4. \A q, r \in RowsOf(v)' : q.head_seq = r.head_seq => q = r
      BY <2>1, <3>1 DEF ChainOf
    <3>5. \A r \in RowsOf(v)' : r.head_seq = 1 => r.previous_head_hash = Genesis[v]
      BY <2>1, <3>1 DEF ChainOf
    <3>6. \A q, r \in RowsOf(v)' :
            r.head_seq = q.head_seq + 1 => r.previous_head_hash = q.head_hash
      BY <2>1, <3>1 DEF ChainOf
    <3>7. \A r \in RowsOf(v)' : r.head_seq = head'[v].seq => r.head_hash = head'[v].hash
      BY <2>1, <3>1 DEF ChainOf
    <3> QED
      BY <2>1, <3>1, <3>2, <3>3, <3>4, <3>5, <3>6, <3>7 DEF ChainOf
  <2> QED
    BY <2>2, <2>3
<1> QED
  BY <1>2 DEF ChainsIn

LEMMA CommitHistories ==
  ASSUME NEW live \in SUBSET Vaults, InvIn(live), NEW h \in Handlers, Commit(h),
         tx[h].sub.vault \in live
  PROVE  ItemHistories'
<1> USE ServerAssumption
<1>0. TypeOK /\ SnapshotsStayTrue
  BY DEF InvIn
<1>1. PICK row \in Revision :
         /\ row.vault = tx[h].sub.vault
         /\ row.head_seq = head[row.vault].seq + 1
         /\ row.revision_seq = row.base_revision_seq + 1
         /\ row.op = "create" =>
              row.base_revision_seq = 0 /\ items[row.item].vault = None
         /\ row.op # "create" =>
              /\ row.base_revision_seq > 0
              /\ items[row.item].vault = row.vault
              /\ items[row.item].latest_seq = row.base_revision_seq
              /\ items[row.item].deleted = FALSE
         /\ revisions' = revisions \cup {row}
         /\ \A i \in Items : items'[i] = IF i = row.item THEN LatestItemRow(row) ELSE items[i]
  <2>1. \E row \in Revision : CommitsRow(h, row)
    BY <1>0, CommitRow
  <2> QED
    BY <2>1 DEF CommitsRow
<1>2. ASSUME NEW i \in Items PROVE HistoryOf(i)'
  <2> DEFINE rows == { r \in revisions : r.item = i }
             new  == { r \in revisions' : r.item = i }
  <2>1. HistoryOf(i) /\ items[i] \in ItemRow
    BY DEF InvIn, TypeOK, ItemHistories
  <2>2. CASE i # row.item
    <3>1. new = rows /\ items'[i] = items[i]
      BY <1>1, <2>2
    <3> QED
      BY <2>1, <3>1 DEF HistoryOf
  <2>3. CASE i = row.item
    <3>1. /\ new = rows \cup {row}
          /\ items'[i] = [vault |-> row.vault, latest_id |-> row.id,
                          latest_seq |-> row.revision_seq,
                          deleted |-> items[i].deleted \/ row.op = "delete"]
      BY <1>1, <2>3 DEF LatestItemRow
    <3>2. row.vault \in Vaults /\ row.vault # None
          /\ row.revision_seq \in Nat /\ row.base_revision_seq \in Nat
      BY DEF Revision
    <3>3. items[i].latest_seq = row.base_revision_seq /\ items[i].deleted = FALSE
      BY <1>1, <2>1, <2>3 DEF HistoryOf, NoItem
    <3>4. \A r \in rows :
            /\ r.vault = row.vault
            /\ r.revision_seq \in 1..row.base_revision_seq
            /\ r.base_revision_seq = r.revision_seq - 1
            /\ r.op = "create" <=> r.revision_seq = 1
            /\ r.op # "delete"
      <4>1. CASE row.op = "create"
        BY <1>1, <2>1, <2>3, <4>1 DEF HistoryOf
      <4>2. CASE row.op # "create"
        BY <1>1, <2>1, <2>3, <3>3, <4>2 DEF HistoryOf
      <4> QED
        BY <4>1, <4>2
    <3>5. row.op = "create" <=> row.revision_seq = 1
      BY <1>1, <3>2
    <3>6. \A r \in rows : r.head_seq < row.head_seq /\ r.revision_seq < row.revision_seq
      <4>1. \A r \in rows : r.head_seq \in 1..head[row.vault].seq
        BY <1>1, <3>2, <3>4 DEF InvIn, ChainsIn, ChainOf, RowsOf
      <4>2. head[row.vault].seq \in Nat
        BY <3>2 DEF InvIn, TypeOK, VaultHead
      <4> QED
        BY <4>1, <4>2, <1>1, <3>2, <3>4
    <3>7. \A n \in 1..row.revision_seq : \E r \in new : r.revision_seq = n
      BY <1>1, <2>1, <3>1, <3>2, <3>3 DEF HistoryOf
    <3>8. \A q, r \in new : q.revision_seq < r.revision_seq => q.head_seq < r.head_seq
      <4>1. \A q, r \in rows : q.revision_seq < r.revision_seq => q.head_seq < r.head_seq
        BY <2>1 DEF HistoryOf
      <4>2. \A q \in rows : q.revision_seq \in Nat /\ row.revision_seq \in Nat
        BY <3>2, <3>4
      <4>3. ASSUME NEW q \in rows, row.revision_seq < q.revision_seq PROVE FALSE
        BY <3>6, <4>2, <4>3
      <4>4. ASSUME NEW q \in new, NEW r \in new, q.revision_seq < r.revision_seq
            PROVE  q.head_seq < r.head_seq
        <5>1. CASE q \in rows /\ r \in rows
          BY <4>1, <4>4, <5>1
        <5>2. CASE q \in rows /\ r = row
          BY <3>6, <5>2
        <5>3. CASE q = row /\ r \in rows
          BY <4>3, <4>4, <5>3
        <5>4. CASE q = row /\ r = row
          BY <3>2, <4>4, <5>4
        <5> QED
          BY <3>1, <5>1, <5>2, <5>3, <5>4
      <4> QED
        BY <4>4
    <3>9. \A r \in new :
            /\ r.vault = row.vault
            /\ r.revision_seq \in 1..row.revision_seq
            /\ r.base_revision_seq = r.revision_seq - 1
            /\ r.op = "create" <=> r.revision_seq = 1
            /\ r.op = "delete" => r.revision_seq = row.revision_seq
      BY <1>1, <3>1, <3>2, <3>4, <3>5
    <3>10. items'[i].deleted <=> \E r \in new : r.op = "delete"
      <4>1. items'[i].deleted = (row.op = "delete")
        BY <3>1, <3>3
      <4>2. (\E r \in new : r.op = "delete") <=> row.op = "delete"
        BY <3>1, <3>4
      <4> QED
        BY <4>1, <4>2
    <3>11. row \in new /\ row.revision_seq > 0
      BY <1>1, <3>1, <3>2
    <3> QED
      BY <3>1, <3>2, <3>7, <3>8, <3>9, <3>10, <3>11 DEF HistoryOf
  <2> QED
    BY <2>2, <2>3
<1> QED
  BY <1>2 DEF ItemHistories

LEMMA CommitSnapshots ==
  ASSUME TypeOK, SnapshotsStayTrue, NEW h \in Handlers, Commit(h)
  PROVE  SnapshotsStayTrue'
<1> USE ServerAssumption
<1> DEFINE s == tx[h].sub
<1>1. /\ tx[h].phase = "commit" /\ tx[h].phase \in Open
      /\ s \in Submissions /\ ReadsHold(h)
  BY OpenTx DEF Commit, Open, SnapshotsStayTrue
<1>2. LocksHeld' /\ KeysReserved' /\ tx'[h].phase \notin Open
      /\ \A o \in Handlers \ {h} : tx'[o] = tx[o]
  BY AnswerKeepsLocks DEF Commit, Answered, SnapshotsStayTrue
<1>3. PICK row \in Revision :
         /\ row.id = s.id /\ row.vault = s.vault /\ row.item = s.item /\ row.op = s.op
         /\ row.op = "create" => items[row.item].vault = None
         /\ row.op # "create" => items[row.item].vault = row.vault
         /\ revisions' = revisions \cup {row}
         /\ \A v \in Vaults : head'[v] = IF v = row.vault
                                        THEN [seq |-> row.head_seq, hash |-> row.head_hash]
                                        ELSE head[v]
         /\ \A i \in Items : items'[i] = IF i = row.item THEN LatestItemRow(row) ELSE items[i]
  <2>1. \E row \in Revision : CommitsRow(h, row)
    BY CommitRow
  <2> QED
    BY <2>1 DEF CommitsRow
<1>4. ASSUME NEW o \in Handlers, tx'[o].phase \in Open
      PROVE  ReadsHold(o)'
  <2> DEFINE t == tx[o].sub
  <2>1. /\ o # h /\ tx'[o] = tx[o] /\ tx[o].phase \in Open
        /\ t \in Submissions /\ ReadsHold(o)
    BY <1>2, <1>4, OpenTx DEF SnapshotsStayTrue
  <2>2. t.vault \in Vaults /\ t.item \in Items /\ t.vault # None
    BY <2>1, RequestFields
  <2>3. t.vault # s.vault
    <3>1. s.vault \in Vaults
      BY <1>1, RequestFields
    <3>2. lock[t.vault] = o /\ lock[s.vault] = h
      BY <1>1, <2>1, <2>2, <3>1 DEF SnapshotsStayTrue, LocksHeld
    <3> QED
      BY <2>1, <3>2
  <2>4. head'[t.vault] = head[t.vault]
    BY <1>3, <2>2, <2>3
  <2>5. tx[o].phase \in {"insert_revision", "commit"} => t.item # s.item
    <3>1. CASE t.op = "create"
      BY <1>1, <1>3, <2>1, <3>1, RequestFields
         DEF ReadsHold, SnapshotsStayTrue, KeysReserved, InsertedItem
    <3>2. CASE t.op # "create"
      BY <1>1, <1>3, <2>1, <2>2, <2>3, <3>2 DEF ReadsHold
    <3> QED
      BY <3>1, <3>2
  <2>6. tx[o].phase \in {"insert_revision", "commit"} => items'[t.item] = items[t.item]
    BY <1>3, <2>2, <2>5
  <2>7. tx[o].phase = "commit" => \A r \in revisions' : r.id # t.id
    <3>1. tx[o].phase = "commit" => s.id # t.id
      BY <1>1, <2>1 DEF SnapshotsStayTrue, KeysReserved
    <3>2. tx[o].phase = "commit" => \A r \in revisions : r.id # t.id
      BY <2>1 DEF ReadsHold
    <3> QED
      BY <1>3, <3>1, <3>2
  <2> QED
    BY <2>1, <2>4, <2>6, <2>7 DEF ReadsHold, HeadMatches
<1> QED
  BY <1>2, <1>4 DEF SnapshotsStayTrue

LEMMA CommitCreated ==
  ASSUME NEW live \in SUBSET Vaults, InvIn(live), NEW h \in Handlers, Commit(h)
  PROVE  CreatedIn(live)'
<1> DEFINE s == tx[h].sub
<1>1. PICK row \in Revision :
         /\ row.id = s.id /\ row.vault = s.vault /\ row.item = s.item /\ row.op = s.op
         /\ row.head_hash = s.new_head_hash /\ row.head_seq = s.base_head_seq + 1
         /\ revisions' = revisions \cup {row}
  <2>1. \E row \in Revision : CommitsRow(h, row)
    BY CommitRow DEF InvIn
  <2> QED
    BY <2>1 DEF CommitsRow
<1>2. ASSUME NEW o \in Handlers, tx'[o].phase = "created"
      PROVE  tx'[o] = tx[o] \/ (o = h /\ tx'[o].sub = s)
  BY <1>2 DEF Commit, Answer, InvIn, TypeOK
<1> QED
  BY <1>1, <1>2 DEF CreatedIn, Logged, InvIn

(* A write handler keeps the invariant of the vaults that live on, as long as
   it commits into one of them. *)
LEMMA WriteKeepsInv ==
  ASSUME NEW live \in SUBSET Vaults, InvIn(live), NEW h \in Handlers,
         Begin(h) \/ Continue(h) \/ Rollback(h),
         tx[h].phase = "commit" => tx[h].sub.vault \in live
  PROVE  SnapshotsStayTrue' /\ ChainsIn(live)' /\ ItemHistories' /\ CreatedIn(live)'
<1>1. CASE Begin(h)
  BY <1>1, BeginKeepsInv DEF Begin
<1>2. CASE Continue(h)
  <2>1. CASE InsertItemRow(h) \/ LockItem(h) \/ InsertRevisionRow(h)
    BY <2>1, StatementKeepsInv
  <2>2. CASE ItemIdTaken(h) \/ ItemNotFound(h) \/ RevisionConflict(h) \/ RevisionIdTaken(h)
    BY <2>2, AnswerKeepsInv
       DEF ItemIdTaken, ItemNotFound, RevisionConflict, RevisionIdTaken, Answered
  <2>3. CASE Commit(h)
    <3>1. tx[h].sub.vault \in live
      BY <2>3 DEF Commit
    <3>2. SnapshotsStayTrue'
      BY <2>3, CommitSnapshots DEF InvIn
    <3>3. ItemHistories'
      BY <2>3, <3>1, CommitHistories
    <3> QED
      BY <2>3, <3>2, <3>3, CommitChain, CommitCreated
  <2> QED
    BY <1>2, <2>1, <2>2, <2>3 DEF Continue
<1>3. CASE Rollback(h)
  BY <1>3, AnswerKeepsInv DEF Rollback, Answered
<1> QED
  BY <1>1, <1>2, <1>3

LEMMA ReadKeepsInv ==
  ASSUME NEW live \in SUBSET Vaults, InvIn(live), UNCHANGED <<tables, lock, tx>>
  PROVE  SnapshotsStayTrue' /\ ChainsIn(live)' /\ ItemHistories' /\ CreatedIn(live)'
<1>1. SnapshotsStayTrue'
  BY DEF InvIn, SnapshotsStayTrue, LocksHeld, ReadsHold, KeysReserved,
         InsertedItem, HeadMatches, tables
<1> QED
  BY <1>1, TablesUnchanged DEF InvIn

LEMMA InvStep == IInv /\ [Next]_vars => IInv'
<1> SUFFICES ASSUME IInv, [Next]_vars PROVE IInv'
  OBVIOUS
<1>1. TypeOK'
  BY TypeStep DEF IInv
<1>2. InvIn(Vaults) /\ Vaults \in SUBSET Vaults
  BY AllVaults
<1>3. ASSUME NEW h \in Handlers, Begin(h) \/ Continue(h) \/ Rollback(h)
      PROVE  SnapshotsStayTrue' /\ ChainsIn(Vaults)' /\ ItemHistories' /\ CreatedIn(Vaults)'
  <2>1. tx[h].phase = "commit" => tx[h].sub.vault \in Vaults
    BY OpenTx, RequestFields DEF IInv, Open
  <2> QED
    BY <1>2, <1>3, <2>1, WriteKeepsInv
<1>4. ASSUME UNCHANGED <<tables, lock, tx>>
      PROVE  SnapshotsStayTrue' /\ ChainsIn(Vaults)' /\ ItemHistories' /\ CreatedIn(Vaults)'
  BY <1>2, <1>4, ReadKeepsInv
<1>5. ASSUME NEW r \in Readers, Read(r) PROVE UNCHANGED <<tables, lock, tx>>
  BY <1>5 DEF Read, LoadVaultHead, SyncCursorMatches, SyncConflict, ReadRows
<1>6. InvIn(Vaults)'
  BY <1>1, <1>3, <1>4, <1>5 DEF Next, vars, tables, InvIn
<1>7. InvIn(Vaults)' => IInv'
  BY AllVaults, PTL
<1> QED
  BY <1>6, <1>7

LEMMA Invariance == Spec => []IInv
  BY InvInit, InvStep, PTL DEF Spec

(* What an open write transaction has read is true when it commits. *)
THEOREM SnapshotsSafe == Spec => []SnapshotsStayTrue
  BY Invariance, PTL DEF IInv

(* Every vault is one gapless hash-linked chain that ends in its stored head,
   however many handlers write to it at once. *)
THEOREM ChainSafe == Spec => []ChainIntact
  BY Invariance, PTL DEF IInv

(* vault_items and vault_item_revisions always tell the same history. *)
THEOREM HistoriesSafe == Spec => []ItemHistories
  BY Invariance, PTL DEF IInv

(* An acknowledged write stays in the chain at the place it was promised. *)
THEOREM CreatedSafe == Spec => []CreatedIsLogged
  BY Invariance, PTL DEF IInv

-----------------------------------------------------------------------------
(***************************************************************************)
(* Sync replies.  Rows that fill a range of head_seq are counted by it, so *)
(* that the two LIMITs of sync_vault cut at a head_seq.                    *)
(***************************************************************************)
Fills(rows, first, last) ==
  /\ \A r \in rows : r.head_seq \in (first + 1)..last
  /\ \A q, r \in rows : q.head_seq = r.head_seq => q = r
  /\ \A n \in (first + 1)..last : \E r \in rows : r.head_seq = n

LEMMA RowsCounted ==
  ASSUME NEW rows, NEW first \in Nat, NEW last \in Nat, first <= last,
         Fills(rows, first, last)
  PROVE  Cardinality(rows) = last - first
<1> DEFINE n == last - first
           at == [k \in 1..n |-> CHOOSE r \in rows : r.head_seq = first + k]
<1>1. n \in Nat
  OBVIOUS
<1>2. \A k \in 1..n : at[k] \in rows /\ at[k].head_seq = first + k
  BY DEF Fills
<1>3. at \in [1..n -> rows]
  BY <1>2
<1>4. \A j, k \in 1..n : at[j] = at[k] => j = k
  BY <1>2
<1>5. \A r \in rows : \E k \in 1..n : at[k] = r
  <2> SUFFICES ASSUME NEW r \in rows PROVE \E k \in 1..n : at[k] = r
    OBVIOUS
  <2>1. r.head_seq - first \in 1..n
    BY DEF Fills
  <2>2. at[r.head_seq - first].head_seq = r.head_seq
    BY <1>2, <2>1 DEF Fills
  <2> QED
    BY <1>2, <2>1, <2>2 DEF Fills
<1> HIDE DEF at, n
<1>6. at \in Bijection(1..n, rows)
  BY <1>3, <1>4, <1>5 DEF Bijection, Injection, Surjection, IsInjective
<1>7. ExistsBijection(1..n, rows)
  BY <1>6 DEF ExistsBijection
<1>8. Cardinality(rows) = n
  BY <1>1, <1>7, FS_CountingElements
<1> QED
  BY <1>8 DEF n

LEMMA FirstRowsFill ==
  ASSUME NEW rows, NEW first \in Nat, NEW last \in Nat, first <= last,
         Fills(rows, first, last), NEW n \in Nat
  PROVE  /\ FirstRows(rows, n) = { r \in rows : r.head_seq <= first + n }
         /\ Fills(FirstRows(rows, n), first, IF last <= first + n THEN last ELSE first + n)
<1>1. ASSUME NEW x \in rows
      PROVE  Cardinality({ y \in rows : y.head_seq <= x.head_seq }) = x.head_seq - first
  <2> DEFINE upto == { y \in rows : y.head_seq <= x.head_seq }
  <2>1. x.head_seq \in Nat /\ first <= x.head_seq
    BY DEF Fills
  <2>2. Fills(upto, first, x.head_seq)
    BY <2>1 DEF Fills
  <2> HIDE DEF upto
  <2>3. Cardinality(upto) = x.head_seq - first
    BY <2>1, <2>2, RowsCounted
  <2> QED
    BY <2>3 DEF upto
<1>2. \A x \in rows : x.head_seq \in Nat
  BY DEF Fills
<1>3. FirstRows(rows, n) = { r \in rows : r.head_seq <= first + n }
  BY <1>1, <1>2 DEF FirstRows
<1>4. Fills({ r \in rows : r.head_seq <= first + n }, first,
            IF last <= first + n THEN last ELSE first + n)
  BY DEF Fills
<1> QED
  BY <1>3, <1>4

(* The two LIMITs of sync_vault: one row more than fits tells there are more. *)
LEMMA TwoLimits ==
  ASSUME NEW rows, NEW first \in Nat, NEW last \in Nat, first <= last,
         Fills(rows, first, last), NEW n \in Nat,
         NEW selected, selected = FirstRows(rows, n + 1),
         NEW changes, changes = FirstRows(selected, n),
         NEW end, end = IF last <= first + n THEN last ELSE first + n
  PROVE  /\ Cardinality(selected) > n <=> end < last
         /\ changes = { r \in rows : r.head_seq <= end }
         /\ Cardinality(changes) = end - first
         /\ Fills(changes, first, end)
<1> DEFINE probe == IF last <= first + (n + 1) THEN last ELSE first + (n + 1)
<1>1. /\ selected = { r \in rows : r.head_seq <= first + (n + 1) }
      /\ Fills(selected, first, probe)
  BY FirstRowsFill
<1>2. probe \in Nat /\ first <= probe /\ end \in Nat /\ first <= end
  OBVIOUS
<1>3. Cardinality(selected) = probe - first
  BY <1>1, <1>2, RowsCounted
<1>4. (IF probe <= first + n THEN probe ELSE first + n) = end
  OBVIOUS
<1>5. Cardinality(selected) > n <=> end < last
  BY <1>3
<1> HIDE DEF probe
<1>6. /\ changes = { r \in selected : r.head_seq <= first + n }
      /\ Fills(changes, first, end)
  BY <1>1, <1>2, <1>4, FirstRowsFill
<1>7. Cardinality(changes) = end - first
  BY <1>2, <1>6, RowsCounted
<1>8. changes = { r \in rows : r.head_seq <= end }
  <2>1. \A r \in rows : r.head_seq \in Nat /\ r.head_seq <= last
    BY DEF Fills
  <2> QED
    BY <1>1, <1>6, <2>1
<1> QED
  BY <1>5, <1>6, <1>7, <1>8

-----------------------------------------------------------------------------
(***************************************************************************)
(* A sync handler only ever lags: the head it has read is one the chain    *)
(* has had, and so are its cursor, once compared, and the head it replies. *)
(***************************************************************************)
HeadWas(v, vault) == vault.seq <= head[v].seq /\ HashIs(v, vault.seq, vault.hash)

SyncTrails(rd) ==
  LET c == sync[rd].from IN
  /\ sync[rd].phase \in {"check_cursor", "read_rows"} => HeadWas(c.vault, sync[rd].head)
  /\ sync[rd].phase = "read_rows" =>
       c.seq <= sync[rd].head.seq /\ HashIs(c.vault, c.seq, c.hash)
  /\ sync[rd].phase = "replied" => HeadWas(c.vault, sync[rd].to) /\ ReplyIsSegment(rd)

SyncIn(live) ==
  \A rd \in Readers :
    sync[rd].phase # "idle" /\ sync[rd].from.vault \in live => SyncTrails(rd)

(* The head of a vault is a head its chain has had, of course. *)
LEMMA HeadIs ==
  ASSUME TypeOK, NEW v \in Vaults, ChainOf(v)
  PROVE  HeadWas(v, head[v]) /\ head[v] \in VaultHead
  BY DEF TypeOK, VaultHead, ChainOf, HashIs, HeadWas

(* The rows ReadRows reads are a segment that starts at the cursor. *)
LEMMA ReadRowsSegment ==
  ASSUME TypeOK, NEW rd \in Readers, ReadRows(rd), SyncTrails(rd),
         ChainOf(sync[rd].from.vault)
  PROVE  SyncTrails(rd)'
<1> USE ServerAssumption
<1>0. PICK c, vault : c = sync[rd].from /\ vault = sync[rd].head
  OBVIOUS
<1> DEFINE rows == RowsPast(c, vault)
           selected == SelectedRows(c, vault)
           changes == FirstRows(selected, MaxSyncChanges)
           more == Cardinality(selected) > MaxSyncChanges
           end == IF vault.seq <= c.seq + MaxSyncChanges THEN vault.seq
                  ELSE c.seq + MaxSyncChanges
           Reply(to) ==
             sync' = [sync EXCEPT ![rd] =
                        [phase |-> "replied", from |-> c, head |-> vault, to |-> to,
                         changes |-> changes, has_more |-> more]]
<1>1. /\ c \in Cursors /\ c.vault \in Vaults /\ c.seq \in Nat
      /\ vault \in VaultHead /\ vault.seq \in Nat
  BY <1>0 DEF ReadRows, TypeOK, SyncState, Cursor, VaultHead
<1>2. c.seq <= vault.seq /\ HashIs(c.vault, c.seq, c.hash) /\ HeadWas(c.vault, vault)
  BY <1>0 DEF ReadRows, SyncTrails
<1>3. head[c.vault].seq \in Nat /\ vault.seq <= head[c.vault].seq /\ ChainOf(c.vault)
  BY <1>0, <1>1, <1>2 DEF TypeOK, VaultHead, HeadWas
<1>4. /\ rows = { r \in RowsOf(c.vault) : c.seq < r.head_seq /\ r.head_seq <= vault.seq }
      /\ Fills(rows, c.seq, vault.seq)
  <2>1. rows = { r \in RowsOf(c.vault) : c.seq < r.head_seq /\ r.head_seq <= vault.seq }
    BY <1>1, <1>3 DEF RowsPast, RowsOf, ChainOf
  <2>2. \A r \in RowsOf(c.vault) : r.head_seq \in Nat
    BY <1>3 DEF ChainOf
  <2>3. \A n \in (c.seq + 1)..vault.seq : n \in 1..head[c.vault].seq
    BY <1>1, <1>3
  <2> QED
    BY <1>1, <1>3, <2>1, <2>2, <2>3 DEF Fills, ChainOf
<1> HIDE DEF rows
<1>5. end \in Nat /\ c.seq <= end /\ end <= vault.seq /\ end <= head[c.vault].seq
      /\ end - c.seq <= MaxSyncChanges
  BY <1>1, <1>2, <1>3
<1>6. /\ more <=> end < vault.seq
      /\ changes = { r \in rows : r.head_seq <= end }
      /\ Cardinality(changes) = end - c.seq
      /\ Fills(changes, c.seq, end)
  <2> DEFINE first == c.seq
             last == vault.seq
  <2>1. first \in Nat /\ last \in Nat /\ first <= last /\ Fills(rows, first, last)
    BY <1>1, <1>2, <1>4
  <2>2. end = IF last <= first + MaxSyncChanges THEN last ELSE first + MaxSyncChanges
    OBVIOUS
  <2>3. MaxSyncChanges \in Nat
    OBVIOUS
  <2>4. /\ selected = FirstRows(rows, MaxSyncChanges + 1)
        /\ changes = FirstRows(selected, MaxSyncChanges)
    BY DEF SelectedRows, rows
  <2> HIDE DEF first, last, end, selected, changes
  <2>5. /\ more <=> end < last
        /\ changes = { r \in rows : r.head_seq <= end }
        /\ Cardinality(changes) = end - first
        /\ Fills(changes, first, end)
    BY <2>1, <2>2, <2>3, <2>4, TwoLimits
  <2> QED
    BY <2>5 DEF first, last
<1>7. more \in BOOLEAN
  OBVIOUS
<1> HIDE DEF changes, more, end
<1>9. changes = { r \in RowsOf(c.vault) : c.seq < r.head_seq /\ r.head_seq <= end }
  <2>1. \A r \in RowsOf(c.vault) : r.head_seq \in Nat
    BY <1>3 DEF ChainOf
  <2> QED
    BY <1>1, <1>4, <1>5, <1>6, <2>1
<1>11. PICK to : /\ Reply(to) /\ to.seq = end /\ HashIs(c.vault, to.seq, to.hash)
  <2>1. CASE changes = {} /\ Reply(vault)
    <3>1. c.seq + 1 \notin (c.seq + 1)..end
      BY <2>1, <1>1, <1>6 DEF Fills
    <3>2. vault.seq = end
      BY <3>1, <1>1, <1>2 DEF end
    <3> QED
      BY <2>1, <3>2, <1>2 DEF HeadWas
  <2>2. ASSUME NEW last \in changes, \A x \in changes : x.head_seq <= last.head_seq,
               Reply([seq |-> last.head_seq, hash |-> last.head_hash])
        PROVE  \E to : Reply(to) /\ to.seq = end /\ HashIs(c.vault, to.seq, to.hash)
    <3>1. last \in RowsOf(c.vault) /\ last.head_seq \in (c.seq + 1)..end
      BY <1>6, <1>9 DEF Fills
    <3>2. last.head_seq = end
      <4>1. PICK x \in changes : x.head_seq = end
        BY <3>1, <1>1, <1>5, <1>6 DEF Fills
      <4> QED
        BY <2>2, <3>1, <4>1, <1>1, <1>5
    <3>3. HashIs(c.vault, last.head_seq, last.head_hash)
      BY <3>1 DEF HashIs
    <3> DEFINE to == [seq |-> last.head_seq, hash |-> last.head_hash]
    <3>4. to.seq = last.head_seq /\ to.hash = last.head_hash /\ Reply(to)
      BY <2>2
    <3> HIDE DEF to, Reply
    <3> QED
      BY <3>2, <3>3, <3>4
  <2> QED
    BY <1>0, <2>1, <2>2 DEF ReadRows, changes, more, selected
<1>12. UNCHANGED tables
  BY DEF ReadRows
<1>13. /\ sync'[rd] = [phase |-> "replied", from |-> c, head |-> vault, to |-> to,
                       changes |-> changes, has_more |-> more]
  BY <1>11 DEF TypeOK
<1>14. /\ sync'[rd].from = c /\ sync'[rd].head = vault /\ sync'[rd].to = to
       /\ sync'[rd].changes = changes /\ sync'[rd].has_more = more
       /\ sync'[rd].phase = "replied"
  BY <1>13
<1>15. HashIs(c.vault, c.seq, c.hash)' /\ HashIs(c.vault, to.seq, to.hash)'
  <2>1. HashIs(c.vault, c.seq, c.hash) /\ HashIs(c.vault, to.seq, to.hash)
    BY <1>2, <1>11
  <2> QED
    BY <1>12, <1>14, <2>1 DEF HashIs, RowsOf, tables
<1>16. ReplyIsSegment(rd)'
  <2>1. RowsOf(c.vault)' = RowsOf(c.vault)
    BY <1>12, <1>14 DEF RowsOf, tables
  <2>2. sync'[rd].changes =
          { r \in RowsOf(c.vault)' : c.seq < r.head_seq /\ r.head_seq <= to.seq }
    BY <1>9, <1>11, <1>14, <2>1
  <2>3. /\ Cardinality(sync'[rd].changes) = to.seq - c.seq
        /\ Cardinality(sync'[rd].changes) <= MaxSyncChanges
    BY <1>5, <1>6, <1>11, <1>14
  <2>4. sync'[rd].has_more <=> to.seq < vault.seq
    BY <1>6, <1>11, <1>14
  <2> QED
    BY <1>14, <1>15, <2>2, <2>3, <2>4 DEF ReplyIsSegment
<1>17. HeadWas(c.vault, to)'
  BY <1>5, <1>11, <1>12, <1>15 DEF HeadWas, tables
<1> QED
  BY <1>14, <1>16, <1>17 DEF SyncTrails

(* Commits only append, so that what a sync handler has read keeps being a
   part of the chain. *)
LEMMA CommitKeepsReads ==
  ASSUME TypeOK, SnapshotsStayTrue, NEW h \in Handlers, Commit(h),
         NEW rd \in Readers, SyncTrails(rd), sync[rd].phase # "idle"
  PROVE  SyncTrails(rd)'
<1>1. PICK row \in Revision :
         /\ row.head_seq = head[row.vault].seq + 1
         /\ revisions' = revisions \cup {row}
         /\ \A v \in Vaults : head'[v] = IF v = row.vault
                                        THEN [seq |-> row.head_seq, hash |-> row.head_hash]
                                        ELSE head[v]
  <2>1. \E row \in Revision : CommitsRow(h, row)
    BY CommitRow
  <2> QED
    BY <2>1 DEF CommitsRow
<1>2. UNCHANGED sync
  BY DEF Commit, Answer
<1>3. ASSUME NEW v \in Vaults
      PROVE  /\ head[v].seq \in Nat /\ head[v].seq <= head'[v].seq
             /\ RowsOf(v) \subseteq RowsOf(v)'
             /\ \A r \in RowsOf(v)' : r \in RowsOf(v) \/ r.head_seq = head[v].seq + 1
             /\ \A n, hash : HashIs(v, n, hash) => HashIs(v, n, hash)'
  <2>1. head[v].seq \in Nat /\ head[v].seq <= head'[v].seq
    BY <1>1 DEF TypeOK, VaultHead
  <2>2. /\ RowsOf(v) \subseteq RowsOf(v)'
        /\ \A r \in RowsOf(v)' : r \in RowsOf(v) \/ r.head_seq = head[v].seq + 1
    BY <1>1 DEF RowsOf
  <2> QED
    BY <2>1, <2>2 DEF HashIs
<1> DEFINE c == sync[rd].from
<1>5. CASE sync[rd].phase \in {"check_cursor", "read_rows"}
  <2>1. c.vault \in Vaults /\ sync[rd].head.seq \in Nat
    BY <1>5, ServerAssumption DEF TypeOK, SyncState, Cursor, VaultHead
  <2>2. HeadWas(c.vault, sync[rd].head) => HeadWas(c.vault, sync[rd].head)'
    BY <1>1, <1>2, <1>3, <2>1 DEF HeadWas, TypeOK, VaultHead
  <2> QED
    BY <1>2, <1>3, <1>5, <2>1, <2>2 DEF SyncTrails
<1>6. CASE sync[rd].phase = "replied"
  <2>1. c.vault \in Vaults /\ sync[rd].to.seq \in Nat /\ c.seq \in Nat
    BY <1>6, ServerAssumption DEF TypeOK, SyncState, Cursor, VaultHead
  <2>2. HeadWas(c.vault, sync[rd].to) /\ ReplyIsSegment(rd)
    BY <1>6 DEF SyncTrails
  <2>3. HeadWas(c.vault, sync[rd].to)'
    BY <1>1, <1>2, <1>3, <2>1, <2>2 DEF HeadWas, TypeOK, VaultHead
  <2>4. { r \in RowsOf(c.vault) : c.seq < r.head_seq /\ r.head_seq <= sync[rd].to.seq }
        = { r \in RowsOf(c.vault)' : c.seq < r.head_seq /\ r.head_seq <= sync[rd].to.seq }
    <3>1. sync[rd].to.seq <= head[c.vault].seq /\ head[c.vault].seq \in Nat
      BY <1>3, <2>1, <2>2 DEF HeadWas
    <3>2. \A r \in RowsOf(c.vault)' : r.head_seq <= sync[rd].to.seq => r \in RowsOf(c.vault)
      BY <1>2, <1>3, <2>1, <3>1
    <3>3. RowsOf(c.vault) \subseteq RowsOf(c.vault)'
      BY <1>2, <1>3, <2>1
    <3> QED
      BY <3>2, <3>3
  <2>5. ReplyIsSegment(rd)'
    BY <1>2, <1>3, <2>1, <2>2, <2>4 DEF ReplyIsSegment
  <2> QED
    BY <1>2, <1>6, <2>3, <2>5 DEF SyncTrails
<1> QED
  BY <1>5, <1>6 DEF TypeOK, SyncState

LEMMA TrailsUnchanged ==
  ASSUME UNCHANGED tables, NEW rd \in Readers, SyncTrails(rd), sync'[rd] = sync[rd]
  PROVE  SyncTrails(rd)'
  BY DEF SyncTrails, HeadWas, HashIs, RowsOf, ReplyIsSegment, tables

(* A sync handler reads on in a vault whose chain is whole. *)
LEMMA ReadTrails ==
  ASSUME TypeOK, NEW rd \in Readers, Read(rd), sync'[rd].phase # "idle",
         ChainOf(sync'[rd].from.vault),
         sync[rd].phase # "idle" /\ sync[rd].from.vault = sync'[rd].from.vault => SyncTrails(rd)
  PROVE  SyncTrails(rd)'
<1> USE ServerAssumption
<1>1. UNCHANGED tables
  BY DEF Read, LoadVaultHead, SyncCursorMatches, SyncConflict, ReadRows
<1>2. ASSUME NEW c \in Cursors, LoadVaultHead(rd, c) PROVE SyncTrails(rd)'
  <2>1. sync'[rd] = [phase |-> "check_cursor", from |-> c, head |-> head[c.vault]]
    BY <1>2 DEF LoadVaultHead, TypeOK
  <2>2. c.vault \in Vaults /\ ChainOf(c.vault)
    BY <2>1 DEF Cursor
  <2>3. HeadWas(c.vault, head[c.vault])'
    BY <1>1, <2>1, <2>2, HeadIs DEF HeadWas, HashIs, RowsOf, tables
  <2> QED
    BY <1>1, <2>1, <2>3 DEF SyncTrails, HeadWas, HashIs, RowsOf, tables
<1>3. CASE SyncCursorMatches(rd)
  <2>1. PICK c, vault : c = sync[rd].from /\ vault = sync[rd].head
    OBVIOUS
  <2>2. sync[rd].phase = "check_cursor" /\ CursorMatches(c, vault)
    BY <1>3, <2>1 DEF SyncCursorMatches
  <2>3. sync'[rd].phase = "read_rows" /\ sync'[rd].from = c /\ sync'[rd].head = vault
    BY <1>3, <2>1 DEF SyncCursorMatches, TypeOK, SyncState
  <2>4. HeadWas(c.vault, vault)
    BY <2>1, <2>2, <2>3 DEF SyncTrails
  <2>5. c.seq <= vault.seq /\ HashIs(c.vault, c.seq, c.hash)
    BY <2>2, <2>4 DEF CursorMatches, HeadWas, HashIs, RowsOf
  <2> QED
    BY <1>1, <2>3, <2>4, <2>5 DEF SyncTrails, HeadWas, HashIs, RowsOf, tables
<1>4. CASE SyncConflict(rd)
  BY <1>4 DEF SyncConflict, TypeOK
<1>5. CASE ReadRows(rd)
  <2>1. sync[rd].phase # "idle" /\ sync'[rd].from = sync[rd].from
    BY <1>5 DEF ReadRows, TypeOK
  <2> QED
    BY <1>5, <2>1, ReadRowsSegment
<1> QED
  BY <1>2, <1>3, <1>4, <1>5 DEF Read

(* Of the steps of a write handler, only its commit changes the tables. *)
LEMMA OnlyCommitWrites ==
  ASSUME NEW h \in Handlers, Begin(h) \/ Continue(h) \/ Rollback(h), ~Commit(h)
  PROVE  UNCHANGED <<tables, sync>>
<1>1. CASE Begin(h)
  BY <1>1 DEF tables, Begin, VaultNotFound, CreateConflict, LockForCreate, LockForRevision,
              Proceed, Answer
<1>2. CASE Continue(h)
  BY <1>2 DEF tables, Continue, InsertItemRow, ItemIdTaken, ItemNotFound, RevisionConflict,
              LockItem, InsertRevisionRow, RevisionIdTaken, Proceed, Answer
<1>3. CASE Rollback(h)
  BY <1>3 DEF tables, Rollback, Answer
<1> QED
  BY <1>1, <1>2, <1>3

LEMMA SyncKept ==
  ASSUME NEW live \in SUBSET Vaults, InvIn(live), SyncIn(live),
         \/ \E h \in Handlers : Begin(h) \/ Continue(h) \/ Rollback(h)
         \/ \E r \in Readers : Read(r)
  PROVE  SyncIn(live)'
<1>1. CASE UNCHANGED <<tables, sync>>
  BY <1>1, TrailsUnchanged DEF SyncIn
<1>2. ASSUME NEW h \in Handlers, Commit(h) PROVE SyncIn(live)'
  <2>1. UNCHANGED sync
    BY <1>2 DEF Commit, Answer
  <2>2. TypeOK /\ SnapshotsStayTrue
    BY DEF InvIn
  <2>3. \A rd \in Readers : SyncTrails(rd) /\ sync[rd].phase # "idle" => SyncTrails(rd)'
    BY <1>2, <2>2, CommitKeepsReads
  <2> QED
    BY <2>1, <2>3 DEF SyncIn
<1>3. CASE \E h \in Handlers : Begin(h) \/ Continue(h) \/ Rollback(h)
  BY <1>1, <1>2, <1>3, OnlyCommitWrites
<1>4. ASSUME NEW r \in Readers, Read(r) PROVE SyncIn(live)'
  <2>1. /\ UNCHANGED tables
        /\ \A o \in Readers \ {r} : sync'[o] = sync[o]
    BY <1>4 DEF Read, LoadVaultHead, SyncCursorMatches, SyncConflict, ReadRows, InvIn, TypeOK
  <2>2. ASSUME sync'[r].phase # "idle", sync'[r].from.vault \in live PROVE SyncTrails(r)'
    BY <1>4, <2>2, ReadTrails DEF SyncIn, InvIn, ChainsIn
  <2> QED
    BY <2>1, <2>2, TrailsUnchanged DEF SyncIn
<1> QED
  BY <1>3, <1>4

LEMMA SyncStep == IInv /\ SyncIn(Vaults) /\ [Next]_vars => SyncIn(Vaults)'
<1> SUFFICES ASSUME IInv, SyncIn(Vaults), [Next]_vars PROVE SyncIn(Vaults)'
  OBVIOUS
<1>1. CASE Next
  BY <1>1, SyncKept, AllVaults DEF Next
<1>2. CASE UNCHANGED vars
  BY <1>2, TrailsUnchanged DEF SyncIn, vars, tables
<1> QED
  BY <1>1, <1>2

(* Every sync reply is a segment of its vault's chain, of any length and
   under any number of writers that commit between its reads. *)
THEOREM SyncSafe == Spec => []SyncReplyIsSegment
<1>1. Init => SyncIn(Vaults)
  BY DEF Init, SyncIn
<1>2. IInv /\ SyncIn(Vaults) => SyncReplyIsSegment
  <2>1. ASSUME TypeOK, NEW rd \in Readers, sync[rd].phase = "replied"
        PROVE  sync[rd].from.vault \in Vaults
    BY <2>1, ServerAssumption DEF TypeOK, SyncState, Cursor
  <2> QED
    BY <2>1 DEF IInv, SyncIn, SyncTrails, SyncReplyIsSegment
<1> QED
  BY <1>1, <1>2, SyncStep, Invariance, PTL DEF Spec

-----------------------------------------------------------------------------
(***************************************************************************)
(* The tables implement the append-only log of VaultLog.                   *)
(***************************************************************************)
LogFacts ==
  \A v \in Vaults :
    /\ LogOf(v) \in Seq(Log!Entry)
    /\ Len(LogOf(v)) = head[v].seq
    /\ \A r \in RowsOf(v) : LogOf(v)[r.head_seq] = EntryOf(r)
    /\ \A n \in 1..head[v].seq :
         \E r \in RowsOf(v) : r.head_seq = n /\ LogOf(v)[n] = EntryOf(r)

(* The rows of a vault, in the order of head_seq, are its log. *)
LEMMA LogOfRows == IInv => LogFacts
<1> SUFFICES ASSUME IInv, NEW v \in Vaults
             PROVE  /\ LogOf(v) \in Seq(Log!Entry)
                    /\ Len(LogOf(v)) = head[v].seq
                    /\ \A r \in RowsOf(v) : LogOf(v)[r.head_seq] = EntryOf(r)
                    /\ \A n \in 1..head[v].seq :
                         \E r \in RowsOf(v) : r.head_seq = n /\ LogOf(v)[n] = EntryOf(r)
  BY DEF LogFacts
<1> DEFINE at(n) == CHOOSE r \in RowsOf(v) : r.head_seq = n
<1>1. ChainOf(v) /\ head[v].seq \in Nat /\ RowsOf(v) \subseteq Revision
  BY DEF IInv, TypeOK, VaultHead, ChainIntact, RowsOf
<1>2. \A n \in 1..head[v].seq : at(n) \in RowsOf(v) /\ at(n).head_seq = n
  BY <1>1 DEF ChainOf
<1>3. \A r \in RowsOf(v) : r.head_seq \in 1..head[v].seq /\ at(r.head_seq) = r
  BY <1>1, <1>2 DEF ChainOf
<1>4. LogOf(v) = [n \in 1..head[v].seq |-> EntryOf(at(n))]
  BY DEF LogOf
<1>5. \A r \in Revision : EntryOf(r) \in Log!Entry
  BY DEF Revision, EntryOf, Log!Entry, Ops
<1> HIDE DEF at
<1>6. LogOf(v) \in [1..head[v].seq -> Log!Entry]
  BY <1>1, <1>2, <1>4, <1>5
<1>7. LogOf(v) \in Seq(Log!Entry) /\ Len(LogOf(v)) = head[v].seq
  BY <1>1, <1>6
<1> QED
  BY <1>2, <1>3, <1>4, <1>7

LEMMA LogInit == Init => Log!Init
<1> SUFFICES ASSUME Init PROVE \A v \in Vaults : LogOf(v) = << >>
  BY DEF Log!Init, logs
<1> SUFFICES ASSUME NEW v \in Vaults PROVE LogOf(v) = << >>
  OBVIOUS
<1>1. head[v].seq = 0
  BY DEF Init
<1>2. LogOf(v) = [n \in 1..0 |-> EntryOf(CHOOSE r \in RowsOf(v) : r.head_seq = n)]
  BY <1>1 DEF LogOf
<1> QED
  BY <1>2

LEMMA LogOfRowsNext == IInv' => LogFacts'
  BY LogOfRows, PTL

(* A commit appends the committed row to the log of its vault. *)
LEMMA CommitAppends ==
  ASSUME IInv, IInv', NEW h \in Handlers, Commit(h)
  PROVE  Log!Next
<1> USE ServerAssumption
<1>1. PICK row \in Revision :
         /\ row.head_seq = head[row.vault].seq + 1
         /\ row.previous_head_hash = head[row.vault].hash
         /\ row.op = "create" => items[row.item].vault = None
         /\ row.op # "create" =>
              /\ items[row.item].vault = row.vault
              /\ items[row.item].deleted = FALSE
         /\ \A r \in revisions : r.id # row.id
         /\ revisions' = revisions \cup {row}
         /\ \A v \in Vaults : head'[v] = IF v = row.vault
                                        THEN [seq |-> row.head_seq, hash |-> row.head_hash]
                                        ELSE head[v]
  <2>1. \E row \in Revision : CommitsRow(h, row)
    BY CommitRow DEF IInv
  <2> QED
    BY <2>1 DEF CommitsRow
<1> DEFINE v == row.vault
           e == EntryOf(row)
<1>2. /\ v \in Vaults /\ row.item \in Items /\ row.id \in RevIds
      /\ row.op \in {"create", "update", "delete"} /\ row.head_hash \in Hashes
      /\ e = [id |-> row.id, item |-> row.item, op |-> row.op,
             previous_head_hash |-> row.previous_head_hash, head_hash |-> row.head_hash]
      /\ e \in Log!Entry
  BY DEF Revision, EntryOf, Ops, Log!Entry
<1>3. LogFacts /\ LogFacts'
  BY LogOfRows, LogOfRowsNext
<1>4. ChainOf(v) /\ ChainOf(v)' /\ head[v].seq \in Nat /\ HistoryOf(row.item)
  BY <1>2 DEF IInv, TypeOK, VaultHead, ChainIntact, ItemHistories
<1>5. ASSUME NEW w \in Vaults, NEW n \in 1..Len(LogOf(w))
      PROVE  \E r \in revisions : /\ LogOf(w)[n].id = r.id
                                   /\ LogOf(w)[n].item = r.item
                                   /\ LogOf(w)[n].op = r.op
  <2>1. n \in 1..head[w].seq
    BY <1>3 DEF LogFacts
  <2>2. PICK r \in RowsOf(w) : LogOf(w)[n] = EntryOf(r)
    BY <1>3, <2>1 DEF LogFacts
  <2> QED
    BY <2>2 DEF EntryOf, RowsOf
<1>6. ASSUME NEW w \in Vaults, w # v PROVE LogOf(w)' = LogOf(w)
  <2>1. RowsOf(w)' = RowsOf(w) /\ head'[w] = head[w]
    BY <1>1, <1>6 DEF RowsOf
  <2> QED
    BY <2>1 DEF LogOf, EntryOf
<1>7. LogOf(v)' = Append(LogOf(v), e) /\ Len(LogOf(v)') = Len(LogOf(v)) + 1
  <2>1. /\ head'[v].seq = head[v].seq + 1
        /\ RowsOf(v)' = RowsOf(v) \cup {row}
    BY <1>1, <1>2 DEF RowsOf
  <2>2. /\ LogOf(v) \in Seq(Log!Entry) /\ Len(LogOf(v)) = head[v].seq
        /\ LogOf(v)' \in Seq(Log!Entry) /\ Len(LogOf(v)') = head[v].seq + 1
    BY <1>2, <1>3, <2>1 DEF LogFacts, Log!Entry
  <2>3. ASSUME NEW n \in 1..(head[v].seq + 1)
        PROVE  LogOf(v)'[n] = Append(LogOf(v), e)[n]
    <3>1. PICK r \in RowsOf(v)' : r.head_seq = n /\ LogOf(v)'[n] = EntryOf(r)
      <4>1. n \in 1..head'[v].seq
        BY <2>1
      <4> QED
        BY <1>2, <1>3, <4>1 DEF LogFacts, EntryOf
    <3>2. CASE r = row
      BY <1>1, <1>2, <1>4, <2>2, <3>1, <3>2
    <3>3. CASE r \in RowsOf(v)
      <4>1. r.head_seq \in 1..head[v].seq /\ LogOf(v)[n] = EntryOf(r)
        BY <1>2, <1>3, <1>4, <3>1, <3>3 DEF LogFacts, ChainOf
      <4> QED
        BY <1>2, <1>4, <2>2, <3>1, <4>1
    <3> QED
      BY <2>1, <3>2, <3>3
  <2>4. Append(LogOf(v), e) \in Seq(Log!Entry) /\ Len(Append(LogOf(v), e)) = head[v].seq + 1
    BY <1>2, <1>4, <2>2
  <2> QED
    BY <1>4, <2>2, <2>3, <2>4, SeqEqual
<1>8. e.previous_head_hash = (IF Len(LogOf(v)) = 0 THEN Genesis[v]
                              ELSE LogOf(v)[Len(LogOf(v))].head_hash)
  <2>1. Len(LogOf(v)) = head[v].seq /\ e.previous_head_hash = head[v].hash
    BY <1>1, <1>2, <1>3 DEF LogFacts
  <2>2. CASE head[v].seq = 0
    BY <1>4, <2>1, <2>2 DEF ChainOf
  <2>3. CASE head[v].seq # 0
    <3>1. head[v].seq \in 1..head[v].seq
      BY <1>4, <2>3
    <3>2. PICK r \in RowsOf(v) : r.head_seq = head[v].seq /\ LogOf(v)[head[v].seq] = EntryOf(r)
      BY <1>2, <1>3, <3>1 DEF LogFacts
    <3>3. r.head_hash = head[v].hash
      BY <1>4, <3>2 DEF ChainOf
    <3> QED
      BY <2>1, <2>3, <3>2, <3>3 DEF EntryOf
  <2> QED
    BY <2>2, <2>3
<1>9. \A w \in Vaults : \A n \in 1..Len(LogOf(w)) : LogOf(w)[n].id # e.id
  BY <1>1, <1>2, <1>5 DEF EntryOf
<1>10. e.op = "create" => \A w \in Vaults : \A n \in 1..Len(LogOf(w)) : LogOf(w)[n].item # e.item
  BY <1>1, <1>2, <1>4, <1>5 DEF EntryOf, HistoryOf
<1>11. ASSUME e.op # "create"
       PROVE  /\ \E n \in 1..Len(LogOf(v)) : LogOf(v)[n].item = e.item
              /\ \A n \in 1..Len(LogOf(v)) : LogOf(v)[n].item = e.item => LogOf(v)[n].op # "delete"
  <2>1. items[row.item].vault = v /\ items[row.item].deleted = FALSE /\ v # None
    BY <1>1, <1>2, <1>11
  <2>2. \A r \in revisions : r.item = row.item => r.vault = v /\ r.op # "delete"
    BY <1>4, <2>1 DEF HistoryOf
  <2>3. PICK r \in RowsOf(v) : r.item = row.item
    BY <1>4, <2>1, <2>2 DEF HistoryOf, RowsOf
  <2>4. r.head_seq \in 1..Len(LogOf(v)) /\ LogOf(v)[r.head_seq] = EntryOf(r)
    BY <1>2, <1>3, <1>4, <2>3 DEF LogFacts, ChainOf
  <2>5. \E n \in 1..Len(LogOf(v)) : LogOf(v)[n].item = e.item
    BY <1>2, <2>3, <2>4 DEF EntryOf
  <2>6. \A n \in 1..Len(LogOf(v)) : LogOf(v)[n].item = e.item => LogOf(v)[n].op # "delete"
    BY <1>2, <1>5, <2>2 DEF EntryOf
  <2> QED
    BY <2>5, <2>6
<1>12. logs' = [logs EXCEPT ![v] = Append(@, e)]
  BY <1>2, <1>6, <1>7 DEF logs
<1>15. Log!Grows(v)
  BY <1>2, <1>7, <1>12 DEF Log!Grows, logs
<1>13. Log!Extend(v, e)
  <2>1. e.previous_head_hash = Log!HeadHash(v)
    BY <1>2, <1>8 DEF Log!HeadHash, logs
  <2>2. ~Log!IdUsed(e.id)
    BY <1>9 DEF Log!IdUsed, logs
  <2>3. Log!Introduces(e) \/ Log!Continues(v, e)
    BY <1>2, <1>10, <1>11 DEF Log!Introduces, Log!Continues, logs
  <2> QED
    BY <1>12, <2>1, <2>2, <2>3 DEF Log!Extend
<1>14. e = [id |-> row.id, item |-> row.item, op |-> row.op,
            previous_head_hash |-> Log!HeadHash(v), head_hash |-> row.head_hash]
  BY <1>2, <1>8 DEF Log!HeadHash, logs
<1> QED
  BY <1>2, <1>13, <1>14, <1>15 DEF Log!Next

LEMMA LogStep == IInv /\ IInv' /\ [Next]_vars => [Log!Next]_logs
<1> SUFFICES ASSUME IInv, IInv', [Next]_vars
             PROVE  Log!Next \/ logs' = logs
  OBVIOUS
<1>1. ASSUME NEW h \in Handlers, Commit(h) PROVE Log!Next
  BY <1>1, CommitAppends
<1>2. ASSUME UNCHANGED tables
      PROVE  logs' = logs
  BY <1>2 DEF tables, logs, LogOf, RowsOf, EntryOf
<1>3. CASE UNCHANGED tables
  BY <1>2, <1>3
<1>4. CASE ~UNCHANGED tables
  <2>1. \E h \in Handlers : Commit(h)
    BY <1>4 DEF Next, vars, tables, Begin, Continue, Read, VaultNotFound, CreateConflict,
                LockForCreate, LockForRevision, InsertItemRow, ItemIdTaken, ItemNotFound,
                RevisionConflict, LockItem, InsertRevisionRow, RevisionIdTaken, Rollback,
                LoadVaultHead, SyncCursorMatches, SyncConflict, ReadRows, Proceed
  <2> QED
    BY <1>1, <2>1
<1> QED
  BY <1>3, <1>4

(* The committed tables implement the append-only log of VaultLog: the API
   never loses, reorders or rewrites a change, for any number of handlers. *)
THEOREM Refinement == Spec => ImplementsVaultLog
<1>1. Init => Log!Init
  BY LogInit
<1>2. IInv /\ IInv' /\ [Next]_vars => [Log!Next]_logs
  BY LogStep
<1> QED
  BY <1>1, <1>2, Invariance, PTL DEF Spec, ImplementsVaultLog, Log!Spec

=============================================================================
