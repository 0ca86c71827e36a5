---------------------------- MODULE VaultErasure ----------------------------
(***************************************************************************)
(* The vault handlers of VaultServer while the clean-up of synthetic       *)
(* accounts (cleanup_synthetic_accounts of crates/api/src/maintenance.rs)  *)
(* deletes accounts under them.  The clean-up is one DELETE on accounts;   *)
(* PostgreSQL locks the account rows and then cascades, vault by vault, to *)
(* the vaults, their items and their revisions.  Two waits join it to the  *)
(* writers: the cascade waits for a vaults row that a writer has locked,   *)
(* and a writer that inserts its audit event waits for the accounts row    *)
(* its foreign key names.  The two together are a deadlock, which          *)
(* PostgreSQL ends by failing one of the statements in it.                 *)
(***************************************************************************)
EXTENDS VaultServer

CONSTANT Synthetic   \* accounts whose handle matches and that are old enough

ASSUME ErasureAssumption == Synthetic \subseteq Accounts

VARIABLES
  erased,    \* accounts a clean-up has deleted
  cleaner    \* the running DELETE: account rows it holds, vaults it has taken

erasureVars == <<vars, erased, cleaner>>

NoCleaner == [accounts |-> {}, vaults |-> {}]

ErasureInit == Init /\ erased = {} /\ cleaner = NoCleaner

Kept(v) == Owner[v] \notin erased

VaultsOf(accounts) == { v \in Vaults : Owner[v] \in accounts }

-----------------------------------------------------------------------------
(***************************************************************************)
(* The clean-up.                                                           *)
(***************************************************************************)

\* DELETE FROM accounts: any of the candidates, as the LIMIT has it.
StartErase ==
  /\ cleaner = NoCleaner
  /\ \E chosen \in SUBSET (Synthetic \ erased) \ {{}} :
       cleaner' = [accounts |-> chosen, vaults |-> {}]
  /\ UNCHANGED <<vars, erased>>

\* Slip: vaults deleted without waiting for the writers' row locks.
TakeVaultUnderWriter(v) ==
  /\ v \in VaultsOf(cleaner.accounts) \ cleaner.vaults
  /\ cleaner' = [cleaner EXCEPT !.vaults = @ \cup {v}]
  /\ UNCHANGED <<vars, erased>>

\* The cascade reaches a vault: it deletes the row, its items and its
\* revisions, which others see until the clean-up commits.
TakeVault(v) ==
  /\ v \in VaultsOf(cleaner.accounts) \ cleaner.vaults
  /\ lock[v] = None
  /\ cleaner' = [cleaner EXCEPT !.vaults = @ \cup {v}]
  /\ UNCHANGED <<vars, erased>>

\* The DELETE commits: all of the chosen accounts, with everything in their vaults.
CommitErase ==
  /\ cleaner # NoCleaner
  /\ cleaner.vaults = VaultsOf(cleaner.accounts)
  /\ erased' = erased \cup cleaner.accounts
  /\ items' = [i \in Items |-> IF items[i].vault \in cleaner.vaults THEN NoItem ELSE items[i]]
  /\ revisions' = { r \in revisions : r.vault \notin cleaner.vaults }
  /\ cleaner' = NoCleaner
  /\ UNCHANGED <<head, lock, tx, sync>>

\* Slip: the vaults taken so far stay deleted, as separate DELETEs would have it.
EraseFailsHalfway ==
  /\ cleaner # NoCleaner
  /\ items' = [i \in Items |-> IF items[i].vault \in cleaner.vaults THEN NoItem ELSE items[i]]
  /\ revisions' = { r \in revisions : r.vault \notin cleaner.vaults }
  /\ cleaner' = NoCleaner
  /\ UNCHANGED <<head, lock, tx, sync, erased>>

\* The statement fails or the process ends: SyntheticCleanupError::Database.
EraseFails ==
  /\ cleaner # NoCleaner
  /\ cleaner' = NoCleaner
  /\ UNCHANGED <<vars, erased>>

-----------------------------------------------------------------------------
(***************************************************************************)
(* The handlers beside it.                                                 *)
(***************************************************************************)

\* lock_vault_head waits for a vaults row the clean-up has deleted, uncommitted.
BeginWrite(h) ==
  \E s \in Submissions :
    \/ VaultNotFound(h, s)
    \/ /\ Kept(s.vault) /\ s.vault \notin cleaner.vaults
       /\ CreateConflict(h, s) \/ LockForCreate(h, s) \/ LockForRevision(h, s)

\* The row is gone, perhaps while the handler waited for it.
ErasedNotFound(h, s) ==
  /\ Starts(h, s)
  /\ ~Kept(s.vault)
  /\ Answer(h, "not_found", None)
  /\ UNCHANGED tables

\* The key that handler h is about to insert belongs to a row whose deletion is
\* not committed: the INSERT waits for the clean-up.
WaitsForKey(h) ==
  \/ tx[h].phase = "insert_item" /\ items[tx[h].sub.item].vault \in cleaner.vaults
  \/ /\ tx[h].phase = "insert_revision"
     /\ \E r \in revisions : r.id = tx[h].sub.id /\ r.vault \in cleaner.vaults

\* insert_audit_event: its foreign key needs the accounts row.
WaitsForAccount(h) == tx[h].phase = "commit" /\ tx[h].sub.account \in cleaner.accounts

ContinueWrite(h) ==
  /\ ~WaitsForKey(h)
  /\ ~WaitsForAccount(h)
  /\ Continue(h)

\* load_vault_head finds no row any more.
LoadErasedVault(r, c) ==
  /\ sync[r].phase \in {"idle", "replied"}
  /\ ~Kept(c.vault)
  /\ sync' = [sync EXCEPT ![r] = [phase |-> "idle"]]
  /\ UNCHANGED <<tables, lock, tx>>

\* load_vault_head sees the row until the clean-up commits.
ReadVault(r) ==
  \/ \E c \in Cursors : Kept(c.vault) /\ LoadVaultHead(r, c)
  \/ \E c \in Cursors : LoadErasedVault(r, c)
  \/ SyncCursorMatches(r)
  \/ SyncConflict(r)
  \/ ReadRows(r)

-----------------------------------------------------------------------------
HandlerWaitsFor(h, o) ==
  \/ tx[h].phase = "insert_item" /\ h # o /\ ItemInsertPending(h, tx[h].sub.item)
       /\ tx[o].phase \in {"insert_revision", "commit"} /\ tx[o].sub.item = tx[h].sub.item
  \/ tx[h].phase = "insert_revision" /\ h # o
       /\ tx[o].phase = "commit" /\ tx[o].sub.id = tx[h].sub.id

CleanerWaitsFor(h) == \E v \in VaultsOf(cleaner.accounts) \ cleaner.vaults : lock[v] = h

WaitsForCleaner(h) == WaitsForKey(h) \/ WaitsForAccount(h)

\* The clean-up waits for one of these writers, and each of them for another
\* one or for the clean-up.
Stuck(writers) ==
  /\ \E h \in writers : CleanerWaitsFor(h)
  /\ \A h \in writers :
       WaitsForCleaner(h) \/ \E o \in writers : HandlerWaitsFor(h, o)

\* Nobody in the circle is left out, and nobody else is in it.
Circle(writers) ==
  Stuck(writers) /\ \A fewer \in SUBSET writers : Stuck(fewer) => fewer = writers

\* PostgreSQL's deadlock check fails one of those in the circle.
BreakDeadlock ==
  \E writers \in SUBSET Handlers :
    /\ Circle(writers)
    /\ \/ EraseFails
       \/ \E h \in writers : Rollback(h) /\ UNCHANGED <<erased, cleaner>>

Erase == StartErase \/ (\E v \in Vaults : TakeVault(v)) \/ CommitErase \/ EraseFails

Serve ==
  /\ \/ \E h \in Handlers :
          \/ BeginWrite(h) \/ ContinueWrite(h) \/ Rollback(h)
          \/ \E s \in Submissions : ErasedNotFound(h, s)
     \/ \E r \in Readers : ReadVault(r)
  /\ UNCHANGED <<erased, cleaner>>

ErasureNext == Serve \/ Erase

ErasureSpec == ErasureInit /\ [][ErasureNext]_erasureVars

(* PostgreSQL runs the statements of open transactions, queues those that wait
   for a row, so that later comers do not pass them over forever, and breaks
   deadlocks after deadlock_timeout.  Clients and operators owe nothing.    *)
ErasureFairness ==
  /\ \A h \in Handlers : SF_erasureVars(ContinueWrite(h) /\ UNCHANGED <<erased, cleaner>>)
  /\ \A v \in Vaults : SF_erasureVars(TakeVault(v))
  /\ WF_erasureVars(CommitErase)
  /\ WF_erasureVars(BreakDeadlock)

ErasureFairSpec == ErasureSpec /\ ErasureFairness

-----------------------------------------------------------------------------
(***************************************************************************)
(* Properties.                                                             *)
(***************************************************************************)

(* An account is deleted with everything in its vault, for good: no writer
   that was under way when the clean-up came commits an item or a revision
   into a vault whose row is gone, nor answers 201 for one that is being
   taken away.                                                              *)
NothingOfErased ==
  /\ \A r \in revisions : Kept(r.vault)
  /\ \A i \in Items : items[i].vault # None => Kept(items[i].vault)
  /\ \A h \in Handlers :
       tx[h].phase \in Open =>
         Kept(tx[h].sub.vault) /\ tx[h].sub.vault \notin cleaner.vaults

(* A clean-up takes all of an account or nothing of it: vaults of accounts
   that are still there keep an unbroken chain, whole item histories and
   every acknowledged change, whatever a clean-up that failed half-way or
   lost a deadlock had already deleted.  An item id is in one vault at most,
   and free again when that vault is gone.                                  *)
KeptVaultsWhole ==
  /\ \A v \in Vaults : Kept(v) => ChainOf(v)
  /\ \A i \in Items : HistoryOf(i)
  /\ \A h \in Handlers :
       tx[h].phase = "created" /\ Kept(tx[h].sub.vault) =>
         \E r \in RowsOf(tx[h].sub.vault) :
           /\ r.id = tx[h].sub.id
           /\ r.head_seq = tx[h].sub.base_head_seq + 1
           /\ r.head_hash = tx[h].sub.new_head_hash

\* What applySyncResponse of the browser can check of a reply by itself.
ReplyVerifies(rd) ==
  LET s == sync[rd] IN
  /\ Cardinality(s.changes) = s.to.seq - s.from.seq
  /\ \A x \in s.changes :
       \/ x.head_seq = s.from.seq + 1 /\ x.previous_head_hash = s.from.hash
       \/ \E y \in s.changes :
            y.head_seq = x.head_seq - 1 /\ y.head_hash = x.previous_head_hash
  /\ s.changes = {} => s.to.hash = s.from.hash
  /\ s.changes # {} =>
       \E x \in s.changes : x.head_seq = s.to.seq /\ x.head_hash = s.to.hash

(* A vault that is deleted between the reads of a sync handler never yields a
   reply that looks like a part of its chain and is not: a reply that the client
   cannot verify is empty, with a head its cursor does not lead to.  Vaults that
   stay get segments, as in VaultServer.                                     *)
RepliesTrueOrRefused ==
  \A rd \in Readers :
    sync[rd].phase = "replied" =>
      /\ Kept(sync[rd].from.vault) => ReplyIsSegment(rd)
      /\ ReplyVerifies(rd) \/ sync[rd].changes = {}

(* Writers and clean-ups that wait for one another all end: every open
   transaction is answered and every DELETE commits or fails.               *)
WritersAndCleanUpsEnd ==
  /\ \A h \in Handlers : tx[h].phase \in Open ~> tx[h].phase \in Answered
  /\ cleaner # NoCleaner ~> cleaner = NoCleaner

=============================================================================
