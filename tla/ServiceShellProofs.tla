------------------------- MODULE ServiceShellProofs -------------------------
(***************************************************************************)
(* Proofs about ServiceShell, for any number of requests, connections and  *)
(* restarts.                                                               *)
(*                                                                         *)
(* A step of the process is one of VaultServer, or drops sync handlers,    *)
(* or leaves the server alone, so that the invariants of VaultServerProofs *)
(* carry over.  A killed process leaves its transactions behind, which     *)
(* changes who ends them and nothing they have read.                       *)
(***************************************************************************)
EXTENDS ServiceShell, VaultServerProofs

-----------------------------------------------------------------------------
(***************************************************************************)
(* The inductive invariant.                                                *)
(***************************************************************************)
Places  == {"none", "ask_session", "session", "ask_work", "work"}
Holding == {"session", "work"}

PlacesOK ==
  /\ process \in {"stopped", "starting", "serving", "draining"}
  /\ starts \in 0..MaxStarts
  /\ at \in [Requests -> Places]
  /\ held \in [Requests -> {0, 1}]
  /\ target \in [Requests -> Vaults \cup {None}]

(* A request is one of a process that runs, names a vault, and holds a
   connection exactly while a statement of it may run: one, never two.      *)
RequestOK(x) ==
  /\ at[x] # "none" => process \in {"serving", "draining"} /\ target[x] # None
  /\ held[x] = 1 <=> at[x] \in Holding

(* Before its transaction a write handler is no other's, and after that it
   is in the vault its request names.                                       *)
WriterOK(h) ==
  /\ at[h] \in {"ask_session", "session", "ask_work"} => tx[h].phase \in Answered
  /\ at[h] = "work" /\ tx[h].phase \in Open => tx[h].sub.vault = target[h]

\* A sync handler is between its reads only while its request is under way.
ReaderOK(r) ==
  sync[r].phase \in {"check_cursor", "read_rows"} =>
    at[r] \in {"ask_work", "work"} /\ sync[r].from.vault = target[r]

RequestsOK ==
  /\ PlacesOK
  /\ \A x \in Requests : RequestOK(x)
  /\ \A h \in Handlers : WriterOK(h)
  /\ \A r \in Readers : ReaderOK(r)

ShellInv == IInv /\ SyncIn(Vaults) /\ RequestsOK

-----------------------------------------------------------------------------
(***************************************************************************)
(* What a step of the process does to the vault handlers.                  *)
(***************************************************************************)

\* Sync handlers are dropped; the server goes on as if they had not asked.
Drops ==
  /\ UNCHANGED <<tables, lock, tx>>
  /\ sync' \in [Readers -> {[phase |-> "idle"]} \cup { sync[r] : r \in Readers }]
  /\ \A r \in Readers : sync'[r] = sync[r] \/ sync'[r] = [phase |-> "idle"]

LEMMA DroppedDrops ==
  ASSUME NEW x \in Requests, Dropped(x)
  PROVE  Drops
  BY DEF Dropped, Drops

LEMMA KillDrops == Kill => Drops
  BY DEF Kill, Drops

(* A statement of a write handler is a step of VaultServer, changes no other
   handler, and keeps the transaction in the vault its request names. *)
LEMMA WriteIsStep ==
  ASSUME TypeOK, NEW h \in Handlers, WriteStep(h), WriterOK(h), at[h] = "work"
  PROVE  /\ Begin(h) \/ Continue(h)
         /\ \A o \in Handlers \ {h} : tx'[o] = tx[o]
         /\ UNCHANGED sync
         /\ tx'[h].phase \in Open => tx'[h].sub.vault = target[h]
<1>1. ASSUME NEW s \in Submissions, s.vault = target[h],
             \/ VaultNotFound(h, s) \/ CreateConflict(h, s)
             \/ LockForCreate(h, s) \/ LockForRevision(h, s)
      PROVE  /\ Begin(h)
             /\ \A o \in Handlers \ {h} : tx'[o] = tx[o]
             /\ UNCHANGED sync
             /\ tx'[h].phase \in Open => tx'[h].sub = s
  <2>1. Begin(h)
    BY <1>1 DEF Begin
  <2> QED
    BY <1>1, <2>1 DEF VaultNotFound, CreateConflict, LockForCreate, LockForRevision,
                      Answer, Proceed, TypeOK, Open
<1>2. ASSUME Continue(h)
      PROVE  /\ \A o \in Handlers \ {h} : tx'[o] = tx[o]
             /\ UNCHANGED sync
             /\ tx'[h].phase \in Open => tx[h].phase \in Open /\ tx'[h].sub = tx[h].sub
  <2>1. CASE InsertItemRow(h) \/ LockItem(h) \/ InsertRevisionRow(h)
    BY <2>1 DEF InsertItemRow, LockItem, InsertRevisionRow, Proceed, TypeOK, Open
  <2>2. CASE \/ ItemIdTaken(h) \/ ItemNotFound(h) \/ RevisionConflict(h)
             \/ RevisionIdTaken(h)
    BY <2>2 DEF ItemIdTaken, ItemNotFound, RevisionConflict, RevisionIdTaken,
                Answer, TypeOK, Open
  <2>3. CASE Commit(h)
    BY <2>3 DEF Commit, Answer, TypeOK, Open
  <2> QED
    BY <1>2, <2>1, <2>2, <2>3 DEF Continue
<1>3. CASE \E s \in Submissions :
             /\ s.vault = target[h]
             /\ \/ VaultNotFound(h, s) \/ CreateConflict(h, s)
                \/ LockForCreate(h, s) \/ LockForRevision(h, s)
  BY <1>1, <1>3
<1>4. CASE Continue(h)
  BY <1>2, <1>4 DEF WriterOK
<1> QED
  BY <1>3, <1>4 DEF WriteStep

(* A transaction of a killed process ends as one of VaultServer can. *)
LEMMA EndIsStep ==
  ASSUME TypeOK, NEW h \in Handlers,
         Rollback(h) \/ (Commit(h) /\ tx'[h].phase = "unavailable")
  PROVE  /\ Continue(h) \/ Rollback(h)
         /\ \A o \in Handlers \ {h} : tx'[o] = tx[o]
         /\ UNCHANGED sync
         /\ tx'[h].phase \in Answered /\ tx'[h].phase \notin Open
<1>1. CASE Rollback(h)
  BY <1>1 DEF Rollback, Answer, TypeOK, Answered, Open
<1>2. CASE Commit(h) /\ tx'[h].phase = "unavailable"
  BY <1>2 DEF Continue, Commit, Answer, TypeOK, Answered, Open
<1> QED
  BY <1>1, <1>2

(* A read of a sync handler is a step of VaultServer or drops the handler,
   and goes on reading the vault its request names. *)
LEMMA ReadIsStep ==
  ASSUME TypeOK, NEW r \in Readers, ReadStep(r), ReaderOK(r)
  PROVE  /\ Read(r) \/ Drops
         /\ UNCHANGED <<tables, lock, tx>>
         /\ \A o \in Readers \ {r} : sync'[o] = sync[o]
         /\ sync'[r].phase \in {"check_cursor", "read_rows"} =>
              sync'[r].from.vault = target[r]
<1>1. ASSUME NEW c \in Cursors, c.vault = target[r], LoadVaultHead(r, c)
      PROVE  /\ Read(r) /\ sync' = [sync EXCEPT ![r] = sync'[r]]
             /\ UNCHANGED <<tables, lock, tx>>
             /\ sync'[r].from.vault = target[r]
  <2>1. Read(r)
    BY <1>1 DEF Read
  <2> QED
    BY <1>1, <2>1 DEF LoadVaultHead, TypeOK
<1>2. CASE Dropped(r)
  <2>1. Drops
    BY <1>2, DroppedDrops DEF Requests
  <2> QED
    BY <1>2, <2>1 DEF Dropped
<1>3. CASE SyncCursorMatches(r)
  BY <1>3 DEF Read, SyncCursorMatches, TypeOK, SyncState, ReaderOK
<1>4. CASE SyncConflict(r)
  BY <1>4 DEF Read, SyncConflict, TypeOK
<1>5. CASE ReadRows(r)
  <2>1. Read(r) /\ UNCHANGED <<tables, lock, tx>>
    BY <1>5 DEF Read, ReadRows
  <2>2. PICK to, changes, has_more :
          sync' = [sync EXCEPT ![r] =
                     [phase |-> "replied", from |-> sync[r].from, head |-> sync[r].head,
                      to |-> to, changes |-> changes, has_more |-> has_more]]
    BY <1>5, ReadRowsReply
  <2> QED
    BY <2>1, <2>2 DEF TypeOK
<1>6. CASE \E c \in Cursors :
             /\ c.vault = target[r]
             /\ \/ LoadVaultHead(r, c)
                \/ /\ sync[r].phase \in {"idle", "replied"} /\ Owner[c.vault] # c.account
                   /\ Dropped(r)
  <2>1. PICK c \in Cursors :
          /\ c.vault = target[r]
          /\ LoadVaultHead(r, c) \/ Dropped(r)
    BY <1>6
  <2>2. CASE LoadVaultHead(r, c)
    <3>1. \A o \in Readers \ {r} : sync'[o] = sync[o]
      BY <2>2 DEF LoadVaultHead, TypeOK
    <3> QED
      BY <1>1, <2>1, <2>2, <3>1
  <2> QED
    BY <1>2, <2>1, <2>2
<1> QED
  BY <1>3, <1>4, <1>5, <1>6 DEF ReadStep

-----------------------------------------------------------------------------
(***************************************************************************)
(* The invariants of the server hold across starts, kills and restarts.    *)
(***************************************************************************)
ServerMoves == [Next]_vars \/ Drops

LEMMA ShellMovesServer ==
  RequestsOK /\ TypeOK /\ [ShellNext]_allVars => ServerMoves
<1> SUFFICES ASSUME RequestsOK, TypeOK, [ShellNext]_allVars PROVE ServerMoves
  OBVIOUS
<1>1. CASE UNCHANGED vars
  BY <1>1 DEF ServerMoves
<1>2. CASE Kill
  BY <1>2, KillDrops DEF ServerMoves
<1>3. ASSUME NEW h \in Handlers, WriteStep(h) PROVE ServerMoves
  <2>1. Begin(h) \/ Continue(h)
    BY <1>3, WriteIsStep DEF RequestsOK, WriteStep
  <2> QED
    BY <2>1 DEF ServerMoves, Next
<1>4. ASSUME NEW h \in Handlers, OrphanEnds(h) PROVE ServerMoves
  <2>1. Continue(h) \/ Rollback(h)
    BY <1>4, EndIsStep DEF OrphanEnds
  <2> QED
    BY <2>1 DEF ServerMoves, Next
<1>5. ASSUME NEW r \in Readers, ReadStep(r) PROVE ServerMoves
  <2>1. Read(r) \/ Drops
    BY <1>5, ReadIsStep DEF RequestsOK
  <2> QED
    BY <2>1 DEF ServerMoves, Next
<1>6. ASSUME NEW x \in Requests, Accept(x) \/ Acquire(x) \/ CheckSession(x)
      PROVE  UNCHANGED vars
  BY <1>6 DEF Accept, Acquire, CheckSession
<1>7. ASSUME NEW x \in Requests, AcquireTimesOut(x) PROVE ServerMoves
  BY <1>7, DroppedDrops DEF AcquireTimesOut, ServerMoves
<1>8. ASSUME NEW x \in Requests, Abandon(x) PROVE ServerMoves
  <2>1. CASE x \in Handlers /\ tx[x].phase \in Open
    BY <1>8, <2>1 DEF Abandon, ServerMoves, Next
  <2>2. CASE ~(x \in Handlers /\ tx[x].phase \in Open)
    BY <1>8, <2>2, DroppedDrops DEF Abandon, ServerMoves
  <2> QED
    BY <2>1, <2>2
<1>9. CASE Start \/ Serve \/ StartFails \/ Shutdown \/ Exit
  BY <1>1, <1>9 DEF Start, Serve, StartFails, Shutdown, Exit
<1>10. CASE UNCHANGED allVars
  BY <1>1, <1>10 DEF allVars
<1>11. ASSUME NEW x \in Requests, Accept(x) \/ Advance(x) \/ Abandon(x) PROVE ServerMoves
  BY <1>1, <1>4, <1>5, <1>6, <1>7, <1>8, <1>11 DEF Advance
<1> QED
  BY <1>2, <1>3, <1>9, <1>10, <1>11 DEF ShellNext

LEMMA DropsKeepInv == IInv /\ SyncIn(Vaults) /\ Drops => IInv' /\ SyncIn(Vaults)'
<1> SUFFICES ASSUME IInv, SyncIn(Vaults), Drops PROVE IInv' /\ SyncIn(Vaults)'
  OBVIOUS
<1>1. TypeOK'
  <2>1. sync' \in [Readers -> SyncState]
    BY DEF Drops, IInv, TypeOK, SyncState
  <2>2. UNCHANGED <<head, items, revisions, lock, tx>>
    BY DEF Drops, tables
  <2> QED
    BY <2>1, <2>2 DEF IInv, TypeOK
<1>2. SnapshotsStayTrue' /\ ChainsIn(Vaults)' /\ ItemHistories' /\ CreatedIn(Vaults)'
  BY ReadKeepsInv, AllVaults DEF Drops
<1>3. InvIn(Vaults)' => IInv'
  BY AllVaults, PTL
<1>4. SyncIn(Vaults)'
  BY TrailsUnchanged DEF Drops, SyncIn
<1> QED
  BY <1>1, <1>2, <1>3, <1>4 DEF InvIn

LEMMA ServerKept == IInv /\ SyncIn(Vaults) /\ ServerMoves => IInv' /\ SyncIn(Vaults)'
  BY InvStep, SyncStep, DropsKeepInv DEF ServerMoves

-----------------------------------------------------------------------------
(***************************************************************************)
(* Requests keep their places, and the pool its connections.               *)
(***************************************************************************)
LEMMA RequestsInit == ShellInit => RequestsOK
  BY ShellAssumption
     DEF ShellInit, Init, RequestsOK, PlacesOK, Places, RequestOK, WriterOK, ReaderOK,
         Holding, Requests

(* A request that moves on keeps what is said of requests, when its handler
   does, and the handlers of the others are left alone. *)
LEMMA MoveKeepsRequests ==
  ASSUME RequestsOK, NEW x \in Requests, at[x] # "none",
         NEW place \in Places, NEW n \in {0, 1}, n = 1 <=> place \in Holding,
         Moves(x, place, n),
         \A h \in Handlers \ {x} : tx'[h] = tx[h],
         \A r \in Readers \ {x} : sync'[r] = sync[r] \/ sync'[r] = [phase |-> "idle"],
         x \in Handlers =>
           /\ place \in {"ask_session", "session", "ask_work"} => tx'[x].phase \in Answered
           /\ place = "work" /\ tx'[x].phase \in Open => tx'[x].sub.vault = target[x],
         x \in Readers /\ sync'[x].phase \in {"check_cursor", "read_rows"} =>
           place \in {"ask_work", "work"} /\ sync'[x].from.vault = target[x]
  PROVE  RequestsOK'
<1>1. /\ at' = [at EXCEPT ![x] = place]
      /\ held' = [held EXCEPT ![x] = n]
      /\ UNCHANGED <<process, starts>>
      /\ \/ place = "none" /\ target' = [target EXCEPT ![x] = None]
         \/ place # "none" /\ target' = target
  BY DEF Moves
<1>2. /\ at'[x] = place /\ held'[x] = n /\ (place # "none" => target'[x] = target[x])
      /\ \A y \in Requests \ {x} :
           at'[y] = at[y] /\ held'[y] = held[y] /\ target'[y] = target[y]
  BY <1>1 DEF RequestsOK, PlacesOK
<1>3. PlacesOK'
  BY <1>1 DEF RequestsOK, PlacesOK
<1>4. \A y \in Requests : RequestOK(y)'
  BY <1>1, <1>2 DEF RequestsOK, RequestOK
<1>5. \A h \in Handlers : WriterOK(h)'
  BY <1>2 DEF RequestsOK, WriterOK, Requests, Holding
<1>6. \A r \in Readers : ReaderOK(r)'
  BY <1>2 DEF RequestsOK, ReaderOK, Requests, Holding
<1> QED
  BY <1>3, <1>4, <1>5, <1>6 DEF RequestsOK

(* Every step, that of another request or of the process included, leaves
   each request one connection at most and its handler where it says. *)
LEMMA RequestsStep ==
  RequestsOK /\ IInv /\ [ShellNext]_allVars => RequestsOK'
<1> SUFFICES ASSUME RequestsOK, IInv, [ShellNext]_allVars PROVE RequestsOK'
  OBVIOUS
<1> USE ShellAssumption
<1>0. TypeOK
  BY DEF IInv
<1>1. CASE Start \/ Serve \/ StartFails \/ Shutdown \/ Exit
  BY <1>1 DEF Start, Serve, StartFails, Shutdown, Exit, vars, RequestsOK, PlacesOK,
              RequestOK, WriterOK, ReaderOK
<1>2. CASE Kill
  <2>1. \A r \in Readers : sync'[r].phase \notin {"check_cursor", "read_rows"}
    BY <1>2 DEF Kill, RequestsOK, ReaderOK
  <2> QED
    BY <1>2, <2>1 DEF Kill, RequestsOK, PlacesOK, Places, Holding, RequestOK, WriterOK,
                      ReaderOK, Requests
<1>3. CASE UNCHANGED allVars
  BY <1>3 DEF allVars, vars, shellVars, RequestsOK, PlacesOK, RequestOK, WriterOK, ReaderOK
<1>4. ASSUME NEW h \in Handlers, WriteStep(h) PROVE RequestsOK'
  <2>1. at[h] = "work" /\ WriterOK(h) /\ h \in Requests /\ h \notin Readers
    BY <1>4 DEF RequestsOK, WriteStep, Requests
  <2>2. /\ \A o \in Handlers \ {h} : tx'[o] = tx[o]
        /\ UNCHANGED sync
        /\ tx'[h].phase \in Open => tx'[h].sub.vault = target[h]
    BY <1>0, <1>4, <2>1, WriteIsStep
  <2>3. CASE UNCHANGED shellVars
    BY <2>1, <2>2, <2>3 DEF shellVars, RequestsOK, PlacesOK, RequestOK, WriterOK, ReaderOK
  <2>4. CASE Moves(h, "none", 0)
    BY <2>1, <2>2, <2>4, MoveKeepsRequests DEF Places, Holding
  <2> QED
    BY <1>4, <2>3, <2>4 DEF WriteStep
<1>5. ASSUME NEW h \in Handlers, OrphanEnds(h) PROVE RequestsOK'
  <2>1. /\ \A o \in Handlers \ {h} : tx'[o] = tx[o]
        /\ UNCHANGED sync
        /\ tx'[h].phase \in Answered /\ tx'[h].phase \notin Open
    BY <1>0, <1>5, EndIsStep DEF OrphanEnds
  <2> QED
    BY <1>5, <2>1 DEF OrphanEnds, shellVars, RequestsOK, PlacesOK, RequestOK, WriterOK,
                      ReaderOK
<1>6. ASSUME NEW r \in Readers, ReadStep(r) PROVE RequestsOK'
  <2>1. at[r] = "work" /\ ReaderOK(r) /\ r \in Requests /\ r \notin Handlers
    BY <1>6 DEF RequestsOK, ReadStep, Requests
  <2>2. /\ UNCHANGED <<tables, lock, tx>>
        /\ \A o \in Readers \ {r} : sync'[o] = sync[o]
        /\ sync'[r].phase \in {"check_cursor", "read_rows"} =>
             sync'[r].from.vault = target[r]
    BY <1>0, <1>6, <2>1, ReadIsStep
  <2>3. CASE sync'[r].phase \in {"idle", "replied"}
    <3>1. Moves(r, "none", 0)
      BY <1>6, <2>3 DEF ReadStep
    <3> QED
      BY <2>1, <2>2, <2>3, <3>1, MoveKeepsRequests DEF Places, Holding
  <2>4. CASE sync'[r].phase \notin {"idle", "replied"}
    <3>1. Moves(r, "ask_work", 0)
      BY <1>6, <2>4 DEF ReadStep
    <3> QED
      BY <2>1, <2>2, <2>4, <3>1, MoveKeepsRequests DEF Places, Holding
  <2> QED
    BY <2>3, <2>4
<1>7. ASSUME NEW x \in Requests, Accept(x) PROVE RequestsOK'
  <2>1. PICK v \in Vaults : target' = [target EXCEPT ![x] = v]
    BY <1>7 DEF Accept
  <2>2. /\ process = "serving" /\ UNCHANGED <<process, starts, held, tx, sync>>
        /\ at[x] = "none" /\ at' = [at EXCEPT ![x] = "ask_session"]
        /\ x \in Handlers => tx[x].phase \in Answered
    BY <1>7 DEF Accept, vars
  <2>3. v # None
    BY ServerAssumption
  <2>4. PlacesOK'
    BY <2>1, <2>2 DEF RequestsOK, PlacesOK, Places
  <2>5. \A y \in Requests : RequestOK(y)'
    BY <2>1, <2>2, <2>3 DEF RequestsOK, PlacesOK, RequestOK, Holding
  <2>6. \A h \in Handlers : WriterOK(h)'
    BY <2>1, <2>2 DEF RequestsOK, PlacesOK, WriterOK, Requests
  <2>7. \A r \in Readers : ReaderOK(r)'
    BY <2>1, <2>2 DEF RequestsOK, PlacesOK, ReaderOK, Requests
  <2> QED
    BY <2>4, <2>5, <2>6, <2>7 DEF RequestsOK
<1>8. ASSUME NEW x \in Requests, Acquire(x) \/ CheckSession(x) PROVE RequestsOK'
  <2>1. UNCHANGED <<tx, sync>>
    BY <1>8 DEF Acquire, CheckSession, vars
  <2>2. held[x] = 0 \/ at[x] = "session"
    BY <1>8 DEF Acquire, CheckSession, RequestsOK, PlacesOK, RequestOK, Holding
  <2>3. PICK place \in Places, n \in {0, 1} :
          /\ Moves(x, place, n)
          /\ n = 1 <=> place \in Holding
          /\ \/ at[x] \in {"ask_session", "session"} /\ place \in {"session", "ask_work", "none"}
             \/ at[x] = "ask_work" /\ place = "work"
    BY <1>8, <2>2 DEF Acquire, CheckSession, Places, Holding
  <2>4. x \in Handlers => tx[x].phase \in Answered /\ tx[x].phase \notin Open
    BY <2>3 DEF RequestsOK, WriterOK, Answered, Open
  <2>5. x \in Readers /\ sync[x].phase \in {"check_cursor", "read_rows"} =>
          place = "work" /\ sync[x].from.vault = target[x]
    BY <2>3 DEF RequestsOK, ReaderOK
  <2>6. at[x] # "none"
    BY <2>3
  <2> QED
    BY <2>1, <2>3, <2>4, <2>5, <2>6, MoveKeepsRequests
<1>9. ASSUME NEW x \in Requests, at[x] # "none", Dropped(x), Moves(x, "none", 0)
      PROVE  RequestsOK'
  <2>1. /\ UNCHANGED tx
        /\ \A r \in Readers : sync'[r] = IF r = x THEN [phase |-> "idle"] ELSE sync[r]
    BY <1>9 DEF Dropped
  <2> QED
    BY <1>9, <2>1, MoveKeepsRequests DEF Places, Holding
<1>10. ASSUME NEW x \in Requests, AcquireTimesOut(x) PROVE RequestsOK'
  BY <1>9, <1>10 DEF AcquireTimesOut
<1>11. ASSUME NEW x \in Requests, Abandon(x) PROVE RequestsOK'
  <2>1. CASE x \in Handlers /\ tx[x].phase \in Open
    <3>1. Rollback(x) /\ at[x] # "none" /\ Moves(x, "none", 0)
      BY <1>11, <2>1 DEF Abandon
    <3>2. /\ \A o \in Handlers \ {x} : tx'[o] = tx[o]
          /\ UNCHANGED sync
      BY <1>0, <2>1, <3>1, EndIsStep
    <3> QED
      BY <2>1, <3>1, <3>2, MoveKeepsRequests DEF Places, Holding
  <2>2. CASE ~(x \in Handlers /\ tx[x].phase \in Open)
    BY <1>9, <1>11, <2>2 DEF Abandon
  <2> QED
    BY <2>1, <2>2
<1>12. ASSUME NEW x \in Requests, Accept(x) \/ Advance(x) \/ Abandon(x) PROVE RequestsOK'
  BY <1>5, <1>6, <1>7, <1>8, <1>10, <1>11, <1>12 DEF Advance
<1> QED
  BY <1>1, <1>2, <1>3, <1>4, <1>12 DEF ShellNext

-----------------------------------------------------------------------------
(***************************************************************************)
(* The theorems.                                                           *)
(***************************************************************************)
LEMMA ShellInvariance == ShellSpec => []ShellInv
<1>1. ShellInit => ShellInv
  <2>1. ShellInit => IInv
    BY InvInit DEF ShellInit
  <2>2. ShellInit => SyncIn(Vaults)
    BY DEF ShellInit, Init, SyncIn
  <2> QED
    BY <2>1, <2>2, RequestsInit DEF ShellInv
<1>2. ShellInv /\ [ShellNext]_allVars => ShellInv'
  <2>1. ShellInv /\ [ShellNext]_allVars => ServerMoves
    BY ShellMovesServer DEF ShellInv, IInv
  <2>2. ShellInv /\ [ShellNext]_allVars => RequestsOK'
    BY RequestsStep DEF ShellInv
  <2> QED
    BY <2>1, <2>2, ServerKept DEF ShellInv
<1> QED
  BY <1>1, <1>2, PTL DEF ShellSpec

(* No request ever holds two connections, or one while it waits for another;
   a write handler that waits for a connection has no transaction open, and a
   sync handler reads the vault its request names, whatever was killed before. *)
THEOREM RequestsKeepPlaces == ShellSpec => []RequestsOK
  BY ShellInvariance, PTL DEF ShellInv

(* A full pool: some connection is held. *)
LEMMA FullPoolIsHeld ==
  ASSUME RequestsOK, InUse >= PoolSize
  PROVE  \E x \in Requests : held[x] = 1
<1> SUFFICES ASSUME \A x \in Requests : held[x] = 0 PROVE FALSE
  BY DEF RequestsOK, PlacesOK
<1>1. { c \in Requests \X (1..PoolSize) : c[2] <= held[c[1]] } = {}
  <2> SUFFICES ASSUME NEW c \in Requests \X (1..PoolSize) PROVE ~(c[2] <= held[c[1]])
    OBVIOUS
  <2>1. c[1] \in Requests /\ c[2] \in 1..PoolSize
    OBVIOUS
  <2> QED
    BY <2>1, ShellAssumption
<1>2. InUse = 0
  BY <1>1, FS_EmptySet DEF InUse
<1> QED
  BY <1>2, ShellAssumption

(* When no transaction is left over, an open one that waits for a key waits,
   over at most two others, for one that can go on, and all of them hold a
   connection. *)
LEMMA OpenMakesWay ==
  ASSUME RequestsOK, \A h \in Handlers : ~Orphan(h),
         NEW h \in Handlers, tx[h].phase \in Open
  PROVE  \E x \in Requests : held[x] > 0 /\ CanRun(x)
<1>1. ASSUME NEW o \in Handlers, tx[o].phase \in Open, ~WaitsForKey(o)
      PROVE  \E x \in Requests : held[x] > 0 /\ CanRun(x)
  <2>1. o \in Requests /\ at[o] = "work"
    BY <1>1 DEF Orphan, Requests
  <2>2. held[o] = 1
    BY <2>1 DEF RequestsOK, RequestOK, Holding
  <2>3. ~WaitsForRow(o)
    BY <1>1 DEF WaitsForRow, Open, Answered
  <2> QED
    BY <1>1, <2>1, <2>2, <2>3 DEF CanRun
<1>2. ASSUME NEW o \in Handlers, tx[o].phase = "commit"
      PROVE  \E x \in Requests : held[x] > 0 /\ CanRun(x)
  BY <1>1, <1>2 DEF WaitsForKey, Open
<1>3. ASSUME NEW o \in Handlers, tx[o].phase = "insert_revision"
      PROVE  \E x \in Requests : held[x] > 0 /\ CanRun(x)
  <2>1. CASE WaitsForKey(o)
    BY <1>2, <1>3, <2>1 DEF WaitsForKey, RevisionInsertPending
  <2>2. CASE ~WaitsForKey(o)
    BY <1>1, <1>3, <2>2 DEF Open
  <2> QED
    BY <2>1, <2>2
<1>4. CASE WaitsForKey(h)
  BY <1>2, <1>3, <1>4 DEF WaitsForKey, ItemInsertPending, RevisionInsertPending
<1>5. CASE ~WaitsForKey(h)
  BY <1>1, <1>5
<1> QED
  BY <1>4, <1>5

(* The pool never starves those who use it, for any number of requests and
   any size of pool: when all of it is out, one of those who hold it can run,
   or a transaction of a killed process is about to end. *)
THEOREM PoolSafe == ShellSpec => []PoolMakesWay
<1>1. ShellInv => PoolMakesWay
  <2> SUFFICES ASSUME ShellInv, InUse >= PoolSize, \A h \in Handlers : ~Orphan(h)
               PROVE  \E x \in Requests : held[x] > 0 /\ CanRun(x)
    BY DEF PoolMakesWay
  <2>1. PICK x \in Requests : held[x] = 1
    BY FullPoolIsHeld DEF ShellInv
  <2>2. at[x] = "session" \/ at[x] = "work"
    BY <2>1 DEF ShellInv, RequestsOK, RequestOK, Holding
  <2>3. CASE CanRun(x)
    BY <2>1, <2>3
  <2>4. CASE ~CanRun(x)
    <3>1. x \in Handlers /\ (WaitsForRow(x) \/ WaitsForKey(x))
      BY <2>2, <2>4 DEF CanRun
    <3>2. CASE WaitsForKey(x)
      BY <3>1, <3>2, OpenMakesWay DEF WaitsForKey, Open, ShellInv
    <3>3. CASE WaitsForRow(x)
      <4>1. target[x] \in Vaults
        BY <2>1, <2>2 DEF ShellInv, RequestsOK, PlacesOK, RequestOK
      <4>2. PICK h \in Handlers : lock[target[x]] = h
        BY <3>3, <4>1 DEF WaitsForRow, ShellInv, IInv, TypeOK
      <4>3. tx[h].phase \in Open
        BY <4>1, <4>2 DEF ShellInv, IInv, SnapshotsStayTrue, LocksHeld
      <4> QED
        BY <4>3, OpenMakesWay DEF ShellInv
    <3> QED
      BY <3>1, <3>2, <3>3
  <2> QED
    BY <2>3, <2>4
<1> QED
  BY <1>1, ShellInvariance, PTL

(* What an open transaction has read stays true when its process is killed
   under it: PostgreSQL keeps its locks until it has ended it. *)
THEOREM SnapshotsSurviveKills == ShellSpec => []SnapshotsStayTrue
  BY ShellInvariance, PTL DEF ShellInv, IInv

(* Kills, restarts and given-up requests leave the vaults whole: one gapless
   chain each, and one history for every item. *)
THEOREM VaultsSurviveKills == ShellSpec => [](ChainIntact /\ ItemHistories)
  BY ShellInvariance, PTL DEF ShellInv, IInv

(* A change that was answered with 201 is in the chain for good, after any
   number of kills and restarts. *)
THEOREM CreatedSurvivesKills == ShellSpec => []CreatedIsLogged
  BY ShellInvariance, PTL DEF ShellInv, IInv

(* A sync reply is a segment of the chain although its three reads wait for a
   connection each, and the server may be restarted before the next one. *)
THEOREM ShellSyncSafe == ShellSpec => []SyncReplyIsSegment
<1>1. ShellInv => SyncReplyIsSegment
  <2>1. ASSUME TypeOK, NEW rd \in Readers, sync[rd].phase = "replied"
        PROVE  sync[rd].from.vault \in Vaults
    BY <2>1, ServerAssumption DEF TypeOK, SyncState, Cursor
  <2> QED
    BY <2>1 DEF ShellInv, IInv, SyncIn, SyncTrails, SyncReplyIsSegment
<1> QED
  BY <1>1, ShellInvariance, PTL

(* The service as a whole, with its pool, its kills and its restarts, still
   implements the append-only log: no kill removes, reorders or rewrites a
   change, and the commit of an orphan appends its own. *)
THEOREM ShellRefinement == ShellSpec => ImplementsVaultLog
<1>1. ShellInit => Log!Init
  BY LogInit DEF ShellInit
<1>2. ShellInv /\ ShellInv' /\ [ShellNext]_allVars => [Log!Next]_logs
  <2>1. ShellInv /\ [ShellNext]_allVars => ServerMoves
    BY ShellMovesServer DEF ShellInv, IInv
  <2>2. ShellInv /\ ShellInv' /\ [Next]_vars => [Log!Next]_logs
    BY LogStep DEF ShellInv
  <2>3. Drops => [Log!Next]_logs
    BY DEF Drops, tables, logs, LogOf, RowsOf, EntryOf
  <2> QED
    BY <2>1, <2>2, <2>3 DEF ServerMoves
<1> QED
  BY <1>1, <1>2, ShellInvariance, PTL DEF ShellSpec, ImplementsVaultLog, Log!Spec

=============================================================================
