---------------------------- MODULE ServiceShell ----------------------------
(***************************************************************************)
(* The process around the vault handlers of VaultServer: start, graceful   *)
(* shutdown, kill and restart (crates/api/src/main.rs, lib.rs), and the    *)
(* pool of database connections (db.rs) every request draws from.          *)
(*                                                                         *)
(* A write handler takes a connection for its session check, gives it      *)
(* back, and takes one for its whole transaction, which includes the wait  *)
(* for the vaults row.  A sync handler takes one for each statement.  Who  *)
(* finds no connection free within the acquire timeout answers 503.        *)
(*                                                                         *)
(* A killed process leaves its open transactions to PostgreSQL, which      *)
(* rolls them back when it notices, or still commits where COMMIT had been *)
(* sent; until then they keep their row locks.                             *)
(***************************************************************************)
EXTENDS VaultServer

CONSTANTS
  PoolSize,   \* DATABASE_MAX_CONNECTIONS
  MaxStarts   \* bound of the model: how often the process is started

ASSUME ShellAssumption ==
  /\ PoolSize \in Nat \ {0}
  /\ MaxStarts \in Nat
  /\ Handlers \cap Readers = {}

VARIABLES
  process,   \* starting, serving, draining or stopped
  starts,    \* starts so far
  at,        \* where each request is
  held,      \* connections it holds
  target     \* the vault it names; the rest of it is chosen when it is used

shellVars == <<process, starts, at, held, target>>
allVars   == <<vars, shellVars>>

Requests == Handlers \cup Readers

ShellInit ==
  /\ Init
  /\ process = "stopped"
  /\ starts = 0
  /\ at = [x \in Requests |-> "none"]
  /\ held = [x \in Requests |-> 0]
  /\ target = [x \in Requests |-> None]

\* How many connections of the pool are out: each request's are numbered from 1.
InUse == Cardinality({ c \in Requests \X (1..PoolSize) : c[2] <= held[c[1]] })

-----------------------------------------------------------------------------
(***************************************************************************)
(* The process.                                                            *)
(***************************************************************************)

\* main binds its sockets; clients that connect now are not answered yet.
Start ==
  /\ process = "stopped" /\ starts < MaxStarts
  /\ process' = "starting"
  /\ starts' = starts + 1
  /\ UNCHANGED <<vars, at, held, target>>

\* build_state has opened the pool and run the migrations; axum::serve begins.
Serve ==
  /\ process = "starting"
  /\ process' = "serving"
  /\ UNCHANGED <<vars, starts, at, held, target>>

\* No connection, or a migration fails: main returns the error.
StartFails ==
  /\ process = "starting"
  /\ process' = "stopped"
  /\ UNCHANGED <<vars, starts, at, held, target>>

\* SIGTERM or SIGINT: with_graceful_shutdown accepts nothing any more.
Shutdown ==
  /\ process = "serving"
  /\ process' = "draining"
  /\ UNCHANGED <<vars, starts, at, held, target>>

\* try_join! returns when the requests under way have ended.
Exit ==
  /\ process = "draining"
  /\ \A x \in Requests : at[x] = "none"
  /\ process' = "stopped"
  /\ UNCHANGED <<vars, starts, at, held, target>>

\* The process ends at once: a crash, or the end of the grace period.
Kill ==
  /\ process \in {"serving", "draining"}
  /\ process' = "stopped"
  /\ at' = [x \in Requests |-> "none"]
  /\ held' = [x \in Requests |-> 0]
  /\ target' = [x \in Requests |-> None]
  /\ sync' = [r \in Readers |-> IF at[r] = "none" THEN sync[r] ELSE [phase |-> "idle"]]
  /\ UNCHANGED <<tables, lock, tx, starts>>

\* A transaction of a process that was killed.
Orphan(h) == tx[h].phase \in Open /\ at[h] # "work"

OrphanEnds(h) ==
  /\ Orphan(h)
  /\ Rollback(h) \/ (Commit(h) /\ tx'[h].phase = "unavailable")
  /\ UNCHANGED shellVars

-----------------------------------------------------------------------------
(***************************************************************************)
(* Requests and the pool.                                                  *)
(***************************************************************************)

Moves(x, place, connections) ==
  /\ at' = [at EXCEPT ![x] = place]
  /\ held' = [held EXCEPT ![x] = connections]
  /\ target' = IF place = "none" THEN [target EXCEPT ![x] = None] ELSE target
  /\ UNCHANGED <<process, starts>>

\* Slip: requests on connections that are kept alive are still accepted.
AcceptWhileDraining(x) ==
  /\ process \in {"serving", "draining"}
  /\ at[x] = "none"
  /\ x \in Handlers => tx[x].phase \in Answered
  /\ target' = [target EXCEPT ![x] = CHOOSE v \in Vaults : TRUE]
  /\ at' = [at EXCEPT ![x] = "ask_session"]
  /\ UNCHANGED <<vars, process, starts, held>>

\* The router passes a request to its handler.
Accept(x) ==
  /\ process = "serving"
  /\ at[x] = "none"
  /\ x \in Handlers => tx[x].phase \in Answered
  /\ \E v \in Vaults : target' = [target EXCEPT ![x] = v]
  /\ at' = [at EXCEPT ![x] = "ask_session"]
  /\ UNCHANGED <<vars, process, starts, held>>

Acquire(x) ==
  /\ InUse < PoolSize
  /\ \/ at[x] = "ask_session" /\ Moves(x, "session", held[x] + 1)
     \/ at[x] = "ask_work" /\ Moves(x, "work", held[x] + 1)
  /\ UNCHANGED vars

\* The sync handler gives up between its reads.
Dropped(x) ==
  /\ sync' = [r \in Readers |-> IF r = x THEN [phase |-> "idle"] ELSE sync[r]]
  /\ UNCHANGED <<tables, lock, tx>>

\* PoolTimedOut becomes 503.
AcquireTimesOut(x) ==
  /\ InUse >= PoolSize
  /\ at[x] \in {"ask_session", "ask_work"}
  /\ Dropped(x)
  /\ Moves(x, "none", 0)

\* Slip: the connection of the session check is kept until the end.
CheckSessionKeepingConnection(x) ==
  /\ at[x] = "session"
  /\ Moves(x, "ask_work", held[x]) \/ Moves(x, "none", 0)
  /\ UNCHANGED vars

\* require_vault_session; 401 or 403 when it fails.
CheckSession(x) ==
  /\ at[x] = "session"
  /\ Moves(x, "ask_work", 0) \/ Moves(x, "none", 0)
  /\ UNCHANGED vars

\* A statement of the transaction that began when the connection was got.  The
\* first one waits for the vaults row.
WriteStep(h) ==
  /\ at[h] = "work"
  /\ \/ \E s \in Submissions :
          /\ s.vault = target[h]
          /\ \/ VaultNotFound(h, s) \/ CreateConflict(h, s)
             \/ LockForCreate(h, s) \/ LockForRevision(h, s)
     \/ Continue(h)
  /\ IF tx'[h].phase \in Open THEN UNCHANGED shellVars ELSE Moves(h, "none", 0)

\* One of the three reads; each gives its connection back.
ReadStep(r) ==
  /\ at[r] = "work"
  /\ \/ \E c \in Cursors :
          /\ c.vault = target[r]
          /\ \/ LoadVaultHead(r, c)
             \/ /\ sync[r].phase \in {"idle", "replied"} /\ Owner[c.vault] # c.account
                /\ Dropped(r)
     \/ SyncCursorMatches(r) \/ SyncConflict(r) \/ ReadRows(r)
  /\ Moves(r, IF sync'[r].phase \in {"idle", "replied"} THEN "none" ELSE "ask_work", 0)

\* A statement fails, or the client goes away and the handler is dropped.
Abandon(x) ==
  /\ at[x] # "none"
  /\ IF x \in Handlers /\ tx[x].phase \in Open THEN Rollback(x) ELSE Dropped(x)
  /\ Moves(x, "none", 0)

-----------------------------------------------------------------------------
\* What a request does when it does not wait for a row.
Advance(x) ==
  \/ Acquire(x) \/ AcquireTimesOut(x) \/ CheckSession(x)
  \/ x \in Handlers /\ OrphanEnds(x)
  \/ x \in Readers /\ ReadStep(x)

ShellNext ==
  \/ Start \/ Serve \/ StartFails \/ Shutdown \/ Exit \/ Kill
  \/ \E h \in Handlers : WriteStep(h)
  \/ \E x \in Requests : Accept(x) \/ Advance(x) \/ Abandon(x)

ShellSpec == ShellInit /\ [][ShellNext]_allVars

(* A connection is got or the timeout passes; statements run, those that wait
   for a row in the order they came; PostgreSQL notices a broken connection.
   Nobody owes a start, a shutdown, a request or a kill.                    *)
ShellFairness ==
  /\ \A x \in Requests : WF_allVars(Advance(x))
  /\ \A h \in Handlers : SF_allVars(WriteStep(h))
  /\ WF_allVars(Exit)

ShellFairSpec == ShellSpec /\ ShellFairness

-----------------------------------------------------------------------------
(***************************************************************************)
(* Properties.                                                             *)
(***************************************************************************)

WaitsForRow(h) == tx[h].phase \in Answered /\ lock[target[h]] # None

WaitsForKey(h) ==
  \/ tx[h].phase = "insert_item" /\ ItemInsertPending(h, tx[h].sub.item)
  \/ tx[h].phase = "insert_revision" /\ RevisionInsertPending(h, tx[h].sub.id)

\* The request has what its next statement needs.
CanRun(x) ==
  \/ at[x] = "session"
  \/ at[x] = "work" /\ (x \in Handlers => ~WaitsForRow(x) /\ ~WaitsForKey(x))

(* When every connection is in use one of those who hold them can go on, or
   waits in the end for a transaction PostgreSQL is about to roll back.  So
   writers that queue for one vault, each holding a connection, never starve
   the very writer they wait for, and nobody needs a second connection while
   it holds one.                                                            *)
PoolMakesWay ==
  InUse >= PoolSize =>
    \/ \E x \in Requests : held[x] > 0 /\ CanRun(x)
    \/ \E h \in Handlers : Orphan(h)

(* A process that was asked to stop does stop by itself, whatever its requests
   are waiting for at that time: a connection, a row another request has
   locked, or a row that a transaction of the process before still holds.   *)
ShutdownEnds == process = "draining" ~> process = "stopped"

=============================================================================
