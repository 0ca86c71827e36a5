---------------------------- MODULE VaultClient ----------------------------
(***************************************************************************)
(* The tabs of one browser working on one vault: unlock, sync, save,       *)
(* delete and lock of crates/api/static/app.js, over the checkpoints of    *)
(* CheckpointStore and a server that keeps the vault's chain of changes.   *)
(*                                                                         *)
(* A chain is the sequence of its changes, and a head hash is the chain it *)
(* hashes: HMAC-SHA-256 is taken to have no collisions.  A change carries  *)
(* its revision id and the integrity key its MAC and its head hash were    *)
(* computed with.  Contents of items are left out.                         *)
(*                                                                         *)
(* Each async function of a tab runs in a slot.  It gives up control only  *)
(* at an await, and then locking may wipe the keys of the vault object it  *)
(* holds, or another function may put a new object in state.vault.         *)
(***************************************************************************)
EXTENDS CheckpointStore, Sequences

CONSTANTS
  Tabs,         \* tabs of the browser; they share the checkpoint storage
  Slots,        \* async functions a tab may have under way
  Revs,         \* random revision ids
  MaxPage,      \* changes in one sync response
  MaxChain,     \* bound of the model: length of the server's chain
  MaxRestores,  \* bound of the model: restores of the server from a backup
  MaxSignIns    \* bound of the model: sign-ins of the user

\* Which integrity key: the vault's for MAC and head hash, the vault's for
\* the MAC and a wiped one for the hash, or a wiped one for both.
Keys == {"vault", "mixed", "wiped"}

Change == [rev : Revs, key : Keys]

HeadOf(chain) == [seq |-> Len(chain), hash |-> chain]

\* A vault object: what it shows, the checkpoint it was unlocked with, and
\* whether the chain has met that checkpoint.
Opened == [chain : Seq(Change), cp : Checkpoints \cup {None}, verified : BOOLEAN]

ASSUME ClientAssumption ==
  /\ Writers = Tabs \X Slots
  /\ MaxPage \in Nat \ {0}
  /\ MaxChain \in Nat /\ MaxRestores \in Nat /\ MaxSignIns \in Nat
  /\ \A n \in 0..MaxChain : \A c \in [1..n -> Change] : HeadOf(c) \in Checkpoints
  /\ None \notin Writers /\ None \notin Opened

VARIABLES
  server,    \* the chain the server has now
  used,      \* revision ids drawn so far
  restores,  \* restores so far
  signIns,   \* sign-ins so far
  vault,     \* state.vault of each tab
  busy,      \* what setVaultBusy was last called with: sync, save, lock disabled
  task       \* each async function: where it is, what it has read

clientVars == <<server, used, restores, signIns, vault, busy, task>>
allVars    == <<checkpointVars, clientVars>>

NoTask == [phase |-> "idle", ref |-> "none"]

InitClient ==
  /\ InitCheckpoints
  /\ server = <<>>
  /\ used = {}
  /\ restores = 0
  /\ signIns = 0
  /\ vault = [t \in Tabs |-> None]
  /\ busy = [t \in Tabs |-> FALSE]
  /\ task = [w \in Writers |-> NoTask]

-----------------------------------------------------------------------------
\* persistVaultCheckpoint and what follows it run without an await.
Running(t) == \E s \in Slots : task[<<t, s>>].phase \in {"persist", "saving"}

\* Function w resumes from the await it is suspended at.
Resumes(w, phase) == task[w].phase = phase /\ ~Running(w[1])

\* What clearVaultState does to a function that holds state.vault.
Wiped(f) == IF f.ref = "current" THEN [f EXCEPT !.ref = "wiped"] ELSE f

\* What assigning state.vault does to it: the old object keeps its keys.
Detached(f) == IF f.ref = "current" THEN [f EXCEPT !.ref = "detached"] ELSE f

\* Tab t's functions after one of them became f and the others were changed.
TasksOf(t, w, f, Others(_)) ==
  task' = [x \in Writers |->
             IF x = w THEN f ELSE IF x[1] = t THEN Others(task[x]) ELSE task[x]]

Unwiped(f) == f

\* Slip: the keys stay in memory.
LockKeepingKeys(w, f) ==
  /\ TasksOf(w[1], w, f, Unwiped)
  /\ vault' = [vault EXCEPT ![w[1]] = None]
  /\ busy' = [busy EXCEPT ![w[1]] = FALSE]

\* lockVault, while function w goes on as f.
Lock(w, f) ==
  /\ TasksOf(w[1], w, f, Wiped)
  /\ vault' = [vault EXCEPT ![w[1]] = None]
  /\ busy' = [busy EXCEPT ![w[1]] = FALSE]

\* Slip: the controls are enabled again only where a function succeeds.
EndBusy(w) == task' = [task EXCEPT ![w] = NoTask] /\ UNCHANGED <<vault, busy>>

\* The function ends; its finally block enables the controls again.
End(w) ==
  /\ task' = [task EXCEPT ![w] = NoTask]
  /\ busy' = [busy EXCEPT ![w[1]] = FALSE]
  /\ UNCHANGED vault

\* The function fails with an error that failClosedVault, or the catch of
\* unlockVaultWithKey, answers by locking whatever vault the tab has now.
EndLocked(w) == Lock(w, NoTask)

Becomes(w, f) == task' = [task EXCEPT ![w] = f] /\ UNCHANGED <<vault, busy>>

Elsewhere == UNCHANGED <<server, used, restores, signIns>>
Locally   == Elsewhere /\ UNCHANGED checkpointVars

-----------------------------------------------------------------------------
(***************************************************************************)
(* unlockVaultWithKey.                                                     *)
(***************************************************************************)

\* submitLogin resets the flow; MFA done, the list of vaults is requested.
SignIn(w) ==
  /\ Resumes(w, "idle")
  /\ signIns < MaxSignIns
  /\ signIns' = signIns + 1
  /\ Lock(w, [phase |-> "list", ref |-> "none"])
  /\ UNCHANGED <<server, used, restores, checkpointVars>>

\* The head GET /v1/vaults answers with.
ListedHead == HeadOf(server)

\* assertCheckpointCompatibleWithServerHead
Compatible(cp) ==
  cp # None => cp.seq < ListedHead.seq \/ cp = ListedHead

ListVaults(w) ==
  /\ Resumes(w, "list")
  /\ ~Conflicting
  /\ Compatible(Loaded)
  /\ Becomes(w, [phase |-> "decrypt", ref |-> "none", cp |-> Loaded])
  /\ Locally

\* No answer, no storage, or a stored checkpoint that contradicts the server.
ListFails(w) ==
  /\ Resumes(w, "list")
  /\ Becomes(w, NoTask)
  /\ Locally

\* Slip: the replay starts as if it had met the stored checkpoint.
OpenVaultVerified(w) ==
  LET opened == [chain |-> <<>>, cp |-> task[w].cp, verified |-> TRUE] IN
  /\ Resumes(w, "decrypt")
  /\ vault' = [vault EXCEPT ![w[1]] = opened]
  /\ busy' = [busy EXCEPT ![w[1]] = TRUE]
  /\ TasksOf(w[1], w,
             [phase |-> "fetch", ref |-> "current", unlock |-> TRUE, replay |-> opened],
             Detached)
  /\ Locally

\* state.vault starts at the genesis head and syncVault begins.  An object
\* already there is replaced, not wiped.
OpenVault(w) ==
  LET cp == task[w].cp
      opened == [chain |-> <<>>, cp |-> cp, verified |-> cp = None \/ cp = HeadOf(<<>>)]
  IN
  /\ Resumes(w, "decrypt")
  /\ vault' = [vault EXCEPT ![w[1]] = opened]
  /\ busy' = [busy EXCEPT ![w[1]] = TRUE]
  /\ TasksOf(w[1], w,
             [phase |-> "fetch", ref |-> "current", unlock |-> TRUE, replay |-> opened],
             Detached)
  /\ Locally

-----------------------------------------------------------------------------
(***************************************************************************)
(* syncVault.                                                              *)
(***************************************************************************)

SyncButton(w) ==
  /\ Resumes(w, "idle")
  /\ vault[w[1]] # None /\ ~busy[w[1]]
  /\ busy' = [busy EXCEPT ![w[1]] = TRUE]
  /\ task' = [task EXCEPT ![w] = [phase |-> "fetch", ref |-> "current", unlock |-> FALSE,
                                  replay |-> vault[w[1]]]]
  /\ UNCHANGED vault
  /\ Locally

\* The server answers with the changes after the verified local head.
FetchPage(w) ==
  LET from == task[w].replay.chain
      n    == Len(server) - Len(from)
      page == SubSeq(server, Len(from) + 1, Len(from) + (IF n < MaxPage THEN n ELSE MaxPage))
  IN
  /\ Resumes(w, "fetch")
  /\ Len(from) <= Len(server) /\ SubSeq(server, 1, Len(from)) = from
  /\ Becomes(w, [phase |-> "verify", ref |-> task[w].ref, unlock |-> task[w].unlock,
                 replay |-> task[w].replay, page |-> page, has_more |-> n > MaxPage])
  /\ Locally

\* 409 for a cursor that is not on the server's chain, or no answer.
FetchFails(w) ==
  /\ Resumes(w, "fetch")
  /\ IF task[w].unlock THEN EndLocked(w) ELSE End(w)
  /\ Locally

\* Slip: a change is accepted whatever its MAC and its head hash.
VerifiesAnything(w, change) == task[w].ref # "wiped"

\* The change MAC, the head hash and the decryption all succeed.
Verifies(w, change) == task[w].ref # "wiped" /\ change.key = "vault"

\* MAC and hash mismatches fail closed.  A function with wiped keys finds the
\* MAC of a change made with wiped keys right and fails to decrypt it: an
\* error failClosedVault does not know.
MismatchLocks(w, change) == task[w].ref # "wiped" \/ change.key # "wiped"

\* markCheckpointProgress throws.
Diverges(v, chain) == ~v.verified /\ v.cp.seq <= Len(chain) /\ v.cp # HeadOf(chain)

Progressed(v, chain) ==
  [v EXCEPT !.chain = chain, !.verified = v.verified \/ v.cp = HeadOf(chain)]

ApplyChange(w) ==
  LET f     == task[w]
      chain == Append(f.replay.chain, Head(f.page))
  IN
  /\ Resumes(w, "verify") /\ f.page # <<>>
  /\ Verifies(w, Head(f.page))
  /\ ~Diverges(f.replay, chain)
  /\ Becomes(w, [f EXCEPT !.page = Tail(f.page), !.replay = Progressed(f.replay, chain)])
  /\ Locally

RejectChange(w) ==
  LET f == task[w] IN
  /\ Resumes(w, "verify") /\ f.page # <<>>
  /\ \/ ~Verifies(w, Head(f.page))
     \/ Diverges(f.replay, Append(f.replay.chain, Head(f.page)))
  /\ IF f.unlock \/ MismatchLocks(w, Head(f.page)) THEN EndLocked(w) ELSE End(w)
  /\ Locally

NextPage(w) ==
  LET f == task[w] IN
  /\ Resumes(w, "verify") /\ f.page = <<>> /\ f.has_more
  /\ Becomes(w, [phase |-> "fetch", ref |-> f.ref, unlock |-> f.unlock, replay |-> f.replay])
  /\ Locally

\* assertStoredCheckpointVerified on the last page.
LastPage(w) ==
  LET f == task[w] IN
  /\ Resumes(w, "verify") /\ f.page = <<>> /\ ~f.has_more
  /\ IF f.replay.verified
     THEN Becomes(w, [phase |-> "persist", ref |-> f.ref, replay |-> f.replay])
     ELSE EndLocked(w)
  /\ Locally

-----------------------------------------------------------------------------
(***************************************************************************)
(* saveVaultItem and deleteVaultItem.                                      *)
(***************************************************************************)

\* buildEncryptedItemChange reads the head and draws a revision id.
StartWrite(w) ==
  /\ Resumes(w, "idle")
  /\ vault[w[1]] # None
  /\ Len(vault[w[1]].chain) < MaxChain
  /\ \E r \in Revs \ used :
       /\ used' = used \cup {r}
       /\ task' = [task EXCEPT ![w] = [phase |-> "mac", ref |-> "current",
                                       base |-> vault[w[1]].chain, rev |-> r]]
  /\ busy' = [busy EXCEPT ![w[1]] = TRUE]
  /\ UNCHANGED <<vault, server, restores, signIns, checkpointVars>>

SaveButton(w) == ~busy[w[1]] /\ StartWrite(w)

\* A click on an item enables Delete again, whatever disabled it: the list is
\* outside the form, and selectVaultItem does not ask who is under way.  Only
\* a vault with changes has items.
DeleteButton(w) ==
  /\ vault[w[1]] # None /\ vault[w[1]].chain # <<>>
  /\ StartWrite(w)

\* computeChangeMac copies the integrity key the vault object has now.
ComputeMac(w) ==
  LET f == task[w] IN
  /\ Resumes(w, "mac")
  /\ Becomes(w, [phase |-> "hash", ref |-> f.ref, base |-> f.base, rev |-> f.rev,
                 key |-> IF f.ref = "wiped" THEN "wiped" ELSE "vault"])
  /\ Locally

\* computeHeadHash copies it again.
ComputeHeadHash(w) ==
  LET f   == task[w]
      key == IF f.ref = "wiped" /\ f.key = "vault" THEN "mixed" ELSE f.key
  IN
  /\ Resumes(w, "hash")
  /\ Becomes(w, [phase |-> "csrf", ref |-> f.ref, base |-> f.base,
                 change |-> [rev |-> f.rev, key |-> key]])
  /\ Locally

FetchCsrf(w) ==
  /\ Resumes(w, "csrf")
  /\ Becomes(w, [task[w] EXCEPT !.phase = "post"])
  /\ Locally

\* The server compares the base head with the vault's head.
ServerAccepts(base) == server = base /\ Len(server) < MaxChain

\* The server commits the change; its answer may be lost.
PostChange(w) ==
  /\ Resumes(w, "post")
  /\ ServerAccepts(task[w].base)
  /\ server' = Append(task[w].base, task[w].change)
  /\ \/ Becomes(w, [task[w] EXCEPT !.phase = "created"])
     \/ End(w)
  /\ UNCHANGED <<used, restores, signIns, checkpointVars>>

\* 401, 403, 409 or no answer to /v1/csrf or to the POST.
WriteFails(w) ==
  /\ Resumes(w, "csrf") \/ Resumes(w, "post")
  /\ End(w)
  /\ Locally

\* verifyAndApplyChange takes the vault that is open now and compares heads.
ApplyOwnChange(w) ==
  LET v == vault[w[1]] IN
  /\ Resumes(w, "created")
  /\ \/ v = None /\ End(w)
     \/ v # None /\ v.chain # task[w].base /\ EndLocked(w)
     \/ /\ v # None /\ v.chain = task[w].base
        /\ Becomes(w, [phase |-> "own", ref |-> "current", replay |-> v,
                       change |-> task[w].change])
  /\ Locally

\* It verifies the change it has made itself, then saves the checkpoint.  The
\* object is copied only now, when another function may have moved it on; the
\* head is that of the change all the same.  An object no tab shows any more
\* is not followed: the storage refuses such a head whatever the copy holds.
VerifyOwnChange(w) ==
  LET f     == task[w]
      v     == IF f.ref = "current" THEN vault[w[1]] ELSE f.replay
      chain == Append(f.replay.chain, f.change)
  IN
  /\ Resumes(w, "own")
  /\ IF Verifies(w, f.change) /\ ~Diverges(v, chain)
     THEN Becomes(w, [phase |-> "persist", ref |-> f.ref, replay |-> Progressed(v, chain)])
     ELSE IF MismatchLocks(w, f.change) THEN EndLocked(w) ELSE End(w)
  /\ Locally

-----------------------------------------------------------------------------
(***************************************************************************)
(* persistVaultCheckpoint, then commitVaultReplay.                         *)
(***************************************************************************)

Persist(w) ==
  LET c == HeadOf(task[w].replay.chain) IN
  /\ task[w].phase = "persist"
  /\ StartPersist(w, c) \/ RefusePersist(w, c)
  /\ Becomes(w, [task[w] EXCEPT !.phase = "saving"])
  /\ Elsewhere

StorageCall(w) ==
  /\ task[w].phase = "saving"
  /\ Persisting(w)
  /\ UNCHANGED clientVars

\* The head is saved: the vault object takes over the replay.
CommitReplay(w) ==
  /\ task[w].phase = "saving"
  /\ writer[w].phase = "saved"
  /\ task' = [task EXCEPT ![w] = NoTask]
  /\ busy' = [busy EXCEPT ![w[1]] = FALSE]
  /\ vault' = IF task[w].ref = "current" THEN [vault EXCEPT ![w[1]] = task[w].replay] ELSE vault
  /\ Return(w)
  /\ Elsewhere

\* Slip: the replay is committed although the checkpoint could not be saved.
PersistRefusedIgnored(w) ==
  /\ task[w].phase = "saving"
  /\ writer[w].phase = "refused"
  /\ task' = [task EXCEPT ![w] = NoTask]
  /\ busy' = [busy EXCEPT ![w[1]] = FALSE]
  /\ vault' = IF task[w].ref = "current" THEN [vault EXCEPT ![w[1]] = task[w].replay] ELSE vault
  /\ Return(w)
  /\ Elsewhere

PersistRefused(w) ==
  /\ task[w].phase = "saving"
  /\ writer[w].phase = "refused"
  /\ EndLocked(w)
  /\ Return(w)
  /\ Elsewhere

-----------------------------------------------------------------------------
(***************************************************************************)
(* The user, other devices, the operator.                                  *)
(***************************************************************************)

LockTab(t) ==
  /\ TasksOf(t, None, NoTask, Wiped)
  /\ vault' = [vault EXCEPT ![t] = None]
  /\ busy' = [busy EXCEPT ![t] = FALSE]
  /\ Locally

LockButton(t) ==
  /\ ~Running(t)
  /\ vault[t] # None /\ ~busy[t]
  /\ LockTab(t)

\* The Create and Sign in buttons lock the vault too, and stay enabled while
\* a function has disabled the Lock button.
SwitchMode(t) ==
  /\ ~Running(t)
  /\ vault[t] # None /\ busy[t]
  /\ LockTab(t)

\* A device with its own storage writes, if it could verify the whole chain.
OtherDeviceWrites ==
  /\ \A i \in DOMAIN server : server[i].key = "vault"
  /\ Len(server) < MaxChain
  /\ \E r \in Revs \ used :
       /\ used' = used \cup {r}
       /\ server' = Append(server, [rev |-> r, key |-> "vault"])
  /\ UNCHANGED <<checkpointVars, restores, signIns, vault, busy, task>>

\* The server goes back to an earlier state of its chain.
Restore ==
  /\ restores < MaxRestores
  /\ restores' = restores + 1
  /\ \E n \in 0..(Len(server) - 1) : server' = SubSeq(server, 1, n)
  /\ UNCHANGED <<checkpointVars, used, signIns, vault, busy, task>>

-----------------------------------------------------------------------------
Starts(w) == SignIn(w) \/ SyncButton(w) \/ SaveButton(w) \/ DeleteButton(w)

Resume(w) ==
  \/ ListVaults(w) \/ ListFails(w) \/ OpenVault(w)
  \/ FetchPage(w) \/ FetchFails(w)
  \/ ApplyChange(w) \/ RejectChange(w) \/ NextPage(w) \/ LastPage(w)
  \/ ComputeMac(w) \/ ComputeHeadHash(w) \/ FetchCsrf(w)
  \/ PostChange(w) \/ WriteFails(w)
  \/ ApplyOwnChange(w) \/ VerifyOwnChange(w)
  \/ Persist(w) \/ StorageCall(w) \/ CommitReplay(w) \/ PersistRefused(w)

NextClient ==
  \/ \E w \in Writers : Starts(w) \/ Resume(w)
  \/ \E t \in Tabs : LockButton(t) \/ SwitchMode(t)
  \/ OtherDeviceWrites
  \/ Restore

SpecClient == InitClient /\ [][NextClient]_allVars

-----------------------------------------------------------------------------
(***************************************************************************)
(* Properties.                                                             *)
(***************************************************************************)

Phases ==
  {"idle", "list", "decrypt", "fetch", "verify", "mac", "hash", "csrf", "post",
   "created", "own", "persist", "saving"}

(* Tabs, functions and the server's chain have the shape the code gives them,
   and at most one function per tab is inside its storage calls.            *)
ClientTypeOK ==
  /\ CheckpointTypeOK
  /\ server \in Seq(Change) /\ Len(server) <= MaxChain
  /\ used \subseteq Revs
  /\ restores \in 0..MaxRestores /\ signIns \in 0..MaxSignIns
  /\ busy \in [Tabs -> BOOLEAN]
  /\ vault \in [Tabs -> Opened \cup {None}]
  /\ \A w \in Writers :
       /\ task[w].phase \in Phases
       /\ task[w].ref \in {"none", "current", "detached", "wiped"}
       /\ task[w].ref = "current" => vault[w[1]] # None
       /\ writer[w].phase \in Saving => task[w].phase = "saving"
  /\ \A t \in Tabs, r, s \in Slots :
       r # s => ~(/\ task[<<t, r>>].phase \in {"persist", "saving"}
                  /\ task[<<t, s>>].phase \in {"persist", "saving"})

Authentic(chain) == \A i \in DOMAIN chain : chain[i].key = "vault"

(* No tab ever shows, and no save of a checkpoint ever covers, a change whose
   MAC or head hash was not made with the vault's own integrity key, not even
   a change this browser has made itself while its keys were being wiped, and
   not by a function that is left over with wiped keys.                     *)
TrustsOnlyAuthentic ==
  /\ \A t \in Tabs : vault[t] # None => Authentic(vault[t].chain)
  /\ \A c \in records : Authentic(c.hash)

(* What an open vault shows is already covered by a saved checkpoint: there is
   no freshness that is kept in memory only, whatever function of the tab got
   there and whether its storage calls were interleaved with other tabs'.   *)
OpenIsCheckpointed ==
  \A t \in Tabs :
    vault[t] # None /\ vault[t].chain # <<>> => HeadOf(vault[t].chain) \in accepted

IsPrefixOf(c, d) == Len(c) <= Len(d) /\ SubSeq(d, 1, Len(c)) = c

(* The chain a tab shows passes through the checkpoint it loaded when it was
   unlocked; until the replay has met that checkpoint the tab shows nothing.
   So a server that went back and grew a different chain is noticed, even if
   it did so after its head was first compared.                             *)
MeetsOwnCheckpoint ==
  \A t \in Tabs :
    vault[t] # None /\ vault[t].cp # None =>
      LET v == vault[t] IN
      IF v.verified THEN IsPrefixOf(v.cp.hash, v.chain) ELSE v.chain = <<>>

(* All heads the browser has saved lie on one chain: a sync that does not
   extend the browser's checkpoint is refused, so a fork of the vault never
   gets past it.                                                            *)
CheckpointsOnOneChain ==
  \A c, d \in accepted : IsPrefixOf(c.hash, d.hash) \/ IsPrefixOf(d.hash, c.hash)

(* Every change the server holds can be verified with the vault's integrity
   key, so that the vault stays readable.                                   *)
ServerChainVerifiable == Authentic(server)

(* The controls of a tab are disabled only while one of its functions is on
   its way that enables them again when it ends.  setVaultBusy is a flag and
   not a count, a delete may start under another function, and each function
   enables what any of them has disabled: still no interleaving of locks,
   unlocks, syncs, saves and deletes leaves them disabled with nothing under
   way.                                                                     *)
BusyHasOwner ==
  \A t \in Tabs :
    busy[t] => \E s \in Slots : task[<<t, s>>].phase \notin {"idle", "list", "decrypt"}

=============================================================================
