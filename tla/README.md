# A TLA+ model of password-vault

password-vault is an end-to-end encrypted vault: a Rust service (axum, sqlx,
PostgreSQL) that stores ciphertext it cannot read, and a browser client
(`crates/api/static/app.js`) that encrypts, verifies and remembers. The server
orders changes; the client decides whether to believe the order. This directory
models the parts where concurrency, failure and order decide whether that works,
model-checks them with TLC on small instances, and proves the central ones with
TLAPS for every instance.

All source paths below are relative to the repository root.

## The system

| part | state | operations | what is hard | what makes it correct |
|---|---|---|---|---|
| Vault write API, `crates/api/src/vault.rs` | tables `vaults`, `vault_items`, `vault_item_revisions` | `create_item`, `create_item_revision` | READ COMMITTED transactions of several statements; row locks; waits on uncommitted keys; lost answers; retries with the same ids | one unbroken chain per vault; item rows agree with their revisions; 201 means committed; no lasting lock |
| Vault sync API, `vault.rs` | none of its own | `sync_vault`, `list_vaults` | three SELECTs outside a transaction; paging | a reply is a segment of the chain |
| Checkpoints, `app.js` 1056-1188 | localStorage of the origin, shared by tabs | `loadVaultCheckpoint`, `persistVaultCheckpoint` | no lock across a load and the write after it; a tab that is behind; quota errors | no two heads accepted for one number; nothing accepted is forgotten |
| Browser vault, `app.js` 1190-1702 | `state.vault` of each tab, busy flag | unlock, sync, save, delete, lock, mode switch | every `await` lets another handler run; locking wipes keys in place; the server may be restored and fork | only authentic, checkpointed state is shown; controls come back |
| Registration and enrollment pages, `app.js` 140-330, 1800-2180 | `state` of the page, its forms and buttons, the cookie | register start and finish, sign-in, TOTP, recovery code, enrollment, `continueEnrollment`, resets | a reset does not stop the functions at their awaits; lost answers and second tries; a key that waits for the second factor; a cookie other tabs replace | no account without a saved secret; one account per page; every disabled control has somebody who gives it back |
| Sign-in and MFA, `auth/routes.rs` 827-1834, `auth/totp.rs` | `auth_challenges`, `totp_factors`, `recovery_codes`, `sessions` | `login_finish`, `totp_verify`, `recovery_code_verify`, `totp_enroll_start`, `totp_enroll_confirm` | checks before the transaction; DELETE and INSERT against what others commit; attempts | no step, challenge or recovery code is good twice; a pending factor signs nobody in |
| Sessions and CSRF, `auth/routes.rs` 1402-1500, 2472-2792 | one `sessions` row | load, refresh, revoke, CSRF issue and check, upgrade, logout | each is a statement of its own, by id, with the clock of the request's arrival | idle and absolute limits; an ended session stays ended |
| Registration, challenges, rate limit, `auth/routes.rs` 413-825, 2077-2083, 2804-2928 | `auth_challenges`, `accounts`, `vaults` | `register_start`, `register_finish`, `login_start`, clean-up of expired challenges | count and insert are separate; waits on unique keys | one account per handle; a challenge is answered once; a bounded overshoot |
| SCRAM proof, `auth/scram.rs`, `auth/transcript.rs`, `login_finish` | stored key and salt of `accounts` | `derive_verifier`, `client_proof`, `verify_client_proof`, `login_auth_message` | the account may change between challenge and proof; retries; answers made for another challenge | in comes who knows the secret of the account that was challenged, and nobody else |
| Clean-up of synthetic accounts, `maintenance.rs` | the same | count, dry run, DELETE with cascade to vaults, items and revisions | runs beside everything else, and can deadlock with a vault writer | all of an account or nothing; the report holds |
| Service shell, `main.rs`, `lib.rs`, `db.rs` | the process, the pool of connections | start, serve, graceful shutdown, kill, restart | requests that wait for rows keep connections; transactions outlive their process | the pool never blocks itself; a shutdown ends |
| Configuration, static files, telemetry, tokens and encodings, synthetic journey, Helm chart, k6 | | | | not modelled, see the end |

The browser calls the API over HTTP with a session cookie and a CSRF token;
tabs share only localStorage and the cookie; handlers share only the database.
`PROJECT.json` lists the components, the hazards with their lines, and for every
definition the lines it stands for.

## Modules

* `VaultLog` is the abstract specification of the vault API: per vault a log
  that grows at its end, entries naming the head hash they extend, ids used
  once, an item's entries being a create, updates, and at most one delete.
* `VaultServer` is `vault.rs`. A write handler `h` keeps in `tx[h]` its phase,
  its request and what it has read; `lock[v]` is the `FOR UPDATE` lock of a
  `vaults` row. Statements are actions (`LockForCreate`, `InsertItemRow`,
  `LockItem`, `InsertRevisionRow`, `Commit`, ...); effects on the tables appear
  at `Commit`, as READ COMMITTED makes them visible. An INSERT whose primary key
  another open transaction has inserted waits (`ItemInsertPending`,
  `RevisionInsertPending`). `Commit` may answer 503 although it has committed, and
  `Rollback` covers failing statements, client disconnects and a dying process.
  `sync[r]` is a sync handler between its three reads. Requests are any the
  validators let through: stale, repeated, for foreign vaults.
* `VaultServerProofs` holds the theorems about it. So do `VaultErasureProofs`,
  `ServiceShellProofs`, `SessionLifecycleProofs`, `MfaLifecycleProofs`, `LoginProofs`
  (for `AccountRegistry` too), `EnrollmentFlowProofs` and `VaultClientProofs` (for
  `CheckpointStore` too) for the modules they are named after.
* `CheckpointStore` is `persistVaultCheckpoint` and its loads, one action per load
  and per write, for any number of activations in any tabs. `accepted` is a history
  variable: the heads it has returned for. A load scans the storage key by key
  (`app.js` 1136-1144) while other tabs write. One step is enough for it, because
  records are never removed and the pointer's head is always among them: a scan that
  lets a save go on has met all that was there when it began, so the save might as
  well have gone on then (`Recheck`), and one that refuses has met a record that is
  there when it ends (`RecheckRefuses`). What this takes for granted of the browser
  is under "Not modelled".
* `VaultClient` extends `CheckpointStore` with the tabs. A tab's async functions
  run in slots; `task[w]` is the await a function is at, with the values it
  captured, and its `ref` says whether the vault object it holds is the tab's
  current one, a replaced one (`detached`) or one whose keys were wiped. A head
  hash is the chain it hashes, and a change carries which key its MAC and its hash
  were made with. The server is its chain, which other devices extend and a
  restore from backup may shorten. `busy` is the flag `setVaultBusy` was last called
  with. Save, sync and lock wait for it (`SaveButton`, `SyncButton`, `LockButton`);
  a delete does not (`DeleteButton`), because the item list is outside the form
  that the flag disables and `selectVaultItem` enables Delete again (`app.js` 1752).
  So a delete runs beside a sync, a save or another delete of the same vault object,
  which either may move on under the other, and each `finally` gives back controls
  the other has disabled.
* `MfaLifecycle` is the second factor of one account. A transaction that locks
  all rows it decides on is one action; reads outside it, the unlocked factor read
  of `login_finish`, and the DELETE of `totp_enroll_start` are actions of their own.
* `SessionLifecycle` is one `sessions` row and the requests that use it; `Steps`
  lists what each endpoint does after it has loaded the row, in order.
* `AccountRegistry` is registration, challenges, the rate limit and the
  clean-ups. `register_finish` is split where it may wait.
* `LoginProof` extends it with the stored credentials and with `login_finish` up to
  its verdict. Hashes and MACs are terms, equal only if what went into them is;
  the message is a record because `push_field` writes each field with its name and
  length. It is the module that is run.
* `VaultErasure` extends `VaultServer` with the DELETE of
  `cleanup_synthetic_accounts`: it takes account rows, then cascades vault by vault
  (`TakeVault` waits for a writer's lock), and commits or fails as a whole. Writers
  wait for it in turn: for the vaults row, for a key whose deletion is not committed,
  and in the audit insert for the account row. `BreakDeadlock` is PostgreSQL failing
  one statement of a circle of waits.
* `ServiceShell` extends `VaultServer` with the process and the pool. A request asks
  for a connection for its session check, gives it back, and asks again: a writer
  once, for its whole transaction, a sync for each read. A killed process leaves
  orphaned transactions with their locks, which roll back, or commit if COMMIT had
  been sent. Each `shell` request names its vault when it is accepted; the rest of it
  is chosen where it is first used, which saves states and loses no behaviour.
* `EnrollmentFlow` is the forms of `app.js` before the vault: async functions in
  slots, as in `VaultClient`; a request takes effect (`Serve`) before its answer
  arrives (`Resume`), and may fail before or after (`Fail`). The cookie jar is the
  browser's: `OtherTab` is what other tabs do to it and to the server between any two
  steps of the page. They register accounts and sign in, each of which puts a new
  session into the jar (`Displaced`), and enroll factors with the session they find.
  A request is sent with the cookie of its moment, so a function that has begun with
  one session may go on with another account's.
* `MC*` modules give the constants of the TLC runs.

Operators marked "Slip" are wrong variants of the operator after them, each the
way that code could plausibly be wrong. No specification uses one: they exist to
show that each property notices the error it is there for (`mutants` in
`PROJECT.json`).

## Runs

| run | configuration | checks |
|---|---|---|
| `writers` | 2 write handlers and 1 sync with pages of one, 1 vault, 2 items, 3 revision ids, heads up to 3, an owner and a stranger | `TypeOK`, `SnapshotsStayTrue`, `ChainIntact`, `ItemHistories`, `SyncReplyIsSegment`, refinement of `VaultLog` |
| `erasure` | 2 write handlers, 1 sync, 2 accounts with a vault each and the same ids, a clean-up, fair | `NothingOfErased`, `KeptVaultsWhole`, `RepliesTrueOrRefused`, `WritersAndCleanUpsEnd` |
| `shell` | 2 write handlers and 1 sync on a pool of 2, process started twice, fair | `CreatedIsLogged`, `PoolMakesWay`, `ShutdownEnds` |
| `tabs` | 3 activations, heads 1..3 of 2 rival chains | `NoForkAccepted`, `AcceptedIsRemembered`, `LoadNeverRegresses` |
| `functions` | 1 tab with 2 functions, deletes beside any other included, 3 changes, a restore, 2 sign-ins | `ClientTypeOK`, `TrustsOnlyAuthentic`, `OpenIsCheckpointed`, `MeetsOwnCheckpoint`, `BusyHasOwner` |
| `enrollment` | 2 functions of one page and the other tabs, 2 registrations, 2 sessions, 2 enrollments each | `TypeOK`, `SecretSavedFirst`, `DisabledHasOwner`, `OneAccountUnlessOvertaken` |
| `factors` | 2 handlers, 2 logins, 2 factors, 3 sessions, time steps 0..2 | `TypeOK`, `NoTotpReplay`, `ChallengeSpentOnce`, `RecoveryCodesSpent`, `LoginOnlyAfterConfirmation` |
| `limits` | 2 requests, times 0..4, idle limit 3, absolute limit 4 | `TypeOK`, `LimitsHold`, `RefreshLosesOnlyLag`, `EndedForGood` |
| `accounts` | 2 handlers, 3 challenges, 2 accounts, vaults and secrets, times 0..3 | `LoginTypeOK`, `OvershootBounded`, `ChallengeAnsweredOnce`, `AccountsWhole`, `ProofDecides`, `ReportsHold` |
| `fork`, `wiped`, `replace` | see Findings | each shows that a documented property does not hold |

Why the bounds are enough to be interesting. In `writers` one handler can be at any
statement while the other waits for the row, has read before it, or is retrying; ids run
out, so that inserts meet keys that are taken; and heads reach 3, so that an update, a
delete and a change after a delete all happen. With its one vault the row lock keeps a
second transaction from inserting, so a handler never waits there for a key that is not
committed: those waits occur in `erasure`, whose vaults share ids, and in the proofs.
With pages of one, a sync from head 0 or 1 is empty, partial, exactly a page or one past
it, while commits fall between its reads. In `erasure` each writer can hold its vault
and wait for the other's keys or for the clean-up, which may delete one account or both,
wait for either writer, fail half-way, or come between the reads of the sync; circles of
two and of three occur. In `shell` a pool of 2 serves 3 requests, so that both
connections can wait for one row; two starts let a process meet the locks its
predecessor left. In `tabs` three activations allow a race between two and a late third.
`functions` needs three changes for a checkpoint, a restore and a longer rival chain. In
`enrollment` two functions overtake each other and two registrations mix their secrets,
payloads and keys; two sessions allow a second sign-in, and another tab's session for
the account that is not on the page, before, between or after the requests of the page's
own. In `factors` the codes of steps two apart coincide, so one code matches two
candidates; two attempts per challenge let TOTP and recovery attempts mix. In `limits`
the idle limit is shorter than the absolute one and both pass. In `accounts` the limit
is 1 within a window of 2, so that the limit, the overshoot and the end of the window
all occur; accounts get old enough to be cleaned up, and registered again with another
secret, while requests that have seen them are under way. With one handle two
registrations meet at the handle; that they meet at a vault id instead takes two handles
and is in the model, but not in this instance. That handle is a synthetic one, so that
clean-ups have what to delete; `OvershootBounded` excepts login challenges of such
handles, and so the run checks it for register challenges, and `OvershootSafe` proves it
for the others.

Bounds named in the modules: `MaxHead`, `MaxChain`, `MaxRestores`, `MaxSignIns`,
`MaxTime`, `MaxStep`, `MaxStarts`, `MaxSessions`, `MaxFactors` end the state space.
`MaxLag` is an assumption: how long a request takes. Only `RefreshLosesOnlyLag` and
`OvershootBounded` mention it, and `ReportsHold` relies on a clean-up running for
less than the minimum age (`RegistryAssumption`; hours in the code).
`CHECK_DEADLOCK FALSE` is set where histories of random ids, the last start or the
end of time make the model stop.

Fairness. `WritersAndCleanUpsEnd` assumes that PostgreSQL runs the statements of
open transactions and queues those that wait, so that later comers do not pass them
over for ever (strong fairness of each writer's next statement and of the cascade
reaching each vault), that the DELETE commits when it has all it needs, and that
deadlocks are broken (weak fairness). It does not assume that anything rolls back
otherwise. `ShutdownEnds` assumes that a request gets a connection or times out,
that statements run (strong fairness where they wait for a row, weak elsewhere), that
PostgreSQL notices a broken connection, and that `main` returns when all requests
have ended. In that run a write names its owner's vault only, so that the row it
waits for is known. Nothing is assumed of users, other devices, operators,
restores, starts, shutdowns or kills.

That a control comes back is stated as safety: `BusyHasOwner` and
`DisabledHasOwner` say that whenever one is disabled, a function is under way whose
every way out enables it, or there is another way on. It needs no fairness, and it
finds the same errors.

## Findings

* `wiped`: a save reads `vault.integrityKey` again after each await
  (`app.js` 1317). Switching between Create and Sign in stays possible during a
  save; it locks the vault, which zeroes that key in place, and the save goes on to
  post a MAC and a head hash made with zeros. The server accepts, and no
  client can replay the vault past that change. `TrustsOnlyAuthentic` shows that
  clients do refuse it.
* `fork`: checkpoints are compared by number, and by hash only for equal numbers,
  and an open tab does not read what other tabs have saved since. After a restore
  two tabs can save heads of different chains, although
  `docs/security/revision-freshness.md` requires a chain that extends the local
  checkpoint. Within one tab `MeetsOwnCheckpoint` holds.
* `replace`: `totp_enroll_start` checks the session before its transaction, and its
  DELETE also takes a verified factor. A repeated start that is overtaken by the
  confirmation replaces the factor just verified by a pending one, at the hand of a
  session that is no longer enrolling.

Two more divergences are visible in the models without a run of their own. A
pending factor is not bound to the session that started it
(`docs/auth-mfa-lifecycle.md` 68 says it is): `Confirm` takes any enrolling
session, as `routes.rs` 1637 does. And `GET /v1/csrf` may store a token after the
upgrade that was to rotate it (`docs/adr/0005-mfa-session-and-csrf-policy.md` 168):
`SetCsrf` of a request loaded before `Upgrade` may follow it (`routes.rs` 1452).

Behaviour worth knowing, about which neither docs nor tests say anything:

* A writer that reaches its audit insert while a clean-up holds its account, but not
  yet its vault, is in a deadlock with it. PostgreSQL fails one of the two: the
  writer answers 503 or the clean-up reports an error. Nothing is half deleted.
* A sync whose vault is deleted between its reads answers with no changes and a head
  they do not reach. The client refuses it (`app.js` 1516).
* No handler of vaults or accounts asks for a second connection while it holds one,
  which is what `PoolMakesWay` rests on.
* After one completed confirmation the TOTP form stays disabled (`app.js` 2101), so
  enrolling again in the same page takes a reload: the exception `DisabledHasOwner`
  makes (`confirmed`).
* A registration that is overtaken by the start of another one, and answered after
  that one's secret is shown, drops the other's payload: `OneAccountUnlessOvertaken`
  speaks of pages no function was overtaken on.
* `submitLoginRecoveryCode` forgets its challenge once the code is accepted
  (`app.js` 2051); if the request after that fails, the code is spent and the page
  offers no retry but a new sign-in. A second failure of `continueEnrollment` leaves
  its copy and download buttons disabled.
* A delete can start while another function of the tab is under way, as said above,
  and `setVaultBusy` is a flag and not a count: the first of the two to end enables
  all controls while the other goes on. `BusyHasOwner` holds because nothing counts
  on the flag; what two such functions may do to the vault is bounded by
  `TrustsOnlyAuthentic`, `OpenIsCheckpointed` and `MeetsOwnCheckpoint`.
* Tabs share the cookie. If another tab signs in to b after this page has registered
  a, "Retry enrollment" (`app.js` 1951, 1759-1765) asks for the CSRF token of b's
  session and enrolls a factor of b beside the secret of a. Neither page nor server
  compares the two accounts. `OneAccountUnlessOvertaken` therefore speaks of the
  factor only until another tab has changed the cookie (`displaced`); of the secret,
  the payload, the unlock key, the challenge and the open vault it speaks always,
  and `ResumeVaults` shows why: the pending key opens only its own account's vault.
* A login that has read no confirmed factor (`routes.rs` 985) gets an enrolling
  session although another request confirms one before it commits.
  `LoginOnlyAfterConfirmation` is about codes, not about that session; the model
  admits it, and neither code nor docs rule it out.
* A vault locked while an unlock is at its awaits is opened again when the unlock
  goes on (`app.js` 1242): the unlock has captured its key.

## Proofs

Every safety property of a passing run is a theorem. Eight modules hold them, each about
the specification a run checks, for every value of its constants that satisfies the
ASSUME of its module. Those assumptions are what the database schema and the validators
give (owners and genesis hashes exist, requests are validated, `None` is none of the
values and no number), relations between durations, which are named below where they
matter, in `EnrollmentFlow` that its numbers are natural, in `VaultClient` that the head
of every chain within `MaxChain` is among the checkpoints that can be saved, and in
`ServiceShell` that a pool has at least one connection and no request both writes and
syncs. No set of handlers, requests, vaults or accounts is assumed to be finite, but for
those a bound counts: the request handlers of `LoginProof`, with its tables. In every
proof the type invariant comes first, an inductive invariant strengthens what the run
checks, and each action has a lemma that says it keeps it. Every such invariant was
checked by TLC before it was proved, on the constants of the module's run; so were the
properties below that no run lists (`KeptHistoriesGrow`, `ShownAdvances`, `RequestsOK`).

`VaultServerProofs`, for any sets of vaults, items, ids, requests and handlers:

* `TypeCorrect`: `TypeOK` is inductive as it stands.
* `SnapshotsSafe`: `SnapshotsStayTrue` is the heart of the argument. It says that an
  open transaction holds its vault's lock, that the head and the item it has read are
  still what the tables hold, and that no two open transactions have inserted the same
  key. It is inductive together with `TypeOK`: a commit changes only the vault whose
  lock it holds, and keys only its own.
* `ChainSafe`, `HistoriesSafe`, `CreatedSafe`: `ChainIntact`, `ItemHistories` and
  `CreatedIsLogged` follow by induction on top of it: at `Commit` what was checked
  against the snapshot still holds, so the new row extends the head and the item's
  newest revision. Without `SnapshotsStayTrue` none is inductive.
* `SyncSafe`: the three reads of a sync are not one snapshot, but each leaves something
  that stays true. `SyncIn` says so: a head that was read remains a head the chain has
  had (`HeadWas`), and a cursor that has matched goes on matching, because chains only
  grow. At the last read the rows after the cursor are thus a segment of the chain
  whatever was committed between.
* `Refinement`: `Spec => ImplementsVaultLog`. The mapping reads the log off the
  revisions in `head_seq` order; `Commit` is `Extend`, all else stutters. `VaultLog`
  states first that the log has grown (`Grows`), which the same step gives and lets TLC
  decide most stutters at once.

The invariant is stated for a set of live vaults (`InvIn(live)`, `SyncIn(live)`), with
all vaults for these theorems, so that `VaultErasureProofs` can use its lemmas.

`VaultErasureProofs`: `ErasureComplete`, `KeptWhole`, `RepliesSafe`, `KeptOnlyGrows`. A
writer or sync beside the clean-up does what it does in `VaultServer`, so its lemmas
apply with the vaults that are kept. New are the steps of the DELETE: it holds the lock
of every vault it takes, so that no open transaction is in one, and its commit empties
exactly those. `RepliesVerify` is there because a reply that was true when it was given
says nothing of a vault deleted since. `KeptOnlyGrows` says the same of steps: no
clean-up, finished or failed, takes or rewrites a row of a vault that stays, and a vault
gains only a row that names its head (`KeptHistoriesGrow`). It comes from `WriterRows`:
a step leaves the revisions alone, is the one commit of the clean-up, or is a writer's
commit.

`ServiceShellProofs`, for any requests, any size of pool and any number of starts:
`RequestsKeepPlaces`, `PoolSafe`, `SnapshotsSurviveKills`, `VaultsSurviveKills`,
`CreatedSurvivesKills`, `ShellSyncSafe`, `ShellRefinement`. A step of the process is a
step of `VaultServer`, or drops sync handlers, or leaves the server alone
(`ShellMovesServer`); a kill in particular changes who ends a transaction and nothing
the transaction has read. So the invariants of `VaultServerProofs` carry over, and
with them `CreatedIsLogged` and the refinement of `VaultLog`: the commit of an orphan
is one more `Extend`. `PoolMakesWay` needs `RequestsOK`: a
request holds one connection or none, has one exactly while a statement of it may run,
and a writer that still waits for one has no transaction open. If the pool is all out,
someone holds a connection (`FullPoolIsHeld`). If what it runs waits for a row, the lock
is of an open transaction, by `SnapshotsStayTrue`; an open transaction that waits for a
key waits for one that is further on: one that inserts its revision or commits, and in
turn one that commits (`OpenMakesWay`). The last of them either has a connection
itself and can run, or is an orphan, which PostgreSQL ends.

`SessionLifecycleProofs`: `TypeCorrect`, `LimitsSafe`, `RefreshSafe`, `EndedSafe`.
`SessionInv` ties every date to the one creation of the session: the row's absolute
limit and that of every request let in are `born + AbsoluteTtl`, the idle limit is at
most one lifetime after the last use and at least that less `MaxLag`, and clocks of
requests trail the real one by at most `MaxLag`. `LimitsHold` speaks of the requests
let in, and says nothing of the row the next one will load.

`MfaLifecycleProofs`: `TypeCorrect`, `ReplaySafe`, `ChallengesSafe`, `RecoverySafe`,
`ConfirmedFirst`, for any codes a seed generates (`Hotp` is a parameter). `MfaInv` adds
to the four properties that the row's last accepted step is ahead of all accepted
steps of its factor (`FactorAhead`), that ids of factors and sessions are new when
they are drawn, and that a challenge that can still be answered has attempts left.
The replay theorem needs no bound on how far a request's clock is behind. Sessions
and challenges are assumed to have different ids.

`LoginProofs`: about `LoginSpec`, which contains `AccountRegistry`. `LoginInv` has two
halves. `TablesInv`: rows are those that were issued or registered, references are
whole, a handle has one account, a credential is its registration's. `RequestsInv`:
what each request holds (its lock on a challenge that is open, the key it has
inserted, the account it has found, the proof it has checked) and that no two
requests hold the same. `LoginTypeCorrect`, `RegistrySafe`, `AnsweredOnce` and
`ProofSafe` follow. `ReportsSafe` needs `MaxLag <= MinAge`: a clean-up ends
before an account that it did not count has the age to be deleted.
`OvershootSafe` counts: of the challenges issued for one handle and type within
`Window - MaxLag`, those that a request has seen when it counted are below the
limit, and each other one is of a request that was under way with it. `Rates` says
this of the table and all requests at once, and `RateInv` is inductive together with
`LoginInv`, with `MaxLag <= Window <= Ttl`: a challenge stays in the table while it
counts. It excludes login challenges of synthetic handles: deleting an account
deletes its login challenges, and with them the count. (Within the bounds of the
run they do not outnumber the limit; the statement without the exception is false in
larger instances.)

`EnrollmentFlowProofs`: `TypeCorrect`, `SecretSafe`, `ControlsOwned`, `OneAccountSafe`,
for any number of functions under way. `FlowInv` says what each function holds at
its await (`TaskOK`), and then, per theorem: that the payload a page has is of the
secret it shows, and a ticked secret is a saved one (`SavedInv`); that a submit
button is disabled exactly while its one function is under way, and the second-factor
form is hidden and enabled while a proof is checked (`ControlsInv`); that there is one
account to which the page and every request that carries something of an account
belong, until a reset overtakes a function (`OneAccountInv`). As long as no other tab
has changed the cookie, the sessions of requests and answers, and the factor that is
enrolled, are that account's too (`PageOf`, `TaskOf`); the steps of other tabs keep the
first half and end the second (`OtherTabStep`). The properties themselves speak of the
page only and are not inductive: a function at its await is about to write the page.

`VaultClientProofs` begins with `CheckpointStore`, for any number of activations and any
heads (these proofs cite `CheckpointAssumption` alone): `NoForkSafe`, `RememberedSafe`,
`LoadsAdvance`. The inductive invariant `CheckpointInv` says that the pointer, every
accepted head and the head of every activation past its record are among the records,
which only grow, and that the accepted heads together with those of activations about to
write the pointer never hold two of one number. `NoForkAccepted` alone is not inductive:
it says nothing of an activation that has passed its second load.

Then come the tabs, for any tabs, slots, changes, pages and restores:
`ClientTypeCorrect`, `TrustSafe`, `OpenSafe`, `CheckpointMet`, `ControlsReturn`. The
properties speak of open vaults and of records, and a function at its await is about to
write both; `ClientInv` says what each function holds (`TaskOK`). A replay is authentic,
and has met its checkpoint or is still before it (`OpenedOK`). A function inside its
storage calls saves the head of its own replay, and that replay has met its checkpoint
(`SaveOK`): its checkpoint is a record, because a load returns records only
(`LoadedStored`) and these only grow, so a replay still before it would be refused by
the first load, although `VerifyOwnChange` does not look. Because a delete runs beside
other functions, the object a function replays may be moved on by another: a replay of
an own change may thus lie before the checkpoint of its object or beside it, and is
then refused by the storage (`Refuted`, `ReplayOK`), and a function that holds the open
vault replays an object with that vault's checkpoint (`HoldsOK`). What is open is a
replay whose head was accepted, or the genesis head (`VaultOK`). Beside that, a step of one function
leaves the others as they are but for the object they hold (`SameTask`), which is the
one thing a lock, or an unlock, of the tab can do to them. The invariant contains
`CheckpointInv`, and `ClientUsesStore` proves that every step of the tabs is one of
`CheckpointStore` or does not touch the storage; so `ClientKeepsSaves` and
`ClientLoadsAdvance`: what is proved of the storage calls alone holds in the browser.

`ShownSafe` is about one tab and time: what an open vault shows is never replaced by a
shorter chain (`ShownAdvances`), until it is closed or opened anew. Between the second
load of a save and the assignment to `state.vault` the replay must be at least as long
as what the tab shows (`Ahead`): that was saved before (`OpenIsCheckpointed`), so the
second load has seen it and refuses a shorter one (`RecheckAhead`), and what another
function of the tab commits meanwhile cannot overtake it, because only one is inside its
storage calls (`SavingStands`). The stronger statement, that the new chain extends the
old one, is false: that is the `fork` finding.

Only model-checked are the liveness properties `WritersAndCleanUpsEnd` and
`ShutdownEnds`, which are out of the prover's reach, and, in the runs that expect a
violation, the documented statements that do not hold.

## Not modelled

* Cryptography is idealised: hashes and MACs have no collisions, random ids and
  tokens do not repeat, HOTP is any function, sealing of TOTP seeds is left out.
  Salt and iteration limits of SCRAM are parameters with one value, and the server
  signature is sent by no handler.
* `tokens.rs` and `encoding.rs` are a few lines on library calls.
* `list_vaults` and other pure reads appear only through what a client does with
  them. Envelope contents, audit rows, metrics and wording are left out; the wait
  an audit insert can run into is in `VaultErasure`.
* Configuration parsing, routing, static files, headers, readiness texts, telemetry:
  no property tells their states apart.
* The order in which a browser applies the cookies of two answers, as in the race of
  `GET /v1/session` with an upgrade (`routes.rs` 1415), and answers that clear the
  cookie. Of another tab `EnrollmentFlow` has the answers that set the cookie, and one
  step for an enrollment's start and confirmation; what is on that tab's page is the
  same module again.
* Below the loads and writes of `CheckpointStore`: storage calls of all tabs are taken
  to have one order, and a scan by index (`app.js` 1136-1144) to miss no record that
  was there when it began. The probe key that `checkpointStorage` writes and removes
  (1059-1060) is left out; a browser in which its removal by another tab shifts the
  indices under a running scan could hide a record from it. A load's head is that of
  one moment.
* Device revocation has a column and no endpoint.
* The synthetic journey is a sequential test client, and Helm chart, k6 scenarios
  and CI are configuration.

## Plan

Done, in this order: `VaultLog` and `VaultServer` with proofs, `CheckpointStore`
with proofs, `VaultClient`, `MfaLifecycle`, `SessionLifecycle`, `AccountRegistry`,
`VaultErasure`, `EnrollmentFlow`, `LoginProof`, `ServiceShell`.

Proved, in this order: `SessionLifecycle`, `SyncReplyIsSegment`, `VaultErasure`,
`MfaLifecycle`, `AccountRegistry` and `LoginProof`, `EnrollmentFlow`, `VaultClient`,
`ServiceShell`, and that shown vaults and kept histories only advance.

Left: the sealing of TOTP seeds, and the parts listed above as not modelled, should
one of them come to keep state.
