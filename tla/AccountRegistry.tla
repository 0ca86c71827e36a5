-------------------------- MODULE AccountRegistry --------------------------
(***************************************************************************)
(* Accounts and the challenges that lead to them: register_start,          *)
(* register_finish and login_start (crates/api/src/auth/routes.rs), with   *)
(* the clean-up of expired challenges they begin with and their rate       *)
(* limit, and the operator's clean-up of synthetic accounts                *)
(* (crates/api/src/maintenance.rs).                                        *)
(*                                                                         *)
(* The start handlers use no transaction: each statement is a step.        *)
(* register_finish is one, split where it may wait for another one.        *)
(***************************************************************************)
EXTENDS Integers, FiniteSets

CONSTANTS
  Handlers,       \* requests, and clean-ups, that may run at the same time
  Handles,        \* normalized login handles
  Synthetic,      \* the handles the clean-up's pattern matches
  ChallengeIds,   \* random challenge ids
  Accounts,       \* random account ids
  VaultIds,       \* vault ids, chosen by clients
  Limit,          \* AUTH_CHALLENGE_RATE_LIMIT
  Window,         \* AUTH_CHALLENGE_RATE_LIMIT_WINDOW
  Ttl,            \* REGISTER_CHALLENGE_TTL and LOGIN_CHALLENGE_TTL, by type
  MinAge,         \* PV_SYNTHETIC_CLEANUP_MIN_AGE_HOURS
  MaxDelete,      \* PV_SYNTHETIC_CLEANUP_MAX_DELETE
  MaxTime,        \* bound of the model: the end of time
  MaxLag,         \* bound of the model: how long a request may take
  None

Types == {"register", "login"}

AccountRow == [handle : Handles, created : Nat]

ChallengeRow ==
  [type : Types, handle : Handles, account : Accounts \cup {None},
   created : Nat, expires : Nat, consumed : BOOLEAN]

ASSUME RegistryAssumption ==
  /\ Synthetic \subseteq Handles
  /\ Limit \in Nat \ {0} /\ MaxDelete \in Nat \ {0}
  /\ Window \in Nat /\ MaxTime \in Nat /\ MaxLag \in Nat
  /\ \A t \in Types : Ttl[t] \in Nat /\ Window <= Ttl[t]
  /\ MinAge \in Nat /\ MaxLag <= MinAge /\ MaxLag <= Window
  /\ IsFiniteSet(Handlers) /\ IsFiniteSet(ChallengeIds) /\ IsFiniteSet(Accounts)
  /\ None \notin Accounts \cup AccountRow \cup ChallengeRow

VARIABLES
  clock,
  challenge,   \* auth_challenges
  account,     \* accounts, with the rows that belong to each
  vault,       \* vaults: the owner, or None
  req,         \* requests and clean-ups under way
  issued,      \* history: every challenge issued, and when
  registered   \* history: which challenge led to which account

vars == <<clock, challenge, account, vault, req, issued, registered>>

Idle == [phase |-> "idle", since |-> 0]

Init ==
  /\ clock = 0
  /\ challenge = [c \in ChallengeIds |-> None]
  /\ account = [a \in Accounts |-> None]
  /\ vault = [v \in VaultIds |-> None]
  /\ req = [h \in Handlers |-> Idle]
  /\ issued = {} /\ registered = {}

\* A fresh random id: which of the unused ones it is makes no difference.
IsFresh(id, used, ids) ==
  LET unused == ids \ used IN id \in unused /\ id = CHOOSE i \in unused : TRUE

-----------------------------------------------------------------------------
Rows == { c \in ChallengeIds : challenge[c] # None }

Finishing == {"account", "vault", "commit"}

\* The phases of login_finish are those of LoginProof.
Holding == Finishing \cup {"proof", "session"}

\* Slip: SELECT without FOR UPDATE.
NeverLocked(c) == FALSE

\* A register_finish or a login_finish under way holds the challenge row.
Locked(c) == \E h \in Handlers : req[h].phase \in Holding /\ req[h].challenge = c

Overdue == { c \in Rows : challenge[c].expires < clock }

\* cleanup_expired_challenges; the DELETE waits for locked rows.
Start(h, type, handle) ==
  /\ req[h].phase = "idle"
  /\ \A c \in Overdue : ~Locked(c)
  /\ challenge' = [c \in ChallengeIds |-> IF c \in Overdue THEN None ELSE challenge[c]]
  /\ req' = [req EXCEPT ![h] =
                [phase |-> "count", since |-> clock, type |-> type, handle |-> handle]]
  /\ UNCHANGED <<clock, account, vault, issued, registered>>

Recent(type, handle) ==
  { c \in Rows : /\ challenge[c].type = type /\ challenge[c].handle = handle
                 /\ challenge[c].created >= clock - Window }

\* Slip: one too many.
UnderLimitOrAt(type, handle) == Cardinality(Recent(type, handle)) <= Limit

UnderLimit(type, handle) == Cardinality(Recent(type, handle)) < Limit

\* enforce_challenge_rate_limit lets it pass.  login_start goes on to look the
\* account up; register_start computes expires_at.
Permit(h) ==
  /\ req[h].phase = "count"
  /\ UnderLimit(req[h].type, req[h].handle)
  /\ req' = [req EXCEPT ![h] =
               IF req[h].type = "login" THEN [req[h] EXCEPT !.phase = "metadata"]
               ELSE [phase |-> "insert", since |-> req[h].since, type |-> req[h].type,
                     handle |-> req[h].handle, now |-> clock, account |-> None]]
  /\ UNCHANGED <<clock, challenge, account, vault, issued, registered>>

RateLimited(h) ==
  /\ req[h].phase = "count"
  /\ ~UnderLimit(req[h].type, req[h].handle)
  /\ req' = [req EXCEPT ![h] = Idle]
  /\ UNCHANGED <<clock, challenge, account, vault, issued, registered>>

\* The account of a handle, if it has one.
AccountOf(handle) ==
  { a \in Accounts : account[a] # None /\ account[a].handle = handle }

\* load_login_metadata; an unknown handle gets synthetic metadata instead.
LoadMetadata(h) ==
  LET found == AccountOf(req[h].handle) IN
  /\ req[h].phase = "metadata"
  /\ req' = [req EXCEPT ![h] =
               [phase |-> "insert", since |-> req[h].since, type |-> req[h].type,
                handle |-> req[h].handle, now |-> clock,
                account |-> IF found = {} THEN None ELSE CHOOSE a \in found : TRUE]]
  /\ UNCHANGED <<clock, challenge, account, vault, issued, registered>>

\* Slip: no foreign key from challenges to accounts.
NoReference(a) == TRUE

\* The foreign key of auth_challenges.account_id.
ReferenceHolds(a) == a # None => account[a] # None

\* insert_auth_challenge
InsertChallenge(h, c) ==
  LET r == req[h] IN
  /\ r.phase = "insert"
  /\ ReferenceHolds(r.account)
  /\ IsFresh(c, { i.id : i \in issued }, ChallengeIds)
  /\ challenge' = [challenge EXCEPT ![c] =
       [type |-> r.type, handle |-> r.handle, account |-> r.account,
        created |-> clock, expires |-> r.now + Ttl[r.type], consumed |-> FALSE]]
  /\ issued' = issued \cup {[id |-> c, type |-> r.type, handle |-> r.handle, at |-> clock]}
  /\ req' = [req EXCEPT ![h] = Idle]
  /\ UNCHANGED <<clock, account, vault, registered>>

-----------------------------------------------------------------------------
(***************************************************************************)
(* register_finish.                                                        *)
(***************************************************************************)

\* SELECT ... FOR UPDATE of an unconsumed, unexpired register challenge.
FinishLock(h, c, v) ==
  /\ req[h].phase = "idle"
  /\ c \in Rows /\ challenge[c].type = "register"
  /\ ~Locked(c)
  /\ ~challenge[c].consumed /\ challenge[c].expires >= clock
  /\ req' = [req EXCEPT ![h] = [phase |-> "account", since |-> clock, challenge |-> c, vault |-> v]]
  /\ UNCHANGED <<clock, challenge, account, vault, issued, registered>>

Others(h, phases) == { o \in Handlers \ {h} : req[o].phase \in phases }

Handle(h) == challenge[req[h].challenge].handle

\* Slip: no unique index on the handle; it is looked up instead.
NoHandlePending(h) == FALSE

\* Another transaction has inserted the handle and not committed: INSERT waits.
HandlePending(h) == \E o \in Others(h, {"vault", "commit"}) : Handle(o) = Handle(h)

VaultPending(h) == \E o \in Others(h, {"commit"}) : req[o].vault = req[h].vault

InsertAccount(h) ==
  /\ req[h].phase = "account"
  /\ ~HandlePending(h)
  /\ AccountOf(Handle(h)) = {}
  /\ req' = [req EXCEPT ![h].phase = "vault"]
  /\ UNCHANGED <<clock, challenge, account, vault, issued, registered>>

InsertVault(h) ==
  /\ req[h].phase = "vault"
  /\ ~VaultPending(h)
  /\ vault[req[h].vault] = None
  /\ req' = [req EXCEPT ![h].phase = "commit"]
  /\ UNCHANGED <<clock, challenge, account, vault, issued, registered>>

\* 23505 for the handle or for the vault id: registration_unavailable, and the
\* challenge stays usable.
Unavailable(h) ==
  /\ \/ req[h].phase = "account" /\ ~HandlePending(h) /\ AccountOf(Handle(h)) # {}
     \/ req[h].phase = "vault" /\ ~VaultPending(h) /\ vault[req[h].vault] # None
  /\ req' = [req EXCEPT ![h] = Idle]
  /\ UNCHANGED <<clock, challenge, account, vault, issued, registered>>

\* Slip: the challenge is left open.
ConsumedNot(c) == challenge

Consumed(c) == [challenge EXCEPT ![c].consumed = TRUE]

\* Keyset, device, key wrap, session and audit event go with the account row.
FinishCommit(h, a) ==
  LET c == req[h].challenge IN
  /\ req[h].phase = "commit"
  /\ IsFresh(a, { r.account : r \in registered }, Accounts)
  /\ account' = [account EXCEPT ![a] = [handle |-> Handle(h), created |-> req[h].since]]
  /\ vault' = [vault EXCEPT ![req[h].vault] = a]
  /\ challenge' = Consumed(c)
  /\ registered' = registered \cup {[challenge |-> c, account |-> a]}
  /\ req' = [req EXCEPT ![h] = Idle]
  /\ UNCHANGED <<clock, issued>>

-----------------------------------------------------------------------------
(***************************************************************************)
(* cleanup_synthetic_accounts.                                             *)
(***************************************************************************)

\* Slip: the cutoff is taken when the statement runs.
MatchedNow(cutoff) ==
  { a \in Accounts : account[a] # None /\ account[a].handle \in Synthetic
                     /\ account[a].created <= clock - MinAge }

\* The pattern matches and the account is older than the cutoff.
Matched(cutoff) ==
  { a \in Accounts : account[a] # None /\ account[a].handle \in Synthetic
                     /\ account[a].created < cutoff }

CountSynthetic(h) ==
  /\ req[h].phase = "idle"
  /\ req' = [req EXCEPT ![h] = [phase |-> "delete", since |-> clock, cutoff |-> clock - MinAge,
                                matched |-> Cardinality(Matched(clock - MinAge))]]
  /\ UNCHANGED <<clock, challenge, account, vault, issued, registered>>

\* The oldest ones, at most MaxDelete.
Candidates(cutoff) ==
  { S \in SUBSET Matched(cutoff) :
      /\ Cardinality(S) = IF Cardinality(Matched(cutoff)) <= MaxDelete
                          THEN Cardinality(Matched(cutoff)) ELSE MaxDelete
      /\ \A a \in S, b \in Matched(cutoff) \ S : account[a].created <= account[b].created }

\* ON DELETE CASCADE
Cascaded(S) ==
  /\ account' = [a \in Accounts |-> IF a \in S THEN None ELSE account[a]]
  /\ vault' = [v \in VaultIds |-> IF vault[v] \in S THEN None ELSE vault[v]]
  /\ challenge' = [c \in ChallengeIds |->
       IF c \in Rows /\ challenge[c].account \in S THEN None ELSE challenge[c]]

\* The cascade waits for the challenges a login_finish has locked.
DeleteSynthetic(h) ==
  /\ req[h].phase = "delete"
  /\ \E S \in Candidates(req[h].cutoff) :
       /\ \A c \in Rows : challenge[c].account \in S => ~Locked(c)
       /\ Cascaded(S)
  /\ req' = [req EXCEPT ![h] = Idle]
  /\ UNCHANGED <<clock, issued, registered>>

-----------------------------------------------------------------------------
\* A dry run stops after the count; a statement fails; the process dies.
Stop(h) ==
  /\ req[h].phase # "idle"
  /\ req' = [req EXCEPT ![h] = Idle]
  /\ UNCHANGED <<clock, challenge, account, vault, issued, registered>>

Tick ==
  /\ clock < MaxTime
  /\ \A h \in Handlers : req[h].phase # "idle" => clock < req[h].since + MaxLag
  /\ clock' = clock + 1
  /\ UNCHANGED <<challenge, account, vault, req, issued, registered>>

Next ==
  \/ \E h \in Handlers :
       \/ \E type \in Types, handle \in Handles : Start(h, type, handle)
       \/ Permit(h) \/ RateLimited(h) \/ LoadMetadata(h)
       \/ \E c \in ChallengeIds : InsertChallenge(h, c)
       \/ \E c \in ChallengeIds, v \in VaultIds : FinishLock(h, c, v)
       \/ InsertAccount(h) \/ InsertVault(h) \/ Unavailable(h)
       \/ \E a \in Accounts : FinishCommit(h, a)
       \/ CountSynthetic(h) \/ DeleteSynthetic(h)
       \/ Stop(h)
  \/ Tick

Spec == Init /\ [][Next]_vars

-----------------------------------------------------------------------------
(***************************************************************************)
(* Properties.                                                             *)
(***************************************************************************)

(* Rows have their columns, and a registration under way keeps its challenge:
   it is there, open, of the right type, and no other registration's.       *)
TypeOK ==
  /\ clock \in 0..MaxTime
  /\ challenge \in [ChallengeIds -> ChallengeRow \cup {None}]
  /\ account \in [Accounts -> AccountRow \cup {None}]
  /\ vault \in [VaultIds -> Accounts \cup {None}]
  /\ \A h \in Handlers : req[h].phase \in Finishing =>
       /\ req[h].challenge \in Rows
       /\ challenge[req[h].challenge].type = "register"
       /\ ~challenge[req[h].challenge].consumed
       /\ \A o \in Others(h, Finishing) : req[o].challenge # req[h].challenge

Span == Window - MaxLag

\* A clean-up of synthetic accounts takes the login challenges of theirs along.
OutOfReach(i) == i.type = "register" \/ i.handle \notin Synthetic

(* The rate limit counts and inserts in separate statements, and the clean-up
   of expired challenges deletes rows it counts.  Still, whatever the
   interleaving, no handle is given more challenges of a type than the limit,
   plus one for every other request under way at that time, within a window
   (less the time a request may take), but for the login challenges that go
   away with a synthetic account and are no longer counted.                  *)
OvershootBounded ==
  \A i \in issued : OutOfReach(i) =>
    Cardinality({ j \in issued : /\ j.type = i.type /\ j.handle = i.handle
                                 /\ i.at <= j.at /\ j.at <= i.at + Span })
      <= Limit - 1 + Cardinality(Handlers)

(* A handle has at most one account, whoever registers it at the same time; a
   challenge names an account that exists and has the challenge's handle; and
   every account has exactly one vault.  All of it although synthetic accounts
   go away between the look-up of login_start and its INSERT, or while another
   registration takes the handle.                                           *)
AccountsWhole ==
  /\ \A handle \in Handles : Cardinality(AccountOf(handle)) <= 1
  /\ \A c \in Rows : challenge[c].account # None =>
       challenge[c].account \in AccountOf(challenge[c].handle)
  /\ \A v \in VaultIds : vault[v] # None => account[vault[v]] # None
  /\ \A a \in Accounts : account[a] # None => Cardinality({ v \in VaultIds : vault[v] = a }) = 1

Removed == { a \in Accounts : account[a] # None /\ account'[a] = None }

(* A clean-up never deletes more accounts than it has reported as matching,
   although other clean-ups and registrations run between its count and its
   DELETE, nor more than permitted; and nothing else deletes accounts.      *)
ReportsHold ==
  [][Removed # {} =>
       \E h \in Handlers :
         /\ req[h].phase = "delete" /\ req'[h] = Idle
         /\ Cardinality(Removed) <= req[h].matched
         /\ Cardinality(Removed) <= MaxDelete]_vars

=============================================================================
