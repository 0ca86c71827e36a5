---------------------------- MODULE LoginProofs ----------------------------
(***************************************************************************)
(* Registration and sign-in by password are safe for any number of         *)
(* requests, handles, challenges, accounts and secrets, with clean-ups of  *)
(* challenges and of accounts between any two of their steps.              *)
(***************************************************************************)
EXTENDS LoginProof, FiniteSetTheorems, TLAPS

-----------------------------------------------------------------------------
(***************************************************************************)
(* The inductive invariant: the tables.                                    *)
(***************************************************************************)

Issued == { i.id : i \in issued }

(* A challenge row is one that was issued, with that type and handle; ids are
   not drawn twice.                                                         *)
RowsIssued ==
  /\ issued \subseteq [id : ChallengeIds, type : Types, handle : Handles, at : Nat]
  /\ \A i, j \in issued : i.id = j.id => i = j
  /\ \A c \in Rows : \E i \in issued :
       i.id = c /\ i.type = challenge[c].type /\ i.handle = challenge[c].handle

Registered == { r.account : r \in registered }

\* An account row is one that was registered; ids are not drawn twice.
AccountsRegistered ==
  /\ registered \subseteq [challenge : ChallengeIds, account : Accounts]
  /\ \A a \in Accounts : account[a] # None => a \in Registered

\* No row of the challenge is left, or it is marked; it never opens again.
Spent(c) == c \in Issued /\ (c \in Rows => challenge[c].consumed)

SpentOnce ==
  /\ \A r, s \in registered : r.challenge = s.challenge => r = s
  /\ \A r \in registered : Spent(r.challenge)
  /\ verdicts \in [ChallengeIds -> 0..1]
  /\ \A c \in ChallengeIds : verdicts[c] = 1 => Spent(c)

(* The unique indexes and the foreign keys, and every account has a vault. *)
TablesAgree ==
  /\ \A a, b \in Accounts :
       account[a] # None /\ account[b] # None /\ account[a].handle = account[b].handle => a = b
  /\ \A c \in Rows : challenge[c].account # None =>
       challenge[c].account \in AccountOf(challenge[c].handle)
  /\ \A v \in VaultIds : vault[v] # None => account[vault[v]] # None
  /\ \A v, w \in VaultIds : vault[v] # None /\ vault[v] = vault[w] => v = w
  /\ \A a \in Accounts : account[a] # None => \E v \in VaultIds : vault[v] = a

(* Accounts and credentials come and go together; login_start answered with
   the salt of the account it found.                                        *)
CredentialsAgree ==
  /\ credential \in [Accounts -> Credential \cup {None}]
  /\ \A a \in Accounts : account[a] = None <=> credential[a] = None
  /\ \A a \in Accounts : credential[a] # None =>
       credential[a].stored.hash_of.salt = credential[a].salt
  /\ answers \in [ChallengeIds -> Salts \cup {None}]
  /\ \A c \in Rows : challenge[c].type = "login" /\ challenge[c].account # None =>
       answers[c] = credential[challenge[c].account].salt

RowsTyped ==
  /\ clock \in 0..MaxTime
  /\ challenge \in [ChallengeIds -> ChallengeRow \cup {None}]
  /\ account \in [Accounts -> AccountRow \cup {None}]
  /\ vault \in [VaultIds -> Accounts \cup {None}]

TablesInv ==
  /\ RowsTyped /\ RowsIssued /\ AccountsRegistered /\ SpentOnce /\ TablesAgree
  /\ CredentialsAgree

-----------------------------------------------------------------------------
(***************************************************************************)
(* The inductive invariant: the requests.                                  *)
(***************************************************************************)

LoginRequest ==
  [phase : {"idle"}, since : {0}]
  \cup [phase : {"count", "metadata"}, since : Nat, type : Types, handle : Handles]
  \cup [phase : {"insert"}, since : Nat, type : Types, handle : Handles, now : Nat,
        account : Accounts \cup {None}]
  \cup [phase : Finishing, since : Nat, challenge : ChallengeIds, vault : VaultIds]
  \cup [phase : {"delete"}, since : Nat, cutoff : Int, matched : Nat]
  \cup [phase : {"proof", "session"}, since : Nat, challenge : ChallengeIds,
        nonces : ChallengeIds, own : ChallengeIds, secret : Secrets]

\* A request does not outlive its clock by more than MaxLag.
InTime(h) == req[h].phase # "idle" => req[h].since <= clock /\ clock <= req[h].since + MaxLag

\* The challenge a transaction has locked is there and open.
HoldsOpen(h) ==
  req[h].phase \in Holding =>
    LET c == req[h].challenge IN
    /\ c \in Rows
    /\ ~challenge[c].consumed
    /\ challenge[c].type = IF req[h].phase \in Finishing THEN "register" ELSE "login"

\* What register_finish has inserted, and not committed, no one else has.
Reserves(h) ==
  /\ req[h].phase \in {"vault", "commit"} => AccountOf(Handle(h)) = {}
  /\ req[h].phase = "commit" => vault[req[h].vault] = None

(* The account login_start has found has been registered with that handle, or
   has gone since.                                                          *)
FoundWell(h) ==
  req[h].phase = "insert" /\ req[h].account # None =>
    /\ req[h].account \in Registered
    /\ account[req[h].account] # None => account[req[h].account].handle = req[h].handle

\* A proof that passed is of the account's secret and for this challenge.
PassedWell(h) ==
  req[h].phase = "session" =>
    LET a == challenge[req[h].challenge].account IN
    /\ a # None /\ account[a] # None
    /\ req[h].own = req[h].challenge
    /\ req[h].secret = SecretOf(a)

(* Accounts that are older than a cutoff only become fewer: a registration
   under way started after it.                                              *)
CountedWell(h) ==
  req[h].phase = "delete" =>
    /\ req[h].cutoff <= clock - MinAge
    /\ Cardinality(Matched(req[h].cutoff)) <= req[h].matched

RequestInv(h) ==
  /\ InTime(h) /\ HoldsOpen(h) /\ Reserves(h) /\ FoundWell(h) /\ PassedWell(h) /\ CountedWell(h)

(* Two transactions hold different challenges, and have inserted different
   handles and vaults.                                                      *)
Apart(h, o) ==
  /\ req[h].phase \in Holding /\ req[o].phase \in Holding => req[h].challenge # req[o].challenge
  /\ req[h].phase \in {"vault", "commit"} /\ req[o].phase \in {"vault", "commit"} =>
       Handle(h) # Handle(o)
  /\ req[h].phase = "commit" /\ req[o].phase = "commit" => req[h].vault # req[o].vault

RequestsInv ==
  /\ req \in [Handlers -> LoginRequest]
  /\ \A h \in Handlers : RequestInv(h)
  /\ \A h, o \in Handlers : h # o => Apart(h, o)

LoginInv == TablesInv /\ RequestsInv

-----------------------------------------------------------------------------
(***************************************************************************)
(* Requests that start, go on or end.                                      *)
(***************************************************************************)

Tables == <<challenge, account, vault, issued, registered, credential, answers, verdicts>>

LEMMA QuietTables ==
  ASSUME TablesInv, UNCHANGED Tables, clock' \in 0..MaxTime
  PROVE  TablesInv'
<1> UNCHANGED <<challenge, account, vault, issued, registered>>
    /\ UNCHANGED <<credential, answers, verdicts>>
  BY DEF Tables
<1>1. RowsTyped' /\ RowsIssued' /\ AccountsRegistered'
  BY DEF TablesInv, RowsTyped, RowsIssued, AccountsRegistered, Rows, Registered
<1>2. SpentOnce'
  BY DEF TablesInv, SpentOnce, Spent, Issued, Rows
<1>3. TablesAgree'
  BY DEF TablesInv, TablesAgree, AccountOf, Rows
<1>4. CredentialsAgree'
  BY DEF TablesInv, CredentialsAgree, Rows
<1> QED
  BY <1>1, <1>2, <1>3, <1>4 DEF TablesInv

\* What holds of a request that does not change depends on the tables alone.
LEMMA QuietRequest ==
  ASSUME NEW o \in Handlers, RequestInv(o), UNCHANGED Tables, UNCHANGED clock, req'[o] = req[o]
  PROVE  RequestInv(o)'
<1> /\ UNCHANGED <<challenge, account, vault, registered>>
    /\ UNCHANGED credential
  BY DEF Tables
<1>1. InTime(o)' /\ CountedWell(o)'
  BY DEF RequestInv, InTime, CountedWell, Matched
<1>2. HoldsOpen(o)' /\ Reserves(o)'
  BY DEF RequestInv, HoldsOpen, Reserves, Handle, AccountOf, Rows
<1>3. FoundWell(o)' /\ PassedWell(o)'
  BY DEF RequestInv, FoundWell, PassedWell, SecretOf, Registered
<1> QED
  BY <1>1, <1>2, <1>3 DEF RequestInv

LEMMA ApartSymmetric ==
  ASSUME NEW h \in Handlers, NEW o \in Handlers, Apart(h, o)
  PROVE  Apart(o, h)
BY DEF Apart

\* A request that has ended claims nothing.
LEMMA IdleRequest ==
  ASSUME NEW h \in Handlers, req'[h] = Idle
  PROVE  /\ req'[h] \in LoginRequest
         /\ RequestInv(h)'
         /\ \A o \in Handlers : Apart(h, o)'
<1>1. req'[h].phase = "idle"
  BY DEF Idle
<1>2. RequestInv(h)'
  BY <1>1 DEF RequestInv, InTime, HoldsOpen, Reserves, FoundWell, PassedWell, CountedWell,
    Holding, Finishing
<1>3. \A o \in Handlers : Apart(h, o)'
  BY <1>1 DEF Apart, Holding, Finishing
<1> QED
  BY <1>2, <1>3 DEF Idle, LoginRequest


\* Only a transaction that holds a challenge can get in another one's way.
LEMMA NoClaim ==
  ASSUME NEW h \in Handlers, req'[h].phase \notin Holding
  PROVE  /\ HoldsOpen(h)' /\ Reserves(h)' /\ PassedWell(h)'
         /\ \A o \in Handlers : Apart(h, o)'
BY DEF HoldsOpen, Reserves, PassedWell, Apart, Holding, Finishing

\* One request goes on and leaves the tables alone.
LEMMA QuietStep ==
  ASSUME LoginInv, NEW h \in Handlers, NEW r \in LoginRequest,
         req' = [req EXCEPT ![h] = r], UNCHANGED Tables, UNCHANGED clock,
         RequestInv(h)', \A o \in Handlers \ {h} : Apart(h, o)'
  PROVE  LoginInv'
<1>1. TablesInv'
  BY QuietTables DEF LoginInv, TablesInv, RowsTyped
<1>2. req' \in [Handlers -> LoginRequest]
  BY DEF LoginInv, RequestsInv
<1>3. \A o \in Handlers \ {h} : req'[o] = req[o]
  BY DEF LoginInv, RequestsInv
<1>4. \A o \in Handlers : RequestInv(o)'
  BY <1>3, QuietRequest DEF LoginInv, RequestsInv
<1>5. ASSUME NEW o \in Handlers, NEW p \in Handlers, o # p
      PROVE  Apart(o, p)'
  <2>1. CASE o = h
    BY <1>5, <2>1
  <2>2. CASE p = h
    <3>1. Apart(p, o)'
      BY <1>5, <2>2
    <3> QED
      BY <3>1 DEF Apart
  <2>3. CASE o # h /\ p # h
    <3>1. Apart(o, p)
      BY <1>5 DEF LoginInv, RequestsInv
    <3>2. UNCHANGED challenge
      BY DEF Tables
    <3> QED
      BY <1>3, <2>3, <3>1, <3>2 DEF Apart, Handle
  <2> QED
    BY <2>1, <2>2, <2>3
<1> QED
  BY <1>1, <1>2, <1>4, <1>5 DEF LoginInv, RequestsInv

LEMMA EndStep ==
  ASSUME LoginInv, NEW h \in Handlers, req' = [req EXCEPT ![h] = Idle],
         UNCHANGED Tables, UNCHANGED clock
  PROVE  LoginInv'
<1>1. req'[h] = Idle
  BY DEF LoginInv, RequestsInv
<1> QED
  BY <1>1, IdleRequest, QuietStep

LEMMA PermitStep ==
  ASSUME LoginInv, NEW h \in Handlers, Permit(h), UNCHANGED <<credential, answers, verdicts>>
  PROVE  LoginInv'
<1>1. req \in [Handlers -> LoginRequest] /\ InTime(h) /\ clock \in Nat
  BY RegistryAssumption DEF LoginInv, RequestsInv, RequestInv, TablesInv, RowsTyped
<1>2. PICK r : r = IF req[h].type = "login" THEN [req[h] EXCEPT !.phase = "metadata"]
                   ELSE [phase |-> "insert", since |-> req[h].since, type |-> req[h].type,
                         handle |-> req[h].handle, now |-> clock, account |-> None]
  OBVIOUS
<1>3. req[h] \in [phase : {"count", "metadata"}, since : Nat, type : Types, handle : Handles]
  BY <1>1 DEF Permit, LoginRequest, Finishing
<1>4. r \in LoginRequest /\ r.since = req[h].since /\ r.phase \in {"metadata", "insert"}
      /\ (r.phase = "insert" => r.account = None)
  <2>1. CASE req[h].type = "login"
    <3>1. r = [phase |-> "metadata", since |-> req[h].since, type |-> req[h].type,
               handle |-> req[h].handle]
      BY <1>2, <1>3, <2>1
    <3> QED
      BY <1>3, <3>1 DEF LoginRequest
  <2>2. CASE req[h].type # "login"
    BY <1>1, <1>2, <1>3, <2>2 DEF LoginRequest
  <2> QED
    BY <2>1, <2>2
<1>5. req' = [req EXCEPT ![h] = r] /\ UNCHANGED Tables /\ UNCHANGED clock
  BY <1>2 DEF Permit, Tables
<1>6. req'[h] = r
  BY <1>1, <1>5
<1>7. InTime(h)' /\ FoundWell(h)' /\ CountedWell(h)'
  BY <1>1, <1>4, <1>5, <1>6 DEF InTime, FoundWell, CountedWell, Permit
<1>8. req'[h].phase \notin Holding
  BY <1>4, <1>6 DEF Holding, Finishing
<1>9. HoldsOpen(h)' /\ Reserves(h)' /\ PassedWell(h)' /\ \A o \in Handlers : Apart(h, o)'
  BY <1>8, NoClaim
<1> QED
  BY <1>4, <1>5, <1>7, <1>9, QuietStep DEF RequestInv

LEMMA LoadStep ==
  ASSUME LoginInv, NEW h \in Handlers, LoadMetadata(h), UNCHANGED <<credential, answers, verdicts>>
  PROVE  LoginInv'
<1>1. req \in [Handlers -> LoginRequest] /\ InTime(h) /\ clock \in Nat
  BY RegistryAssumption DEF LoginInv, RequestsInv, RequestInv, TablesInv, RowsTyped
<1>2. PICK a : a = IF AccountOf(req[h].handle) = {} THEN None
                   ELSE CHOOSE x \in AccountOf(req[h].handle) : TRUE
  OBVIOUS
<1>3. a = None \/ a \in AccountOf(req[h].handle)
  BY <1>2
<1>4. PICK r : r = [phase |-> "insert", since |-> req[h].since, type |-> req[h].type,
                    handle |-> req[h].handle, now |-> clock, account |-> a]
  OBVIOUS
<1>5. req[h] \in [phase : {"count", "metadata"}, since : Nat, type : Types, handle : Handles]
  BY <1>1 DEF LoadMetadata, LoginRequest, Finishing
<1>6. r \in LoginRequest
  BY <1>1, <1>3, <1>4, <1>5 DEF LoginRequest, AccountOf
<1>7. req' = [req EXCEPT ![h] = r] /\ UNCHANGED Tables /\ UNCHANGED clock
  BY <1>2, <1>4 DEF LoadMetadata, Tables
<1>8. req'[h] = r
  BY <1>1, <1>7
<1>9. InTime(h)' /\ CountedWell(h)'
  BY <1>1, <1>4, <1>5, <1>7, <1>8 DEF InTime, CountedWell
<1>10. FoundWell(h)'
  <2>1. a # None => a \in Registered /\ account[a].handle = req[h].handle
    BY <1>3 DEF AccountOf, LoginInv, TablesInv, AccountsRegistered
  <2>2. UNCHANGED <<account, registered>>
    BY <1>7 DEF Tables
  <2> QED
    BY <1>4, <1>8, <2>1, <2>2 DEF FoundWell, Registered
<1>11. req'[h].phase \notin Holding
  BY <1>4, <1>8 DEF Holding, Finishing
<1>12. HoldsOpen(h)' /\ Reserves(h)' /\ PassedWell(h)' /\ \A o \in Handlers : Apart(h, o)'
  BY <1>11, NoClaim
<1> QED
  BY <1>6, <1>7, <1>9, <1>10, <1>12, QuietStep DEF RequestInv

\* A challenge is locked by one transaction at a time.
LEMMA LockStep ==
  ASSUME LoginInv, NEW h \in Handlers, NEW r \in LoginRequest, NEW c \in Rows,
         r.phase \in {"account", "proof"}, r.since = clock, r.challenge = c,
         challenge[c].type = IF r.phase \in Finishing THEN "register" ELSE "login",
         ~Locked(c), ~challenge[c].consumed,
         req' = [req EXCEPT ![h] = r], UNCHANGED Tables, UNCHANGED clock
  PROVE  LoginInv'
<1>1. clock \in Nat /\ req'[h] = r /\ \A o \in Handlers \ {h} : req'[o] = req[o]
  BY RegistryAssumption DEF LoginInv, RequestsInv, TablesInv, RowsTyped
<1>2. UNCHANGED challenge
  BY DEF Tables
<1>3. InTime(h)'
  BY <1>1, RegistryAssumption DEF InTime
<1>4. HoldsOpen(h)'
  BY <1>1, <1>2 DEF HoldsOpen, Rows
<1>5. Reserves(h)' /\ FoundWell(h)' /\ PassedWell(h)' /\ CountedWell(h)'
  BY <1>1 DEF Reserves, FoundWell, PassedWell, CountedWell
<1>6. \A o \in Handlers \ {h} : Apart(h, o)'
  BY <1>1 DEF Apart, Locked
<1> QED
  BY <1>3, <1>4, <1>5, <1>6, QuietStep DEF RequestInv

LEMMA FinishLockStep ==
  ASSUME LoginInv, NEW h \in Handlers, NEW c \in ChallengeIds, NEW v \in VaultIds,
         FinishLock(h, c, v), UNCHANGED <<credential, answers, verdicts>>
  PROVE  LoginInv'
<1>1. clock \in Nat
  BY RegistryAssumption DEF LoginInv, TablesInv, RowsTyped
<1>2. PICK r : r = [phase |-> "account", since |-> clock, challenge |-> c, vault |-> v]
  OBVIOUS
<1>3. r \in LoginRequest
  BY <1>1, <1>2 DEF LoginRequest, Finishing
<1>4. /\ req' = [req EXCEPT ![h] = r] /\ UNCHANGED Tables /\ UNCHANGED clock
      /\ c \in Rows /\ challenge[c].type = "register" /\ ~Locked(c) /\ ~challenge[c].consumed
  BY <1>2 DEF FinishLock, Tables
<1> QED
  BY <1>2, <1>3, <1>4, LockStep DEF Finishing

LEMMA LoginLockStep ==
  ASSUME LoginInv, NEW h \in Handlers, NEW c \in ChallengeIds, NEW nonces \in ChallengeIds,
         NEW own \in ChallengeIds, NEW secret \in Secrets, LoginLock(h, c, nonces, own, secret)
  PROVE  LoginInv'
<1>1. clock \in Nat
  BY RegistryAssumption DEF LoginInv, TablesInv, RowsTyped
<1>2. PICK r : r = [phase |-> "proof", since |-> clock, challenge |-> c, nonces |-> nonces,
                    own |-> own, secret |-> secret]
  OBVIOUS
<1>3. r \in LoginRequest
  BY <1>1, <1>2 DEF LoginRequest
<1>4. /\ req' = [req EXCEPT ![h] = r] /\ UNCHANGED Tables /\ UNCHANGED clock
      /\ c \in Rows /\ challenge[c].type = "login" /\ ~Locked(c) /\ ~challenge[c].consumed
  BY <1>2 DEF LoginLock, Tables
<1> QED
  BY <1>2, <1>3, <1>4, LockStep DEF Finishing

\* A transaction that holds its challenge already takes its next step.
LEMMA NextPhase ==
  ASSUME LoginInv, NEW h \in Handlers, NEW phase \in {"vault", "commit", "session"},
         req[h].phase \in Holding, phase \in Finishing <=> req[h].phase \in Finishing,
         req' = [req EXCEPT ![h].phase = phase], UNCHANGED Tables, UNCHANGED clock,
         Reserves(h)', PassedWell(h)',
         \A o \in Handlers \ {h} :
           /\ phase \in {"vault", "commit"} /\ req[o].phase \in {"vault", "commit"} =>
                Handle(h) # Handle(o)
           /\ phase = "commit" /\ req[o].phase = "commit" => req[h].vault # req[o].vault
  PROVE  LoginInv'
<1>1. req \in [Handlers -> LoginRequest] /\ RequestInv(h)
  BY DEF LoginInv, RequestsInv
<1>2. PICK r : r = [req[h] EXCEPT !.phase = phase]
  OBVIOUS
<1>3. req' = [req EXCEPT ![h] = r]
  BY <1>2
<1>4. /\ r \in LoginRequest /\ r.phase = phase /\ r.since = req[h].since
      /\ r.challenge = req[h].challenge /\ (phase \in Finishing => r.vault = req[h].vault)
  <2>1. CASE phase \in Finishing
    <3>1. req[h] \in [phase : Finishing, since : Nat, challenge : ChallengeIds, vault : VaultIds]
      BY <1>1, <2>1 DEF LoginRequest, Finishing
    <3> QED
      BY <1>2, <2>1, <3>1 DEF LoginRequest
  <2>2. CASE phase \notin Finishing
    <3>1. req[h] \in [phase : {"proof", "session"}, since : Nat, challenge : ChallengeIds,
                      nonces : ChallengeIds, own : ChallengeIds, secret : Secrets]
      BY <1>1, <2>2 DEF LoginRequest, Finishing, Holding
    <3>2. phase \in {"proof", "session"}
      BY <2>2 DEF Finishing
    <3> QED
      BY <1>2, <2>2, <3>1, <3>2 DEF LoginRequest
  <2> QED
    BY <2>1, <2>2
<1>5. req'[h] = r /\ \A o \in Handlers \ {h} : req'[o] = req[o]
  BY <1>1, <1>3
<1>6. UNCHANGED challenge
  BY DEF Tables
<1>7. InTime(h)'
  BY <1>1, <1>4, <1>5 DEF RequestInv, InTime, Holding, Finishing
<1>8. HoldsOpen(h)'
  BY <1>1, <1>4, <1>5, <1>6 DEF RequestInv, HoldsOpen, Rows
<1>9. FoundWell(h)' /\ CountedWell(h)'
  BY <1>4, <1>5 DEF FoundWell, CountedWell
<1>10. ASSUME NEW o \in Handlers \ {h}
       PROVE  Apart(h, o)'
  <2>1. Apart(h, o) /\ req'[o] = req[o]
    BY <1>5 DEF LoginInv, RequestsInv
  <2>2. Handle(h)' = Handle(h) /\ Handle(o)' = Handle(o)
    BY <1>4, <1>5, <1>6 DEF Handle
  <2>3. req'[o].phase \in Holding => req'[h].challenge # req'[o].challenge
    BY <1>4, <1>5, <2>1 DEF Apart
  <2>4. req'[h].phase = "commit" /\ req'[o].phase = "commit" => req'[h].vault # req'[o].vault
    BY <1>4, <1>5, <2>1 DEF Finishing
  <2> QED
    BY <1>4, <1>5, <2>1, <2>2, <2>3, <2>4 DEF Apart
<1> QED
  BY <1>3, <1>4, <1>7, <1>8, <1>9, <1>10, QuietStep DEF RequestInv

LEMMA InsertAccountStep ==
  ASSUME LoginInv, NEW h \in Handlers, InsertAccount(h), UNCHANGED <<credential, answers, verdicts>>
  PROVE  LoginInv'
<1>1. /\ req[h].phase = "account" /\ req' = [req EXCEPT ![h].phase = "vault"]
      /\ UNCHANGED Tables /\ UNCHANGED clock /\ UNCHANGED <<challenge, account>>
  BY DEF InsertAccount, Tables
<1>2. req'[h].phase = "vault" /\ req'[h].challenge = req[h].challenge
  BY <1>1 DEF LoginInv, RequestsInv
<1>3. Reserves(h)' /\ PassedWell(h)'
  BY <1>1, <1>2 DEF Reserves, PassedWell, InsertAccount, AccountOf, Handle
<1>4. \A o \in Handlers \ {h} : req[o].phase \in {"vault", "commit"} => Handle(h) # Handle(o)
  BY DEF InsertAccount, HandlePending, Others
<1> QED
  BY <1>1, <1>3, <1>4, NextPhase DEF Finishing, Holding

LEMMA InsertVaultStep ==
  ASSUME LoginInv, NEW h \in Handlers, InsertVault(h), UNCHANGED <<credential, answers, verdicts>>
  PROVE  LoginInv'
<1>1. /\ req[h].phase = "vault" /\ req' = [req EXCEPT ![h].phase = "commit"]
      /\ UNCHANGED Tables /\ UNCHANGED clock /\ UNCHANGED <<challenge, account, vault>>
  BY DEF InsertVault, Tables
<1>2. /\ req'[h].phase = "commit" /\ req'[h].challenge = req[h].challenge
      /\ req'[h].vault = req[h].vault
  BY <1>1 DEF LoginInv, RequestsInv
<1>3. AccountOf(Handle(h)) = {} /\ vault[req[h].vault] = None
  BY <1>1 DEF InsertVault, LoginInv, RequestsInv, RequestInv, Reserves
<1>4. Reserves(h)' /\ PassedWell(h)'
  BY <1>1, <1>2, <1>3 DEF Reserves, PassedWell, AccountOf, Handle
<1>5. \A o \in Handlers \ {h} :
        /\ req[o].phase \in {"vault", "commit"} => Handle(h) # Handle(o)
        /\ req[o].phase = "commit" => req[h].vault # req[o].vault
  BY <1>1 DEF InsertVault, VaultPending, Others, LoginInv, RequestsInv, Apart
<1> QED
  BY <1>1, <1>4, <1>5, NextPhase DEF Finishing, Holding

-----------------------------------------------------------------------------
(***************************************************************************)
(* SCRAM: whose proof passes.                                              *)
(***************************************************************************)

\* verify_client_proof accepts the proof made with the stored key's own client
\* key, for the same message.
LEMMA ProofOkIff ==
  ASSUME NEW secret, NEW salt, NEW sent, NEW stored, NEW message
  PROVE  ProofOk(stored, message, ClientProof(secret, salt, sent))
           <=> stored = StoredKey(ClientKey(secret, salt)) /\ sent = message
BY DEF ProofOk, ClientProof, StoredKey, ClientKey, Signature

\* The message tells every challenge from every other.
LEMMA MessageIsOfChallenge ==
  ASSUME NEW c, NEW n, NEW handle, NEW d, NEW m, NEW other,
         AuthMessage(c, n, handle) = AuthMessage(d, m, other)
  PROVE  c = d /\ n = m /\ handle = other
BY DEF AuthMessage

LEMMA PassesMeans ==
  ASSUME LoginInv, NEW h \in Handlers, Passes(h), NEW c, c = req[h].challenge
  PROVE  /\ challenge[c].account # None /\ account[challenge[c].account] # None
         /\ req[h].own = c
         /\ req[h].secret = SecretOf(challenge[c].account)
<1>1. PICK a \in ChallengedAccount(c) :
        ProofOk(credential[a].stored, AuthMessage(c, req[h].nonces, challenge[c].handle),
                ProofFor(req[h].own, req[h].secret))
  BY DEF Passes
<1>2. a \in Accounts /\ account[a] # None /\ a = challenge[c].account
  BY <1>1 DEF ChallengedAccount, AccountOf
<1>3. a # None
  BY <1>2, RegistryAssumption
<1>4. PICK start : start = CHOOSE i \in issued : i.id = req[h].own
  OBVIOUS
<1>5. ProofFor(req[h].own, req[h].secret) =
        ClientProof(req[h].secret, answers[req[h].own],
                    AuthMessage(req[h].own, req[h].own, start.handle))
  BY <1>4 DEF ProofFor
<1>6. /\ credential[a].stored = StoredKey(ClientKey(req[h].secret, answers[req[h].own]))
      /\ AuthMessage(req[h].own, req[h].own, start.handle)
           = AuthMessage(c, req[h].nonces, challenge[c].handle)
  BY <1>1, <1>5, ProofOkIff
<1>7. req[h].own = c
  BY <1>6, MessageIsOfChallenge
<1>8. SecretOf(a) = req[h].secret
  BY <1>6 DEF SecretOf, StoredKey, ClientKey
<1> QED
  BY <1>2, <1>3, <1>7, <1>8

\* The account's owner passes with the answer to its own login_start.
LEMMA OwnerPasses ==
  ASSUME LoginInv, NEW c \in Rows, challenge[c].type = "login", challenge[c].account # None
  PROVE  ProofOk(credential[challenge[c].account].stored, AuthMessage(c, c, challenge[c].handle),
                 ProofFor(c, SecretOf(challenge[c].account)))
<1> USE DEF LoginInv, TablesInv
<1>1. PICK i \in issued : i.id = c /\ i.handle = challenge[c].handle
  BY DEF RowsIssued
<1>2. (CHOOSE j \in issued : j.id = c) = i
  BY <1>1 DEF RowsIssued
<1>3. PICK a \in Accounts : a = challenge[c].account /\ account[a] # None
  BY DEF TablesAgree, AccountOf
<1>4. /\ credential[a] \in Credential /\ answers[c] = credential[a].salt
      /\ credential[a].stored.hash_of.salt = credential[a].salt
  BY <1>3 DEF CredentialsAgree
<1>5. PICK s \in Secrets, d \in ChallengeIds : credential[a].stored = StoredKey(ClientKey(s, d))
  BY <1>4 DEF Credential
<1>6. s = SecretOf(a) /\ d = answers[c]
  BY <1>4, <1>5 DEF StoredKey, ClientKey, SecretOf
<1>7. ProofFor(c, SecretOf(a)) = ClientProof(s, d, AuthMessage(c, c, challenge[c].handle))
  BY <1>1, <1>2, <1>6 DEF ProofFor
<1>8. ProofOk(credential[a].stored, AuthMessage(c, c, challenge[c].handle),
              ClientProof(s, d, AuthMessage(c, c, challenge[c].handle)))
  BY <1>5, ProofOkIff
<1> QED
  BY <1>3, <1>7, <1>8

LEMMA PassStep ==
  ASSUME LoginInv, NEW h \in Handlers, LoginPasses(h)
  PROVE  LoginInv'
<1>1. /\ req[h].phase = "proof" /\ req' = [req EXCEPT ![h].phase = "session"]
      /\ UNCHANGED Tables /\ UNCHANGED clock /\ UNCHANGED <<challenge, account, credential>>
  BY DEF LoginPasses, Tables
<1>2. req[h] \in [phase : {"proof", "session"}, since : Nat, challenge : ChallengeIds,
                  nonces : ChallengeIds, own : ChallengeIds, secret : Secrets]
  BY <1>1 DEF LoginInv, RequestsInv, LoginRequest, Finishing
<1>3. /\ req'[h].phase = "session" /\ req'[h].challenge = req[h].challenge
      /\ req'[h].own = req[h].own /\ req'[h].secret = req[h].secret
  BY <1>1, <1>2 DEF LoginInv, RequestsInv
<1>4. PassedWell(h)'
  BY <1>1, <1>3, PassesMeans DEF PassedWell, LoginPasses, SecretOf
<1>5. Reserves(h)'
  BY <1>3 DEF Reserves
<1> QED
  BY <1>1, <1>4, <1>5, NextPhase DEF Finishing, Holding

-----------------------------------------------------------------------------
(***************************************************************************)
(* The clean-up counts.                                                    *)
(***************************************************************************)

LEMMA MatchedFinite ==
  ASSUME NEW cutoff
  PROVE  IsFiniteSet(Matched(cutoff)) /\ Cardinality(Matched(cutoff)) \in Nat
BY FS_Subset, FS_CardinalityType, RegistryAssumption DEF Matched

LEMMA CountStep ==
  ASSUME LoginInv, NEW h \in Handlers, CountSynthetic(h),
         UNCHANGED <<credential, answers, verdicts>>
  PROVE  LoginInv'
<1>1. clock \in Nat /\ MinAge \in Nat /\ MaxLag \in Nat
  BY RegistryAssumption DEF LoginInv, TablesInv, RowsTyped
<1>2. PICK cutoff \in Int : cutoff = clock - MinAge
  BY <1>1
<1>3. PICK n \in Nat : n = Cardinality(Matched(cutoff))
  BY MatchedFinite
<1>4. PICK r : r = [phase |-> "delete", since |-> clock, cutoff |-> cutoff, matched |-> n]
  OBVIOUS
<1>5. r \in LoginRequest
  BY <1>1, <1>4 DEF LoginRequest
<1>6. req' = [req EXCEPT ![h] = r] /\ UNCHANGED Tables /\ UNCHANGED <<clock, account>>
  BY <1>2, <1>3, <1>4 DEF CountSynthetic, Tables
<1>7. req'[h] = r
  BY <1>6 DEF LoginInv, RequestsInv
<1>8. InTime(h)' /\ FoundWell(h)'
  BY <1>1, <1>4, <1>6, <1>7 DEF InTime, FoundWell
<1>9. CountedWell(h)'
  <2>1. Matched(req[h].cutoff)' = Matched(cutoff)
    BY <1>4, <1>6, <1>7 DEF Matched
  <2>2. req'[h].cutoff <= clock' - MinAge /\ Cardinality(Matched(req[h].cutoff)') <= req'[h].matched
    BY <1>1, <1>2, <1>3, <1>4, <1>6, <1>7, <2>1
  <2> QED
    BY <2>2 DEF CountedWell
<1>10. req'[h].phase \notin Holding
  BY <1>4, <1>7 DEF Holding, Finishing
<1> QED
  BY <1>5, <1>6, <1>8, <1>9, <1>10, NoClaim, QuietStep DEF RequestInv

\* Time passes, and no request is left behind.
LEMMA TickStep ==
  ASSUME LoginInv, Tick, UNCHANGED <<credential, answers, verdicts>>
  PROVE  LoginInv'
<1>1. /\ clock \in Nat /\ clock' \in 0..MaxTime /\ clock' = clock + 1 /\ MaxLag \in Nat
      /\ MinAge \in Nat
  BY RegistryAssumption DEF LoginInv, TablesInv, RowsTyped, Tick
<1>2. UNCHANGED Tables /\ UNCHANGED <<req, challenge, account, vault, registered, credential>>
  BY DEF Tick, Tables
<1>3. ASSUME NEW h \in Handlers
      PROVE  RequestInv(h)'
  <2>1. RequestInv(h) /\ req[h] \in LoginRequest
    BY DEF LoginInv, RequestsInv
  <2>2. req[h].since \in Nat
    BY <2>1 DEF LoginRequest
  <2>3. InTime(h)'
    BY <1>1, <1>2, <2>1, <2>2 DEF RequestInv, InTime, Tick
  <2>4. CountedWell(h)'
    <3>1. CASE req[h].phase = "delete"
      <4>1. req[h].cutoff \in Int
        BY <2>1, <3>1 DEF LoginRequest, Finishing
      <4> QED
        BY <1>1, <1>2, <2>1, <3>1, <4>1 DEF RequestInv, CountedWell, Matched
    <3>2. CASE req[h].phase # "delete"
      BY <1>2, <3>2 DEF CountedWell
    <3> QED
      BY <3>1, <3>2
  <2>5. HoldsOpen(h)' /\ Reserves(h)' /\ FoundWell(h)' /\ PassedWell(h)'
    BY <1>2, <2>1 DEF RequestInv, HoldsOpen, Reserves, FoundWell, PassedWell, SecretOf,
      Registered, Handle, AccountOf, Rows
  <2> QED
    BY <2>3, <2>4, <2>5 DEF RequestInv
<1>4. TablesInv'
  BY <1>1, <1>2, QuietTables DEF LoginInv
<1>5. \A h, o \in Handlers : h # o => Apart(h, o)'
  BY <1>2 DEF LoginInv, RequestsInv, Apart, Handle
<1> QED
  BY <1>2, <1>3, <1>4, <1>5 DEF LoginInv, RequestsInv

-----------------------------------------------------------------------------
(***************************************************************************)
(* Requests that write.                                                    *)
(***************************************************************************)

\* CHOOSE takes an id that is not among those drawn.
LEMMA FreshIsUnused ==
  ASSUME NEW id, NEW used, NEW ids, IsFresh(id, used, ids)
  PROVE  id \in ids /\ id \notin used
BY DEF IsFresh

\* No row is added, and what is left is as it was but for the mark.
RowsLeft ==
  \A c \in Rows' :
    /\ c \in Rows
    /\ challenge'[c].type = challenge[c].type /\ challenge'[c].handle = challenge[c].handle
    /\ challenge'[c].account = challenge[c].account
    /\ challenge[c].consumed => challenge'[c].consumed

LEMMA RowsLeftIssued ==
  ASSUME RowsIssued, RowsLeft, UNCHANGED issued
  PROVE  RowsIssued' /\ \A c : Spent(c) => Spent(c)'
BY DEF RowsIssued, RowsLeft, Spent, Issued

(* One request writes and ends, or goes on to its count.  It leaves alone the
   challenges that others hold.                                             *)
LEMMA WriteStep ==
  ASSUME LoginInv, TablesInv', NEW h \in Handlers, NEW r \in LoginRequest,
         r.phase \in {"idle", "count"}, r.phase = "count" => r.since = clock,
         req' = [req EXCEPT ![h] = r], UNCHANGED clock,
         \A o \in Handlers \ {h} : req[o].phase \in Holding =>
           challenge'[req[o].challenge] = challenge[req[o].challenge],
         \A o \in Handlers \ {h} : req'[o] = req[o] =>
           Reserves(o)' /\ FoundWell(o)' /\ PassedWell(o)' /\ CountedWell(o)'
  PROVE  LoginInv'
<1>1. /\ req \in [Handlers -> LoginRequest] /\ clock \in Nat /\ MaxLag \in Nat
      /\ \A o \in Handlers : RequestInv(o)
  BY RegistryAssumption DEF LoginInv, RequestsInv, TablesInv, RowsTyped
<1>2. req'[h] = r /\ \A o \in Handlers \ {h} : req'[o] = req[o]
  BY <1>1
<1>3. req'[h].phase \notin Holding
  BY <1>2 DEF Holding, Finishing
<1>4. RequestInv(h)'
  <2>1. InTime(h)' /\ FoundWell(h)' /\ CountedWell(h)'
    BY <1>1, <1>2 DEF InTime, FoundWell, CountedWell
  <2> QED
    BY <1>3, <2>1, NoClaim DEF RequestInv
<1>5. ASSUME NEW o \in Handlers \ {h}
      PROVE  RequestInv(o)'
  <2>1. RequestInv(o) /\ req'[o] = req[o]
    BY <1>1, <1>2
  <2>2. InTime(o)'
    BY <2>1 DEF RequestInv, InTime
  <2>3. HoldsOpen(o)'
    <3>1. req[o].phase \in Holding => req[o].challenge \in Rows'
      BY <2>1 DEF RequestInv, HoldsOpen, Rows
    <3> QED
      BY <2>1, <3>1 DEF RequestInv, HoldsOpen
  <2> QED
    BY <2>1, <2>2, <2>3 DEF RequestInv
<1>6. ASSUME NEW o \in Handlers, NEW p \in Handlers, o # p
      PROVE  Apart(o, p)'
  <2>1. CASE o = h
    BY <1>3, <2>1, NoClaim
  <2>2. CASE p = h
    BY <1>3, <2>2, NoClaim DEF Apart
  <2>3. CASE o # h /\ p # h
    <3>1. Apart(o, p) /\ req'[o] = req[o] /\ req'[p] = req[p]
      BY <1>2, <1>6, <2>3 DEF LoginInv, RequestsInv
    <3>2. /\ req[o].phase \in Holding => Handle(o)' = Handle(o)
          /\ req[p].phase \in Holding => Handle(p)' = Handle(p)
      BY <1>2, <2>3 DEF Handle
    <3> QED
      BY <3>1, <3>2 DEF Apart, Holding, Finishing
  <2> QED
    BY <2>1, <2>2, <2>3
<1> QED
  BY <1>1, <1>4, <1>5, <1>6 DEF LoginInv, RequestsInv

\* cleanup_expired_challenges takes no row that is locked.
LEMMA StartStep ==
  ASSUME LoginInv, NEW h \in Handlers, NEW type \in Types, NEW handle \in Handles,
         Start(h, type, handle), UNCHANGED <<credential, answers, verdicts>>
  PROVE  LoginInv'
<1> USE DEF LoginInv, TablesInv
<1>1. /\ challenge' = [c \in ChallengeIds |-> IF c \in Overdue THEN None ELSE challenge[c]]
      /\ UNCHANGED <<clock, account, vault, issued, registered>>
      /\ \A o \in Handlers : req[o].phase \in Holding => req[o].challenge \notin Overdue
  BY DEF Start, Locked
<1>2. challenge' \in [ChallengeIds -> ChallengeRow \cup {None}]
  BY <1>1 DEF RowsTyped
<1>3. \A c \in Rows' : c \in Rows /\ challenge'[c] = challenge[c]
  BY <1>1 DEF Rows
<1>4. RowsIssued' /\ \A c : Spent(c) => Spent(c)'
  BY <1>1, <1>3, RowsLeftIssued DEF RowsLeft
<1>5. SpentOnce'
  BY <1>1, <1>4 DEF SpentOnce
<1>6. TablesAgree'
  BY <1>1, <1>3 DEF TablesAgree, AccountOf
<1>7. CredentialsAgree'
  BY <1>1, <1>3 DEF CredentialsAgree
<1>8. TablesInv'
  BY <1>1, <1>2, <1>4, <1>5, <1>6, <1>7 DEF RowsTyped, AccountsRegistered, Registered
<1>9. clock \in Nat
  BY RegistryAssumption DEF RowsTyped
<1>10. PICK r : r = [phase |-> "count", since |-> clock, type |-> type, handle |-> handle]
  OBVIOUS
<1>11. r \in LoginRequest /\ req' = [req EXCEPT ![h] = r]
  BY <1>9, <1>10 DEF LoginRequest, Start
<1>12. \A o \in Handlers : req[o].phase \in Holding =>
         challenge'[req[o].challenge] = challenge[req[o].challenge]
  <2> SUFFICES ASSUME NEW o \in Handlers, req[o].phase \in Holding
               PROVE  challenge'[req[o].challenge] = challenge[req[o].challenge]
    OBVIOUS
  <2>1. req[o].challenge \in ChallengeIds
    BY DEF RequestsInv, RequestInv, HoldsOpen, Rows
  <2> QED
    BY <1>1, <2>1
<1>13. ASSUME NEW o \in Handlers \ {h}, req'[o] = req[o]
       PROVE  Reserves(o)' /\ FoundWell(o)' /\ PassedWell(o)' /\ CountedWell(o)'
  <2>1. RequestInv(o)
    BY DEF RequestsInv
  <2>2. Reserves(o)' /\ PassedWell(o)'
    BY <1>1, <1>12, <1>13, <2>1 DEF RequestInv, Reserves, PassedWell, Handle, AccountOf,
      SecretOf, Holding, Finishing
  <2>3. FoundWell(o)' /\ CountedWell(o)'
    BY <1>1, <1>13, <2>1 DEF RequestInv, FoundWell, CountedWell, Matched, Registered
  <2> QED
    BY <2>2, <2>3
<1> HIDE DEF LoginInv, TablesInv
<1> QED
  BY <1>1, <1>8, <1>10, <1>11, <1>12, <1>13, WriteStep

\* A verdict marks the challenge, which had none before.
LEMMA VerdictStep ==
  ASSUME LoginInv, NEW h \in Handlers, req[h].phase \in {"proof", "session"},
         challenge' = Consumed(req[h].challenge), req' = [req EXCEPT ![h] = Idle], Judged(h),
         UNCHANGED <<clock, account, vault, issued, registered, credential, answers>>
  PROVE  LoginInv'
<1> USE DEF LoginInv, TablesInv
<1>1. PICK c \in ChallengeIds : c = req[h].challenge /\ c \in Rows /\ ~challenge[c].consumed
  BY DEF RequestsInv, RequestInv, HoldsOpen, Rows, Holding
<1>2. challenge \in [ChallengeIds -> ChallengeRow \cup {None}] /\ challenge[c] \in ChallengeRow
  BY <1>1 DEF RowsTyped, Rows
<1>3. /\ challenge' = [challenge EXCEPT ![c].consumed = TRUE]
      /\ \A d \in ChallengeIds \ {c} : challenge'[d] = challenge[d]
      /\ challenge'[c] = [challenge[c] EXCEPT !.consumed = TRUE]
  BY <1>1, <1>2 DEF Consumed
<1>4. challenge'[c] \in ChallengeRow /\ challenge'[c].consumed
      /\ challenge'[c].type = challenge[c].type /\ challenge'[c].handle = challenge[c].handle
      /\ challenge'[c].account = challenge[c].account
  BY <1>2, <1>3 DEF ChallengeRow
<1>5. RowsTyped'
  BY <1>2, <1>3, <1>4 DEF RowsTyped
<1>6. RowsLeft
  BY <1>1, <1>3, <1>4 DEF RowsLeft, Rows
<1>7. RowsIssued' /\ \A d : Spent(d) => Spent(d)'
  BY <1>6, RowsLeftIssued
<1>8. SpentOnce'
  <2>1. verdicts[c] = 0
    BY <1>1 DEF SpentOnce, Spent
  <2>2. /\ verdicts' \in [ChallengeIds -> 0..1]
        /\ \A d \in ChallengeIds \ {c} : verdicts'[d] = verdicts[d]
    BY <1>1, <2>1 DEF Judged, SpentOnce
  <2>3. c \in Issued
    BY <1>1 DEF RowsIssued, Issued
  <2>4. Spent(c)'
    BY <1>4, <2>3 DEF Spent, Issued
  <2> QED
    BY <1>7, <2>2, <2>4 DEF SpentOnce
<1>9. TablesAgree'
  BY <1>6 DEF TablesAgree, AccountOf, RowsLeft
<1>10. CredentialsAgree'
  BY <1>6 DEF CredentialsAgree, RowsLeft
<1>11. TablesInv'
  BY <1>5, <1>7, <1>8, <1>9, <1>10 DEF AccountsRegistered, Registered
<1>12. Idle \in LoginRequest /\ Idle.phase = "idle"
  BY DEF Idle, LoginRequest
<1>13. \A o \in Handlers \ {h} : req[o].phase \in Holding =>
         challenge'[req[o].challenge] = challenge[req[o].challenge]
  BY <1>1, <1>3 DEF RequestsInv, RequestInv, HoldsOpen, Rows, Apart, Holding
<1>14. ASSUME NEW o \in Handlers \ {h}, req'[o] = req[o]
       PROVE  Reserves(o)' /\ FoundWell(o)' /\ PassedWell(o)' /\ CountedWell(o)'
  <2>1. RequestInv(o)
    BY DEF RequestsInv
  <2>2. Reserves(o)' /\ PassedWell(o)'
    BY <1>13, <1>14, <2>1 DEF RequestInv, Reserves, PassedWell, Handle, AccountOf,
      SecretOf, Holding, Finishing
  <2>3. FoundWell(o)' /\ CountedWell(o)'
    BY <1>14, <2>1 DEF RequestInv, FoundWell, CountedWell, Matched, Registered
  <2> QED
    BY <2>2, <2>3
<1> HIDE DEF LoginInv, TablesInv
<1> QED
  BY <1>11, <1>12, <1>13, <1>14, WriteStep

\* A new row has a new id, and the handle of the account it names.
LEMMA IssueStep ==
  ASSUME LoginInv, NEW h \in Handlers, NEW c \in ChallengeIds, Issue(h, c)
  PROVE  LoginInv'
<1> USE DEF LoginInv, TablesInv
<1>1. PICK r : r = req[h]
  OBVIOUS
<1>2. r \in [phase : {"insert"}, since : Nat, type : Types, handle : Handles, now : Nat,
             account : Accounts \cup {None}]
  BY <1>1 DEF Issue, InsertChallenge, RequestsInv, LoginRequest, Finishing
<1>3. /\ r.account # None => r.account \in Registered /\ account[r.account] # None
                              /\ account[r.account].handle = r.handle
      /\ c \notin Issued
  BY <1>1, <1>2, FreshIsUnused DEF Issue, InsertChallenge, ReferenceHolds, RequestsInv,
    RequestInv, FoundWell, Issued
<1>4. PICK row : row = [type |-> r.type, handle |-> r.handle, account |-> r.account,
                        created |-> clock, expires |-> r.now + Ttl[r.type], consumed |-> FALSE]
  OBVIOUS
<1>5. clock \in Nat /\ r.now + Ttl[r.type] \in Nat
  BY <1>2, RegistryAssumption DEF RowsTyped
<1>6. row \in ChallengeRow
  BY <1>2, <1>4, <1>5 DEF ChallengeRow
<1>7. PICK i : i = [id |-> c, type |-> r.type, handle |-> r.handle, at |-> clock]
  OBVIOUS
<1>8. /\ challenge' = [challenge EXCEPT ![c] = row]
      /\ issued' = issued \cup {i}
      /\ req' = [req EXCEPT ![h] = Idle]
      /\ UNCHANGED <<clock, account, vault, registered, credential, verdicts>>
  BY <1>1, <1>4, <1>7 DEF Issue, InsertChallenge
<1>9. /\ challenge'[c] = row
      /\ \A d \in ChallengeIds \ {c} : challenge'[d] = challenge[d]
      /\ \A d \in Rows' \ {c} : d \in Rows /\ challenge'[d] = challenge[d]
      /\ Issued' = Issued \cup {c}
      /\ c \notin Rows
  <2>1. /\ challenge'[c] = row
        /\ \A d \in ChallengeIds \ {c} : challenge'[d] = challenge[d]
    BY <1>8 DEF RowsTyped
  <2>2. \A d \in Rows' \ {c} : d \in Rows
    BY <2>1 DEF Rows
  <2>3. Issued' = Issued \cup {c}
    BY <1>7, <1>8 DEF Issued
  <2>4. c \notin Rows
    BY <1>3 DEF RowsIssued, Issued
  <2> QED
    BY <2>1, <2>2, <2>3, <2>4 DEF Rows
<1>10. RowsTyped'
  BY <1>6, <1>8 DEF RowsTyped
<1>11. RowsIssued'
  <2>1. i \in [id : ChallengeIds, type : Types, handle : Handles, at : Nat]
    BY <1>2, <1>5, <1>7
  <2>2. \A j \in issued : j.id # c
    BY <1>3 DEF Issued
  <2>3. \A d \in Rows' : \E j \in issued' :
          j.id = d /\ j.type = challenge'[d].type /\ j.handle = challenge'[d].handle
    <3>1. ASSUME NEW d \in Rows', d # c
          PROVE  \E j \in issued' :
                   j.id = d /\ j.type = challenge'[d].type /\ j.handle = challenge'[d].handle
      BY <1>8, <1>9, <3>1 DEF RowsIssued
    <3>2. i.id = c /\ i.type = challenge'[c].type /\ i.handle = challenge'[c].handle
      BY <1>4, <1>7, <1>9
    <3> QED
      BY <1>8, <3>1, <3>2
  <2> QED
    BY <1>7, <1>8, <2>1, <2>2, <2>3 DEF RowsIssued
<1>12. \A d : Spent(d) => Spent(d)'
  BY <1>3, <1>9 DEF Spent
<1>13. SpentOnce'
  BY <1>8, <1>12 DEF SpentOnce
<1>14. TablesAgree'
  <2>1. r.account # None => r.account \in AccountOf(r.handle)
    BY <1>2, <1>3 DEF AccountOf
  <2>2. \A d \in Rows' : challenge'[d].account # None =>
          challenge'[d].account \in AccountOf(challenge'[d].handle)
    BY <1>4, <1>9, <2>1 DEF TablesAgree
  <2> QED
    BY <1>8, <2>2 DEF TablesAgree, AccountOf
<1>15. CredentialsAgree'
  <2>1. r.account # None => credential[r.account] \in Credential
    BY <1>2, <1>3 DEF CredentialsAgree
  <2>2. AnsweredSalt(r.account, r.handle) \in Salts
    BY <1>2, <2>1 DEF AnsweredSalt, Salts, Credential
  <2>3. answers' = IF r.type = "login"
                     THEN [answers EXCEPT ![c] = AnsweredSalt(r.account, r.handle)]
                     ELSE answers
    BY <1>1 DEF Issue
  <2>4. /\ answers' \in [ChallengeIds -> Salts \cup {None}]
        /\ \A d \in ChallengeIds \ {c} : answers'[d] = answers[d]
        /\ r.type = "login" /\ r.account # None => answers'[c] = credential[r.account].salt
    BY <2>2, <2>3 DEF CredentialsAgree, AnsweredSalt
  <2>5. \A d \in Rows' : challenge'[d].type = "login" /\ challenge'[d].account # None =>
          answers'[d] = credential[challenge'[d].account].salt
    BY <1>4, <1>9, <2>4 DEF CredentialsAgree, Rows
  <2> QED
    BY <1>8, <2>4, <2>5 DEF CredentialsAgree
<1>16. TablesInv'
  BY <1>8, <1>10, <1>11, <1>13, <1>14, <1>15 DEF AccountsRegistered, Registered
<1>17. Idle \in LoginRequest /\ Idle.phase = "idle"
  BY DEF Idle, LoginRequest
<1>18. \A o \in Handlers : req[o].phase \in Holding =>
         challenge'[req[o].challenge] = challenge[req[o].challenge]
  BY <1>9 DEF RequestsInv, RequestInv, HoldsOpen, Rows
<1>19. ASSUME NEW o \in Handlers \ {h}, req'[o] = req[o]
       PROVE  Reserves(o)' /\ FoundWell(o)' /\ PassedWell(o)' /\ CountedWell(o)'
  <2>1. RequestInv(o)
    BY DEF RequestsInv
  <2>2. Reserves(o)' /\ PassedWell(o)'
    BY <1>8, <1>18, <1>19, <2>1 DEF RequestInv, Reserves, PassedWell, Handle, AccountOf,
      SecretOf, Holding, Finishing
  <2>3. FoundWell(o)' /\ CountedWell(o)'
    BY <1>8, <1>19, <2>1 DEF RequestInv, FoundWell, CountedWell, Matched, Registered
  <2> QED
    BY <2>2, <2>3
<1> HIDE DEF LoginInv, TablesInv
<1> QED
  BY <1>8, <1>16, <1>17, <1>18, <1>19, WriteStep

\* A registration inserts what it has reserved, and the account is new.
LEMMA RegisterStep ==
  ASSUME LoginInv, NEW h \in Handlers, NEW a \in Accounts, NEW secret \in Secrets,
         Register(h, a, secret)
  PROVE  LoginInv'
<1> USE DEF LoginInv, TablesInv
<1>1. PICK r : r = req[h]
  OBVIOUS
<1>2. r \in [phase : Finishing, since : Nat, challenge : ChallengeIds, vault : VaultIds]
      /\ r.phase = "commit"
  BY <1>1 DEF Register, FinishCommit, RequestsInv, LoginRequest
<1>3. PICK c \in ChallengeIds : c = r.challenge /\ c \in Rows /\ ~challenge[c].consumed
                                 /\ challenge[c].type = "register"
  BY <1>1, <1>2 DEF RequestsInv, RequestInv, HoldsOpen, Holding, Finishing
<1>4. PICK v \in VaultIds : v = r.vault /\ vault[v] = None
  BY <1>1, <1>2 DEF RequestsInv, RequestInv, Reserves
<1>5. PICK handle \in Handles : handle = challenge[c].handle /\ handle = Handle(h)
                                 /\ AccountOf(handle) = {}
  BY <1>1, <1>2, <1>3 DEF RequestsInv, RequestInv, Reserves, Handle, Rows, RowsTyped, ChallengeRow
<1>6. a \notin Registered /\ account[a] = None
  BY FreshIsUnused DEF Register, FinishCommit, Registered, AccountsRegistered
<1>7. PICK row : row = [handle |-> handle, created |-> r.since]
  OBVIOUS
<1>8. row \in AccountRow /\ row # None
  BY <1>2, <1>7, RegistryAssumption DEF AccountRow
<1>9. PICK cred : cred = [salt |-> c, stored |-> StoredKey(ClientKey(secret, c))]
  OBVIOUS
<1>10. /\ cred \in Credential /\ cred # None
       /\ cred.stored.hash_of.salt = cred.salt
  BY <1>9, LoginAssumption DEF Credential, StoredKey, ClientKey
<1>11. PICK done : done = [challenge |-> c, account |-> a]
  OBVIOUS
<1>12. /\ account' = [account EXCEPT ![a] = row]
       /\ vault' = [vault EXCEPT ![v] = a]
       /\ challenge' = [challenge EXCEPT ![c].consumed = TRUE]
       /\ registered' = registered \cup {done}
       /\ req' = [req EXCEPT ![h] = Idle]
       /\ credential' = [credential EXCEPT ![a] = cred]
       /\ UNCHANGED <<clock, issued, answers, verdicts>>
  BY <1>1, <1>3, <1>4, <1>5, <1>7, <1>9, <1>11 DEF Register, FinishCommit, Consumed
<1>13. challenge \in [ChallengeIds -> ChallengeRow \cup {None}] /\ challenge[c] \in ChallengeRow
  BY <1>3 DEF RowsTyped, Rows
<1>14. /\ \A d \in ChallengeIds \ {c} : challenge'[d] = challenge[d]
       /\ challenge'[c] = [challenge[c] EXCEPT !.consumed = TRUE]
  BY <1>12, <1>13
<1>15. challenge'[c] \in ChallengeRow /\ challenge'[c].consumed
      /\ challenge'[c].type = challenge[c].type /\ challenge'[c].handle = challenge[c].handle
      /\ challenge'[c].account = challenge[c].account
  BY <1>13, <1>14 DEF ChallengeRow
<1>16. /\ \A b \in Accounts \ {a} : account'[b] = account[b] /\ credential'[b] = credential[b]
       /\ account'[a] = row /\ credential'[a] = cred
       /\ \A w \in VaultIds \ {v} : vault'[w] = vault[w]
       /\ vault'[v] = a
  BY <1>12 DEF RowsTyped, CredentialsAgree
<1>17. RowsTyped'
  BY <1>8, <1>12, <1>13, <1>14, <1>15 DEF RowsTyped
<1>18. RowsLeft
  BY <1>3, <1>14, <1>15 DEF RowsLeft, Rows
<1>19. RowsIssued' /\ \A d : Spent(d) => Spent(d)'
  BY <1>12, <1>18, RowsLeftIssued
<1>20. SpentOnce'
  <2>1. \A q \in registered : q.challenge # c
    BY <1>3 DEF SpentOnce, Spent
  <2>2. Spent(c)'
    BY <1>3, <1>12, <1>15 DEF Spent, Issued, RowsIssued
  <2> QED
    BY <1>11, <1>12, <1>19, <2>1, <2>2 DEF SpentOnce
<1>21. AccountsRegistered'
  BY <1>11, <1>12, <1>16 DEF AccountsRegistered, Registered
<1>22. TablesAgree'
  <2>1. \A b \in Accounts : account[b] # None => account[b].handle # handle /\ b # a
    BY <1>5, <1>6 DEF AccountOf
  <2>2. \A w \in VaultIds : vault[w] # a /\ (vault[w] # None => vault[w] \in Accounts)
    BY <1>6, RegistryAssumption DEF TablesAgree, RowsTyped
  <2>3. (\A x, y \in Accounts :
           account[x] # None /\ account[y] # None /\ account[x].handle = account[y].handle
             => x = y)'
    BY <1>7, <1>16, <2>1 DEF TablesAgree
  <2>4. (\A d \in Rows : challenge[d].account # None =>
           challenge[d].account \in AccountOf(challenge[d].handle))'
    BY <1>16, <1>18, <2>1 DEF TablesAgree, AccountOf, RowsLeft
  <2>5. (\A w \in VaultIds : vault[w] # None => account[vault[w]] # None)'
    BY <1>8, <1>16, <2>2 DEF TablesAgree
  <2>6. (\A u, w \in VaultIds : vault[u] # None /\ vault[u] = vault[w] => u = w)'
    BY <1>16, <2>2 DEF TablesAgree
  <2>7. (\A b \in Accounts : account[b] # None => \E w \in VaultIds : vault[w] = b)'
    BY <1>4, <1>16, RegistryAssumption DEF TablesAgree
  <2> QED
    BY <2>3, <2>4, <2>5, <2>6, <2>7 DEF TablesAgree
<1>23. CredentialsAgree'
  <2>1. \A d \in Rows' : challenge'[d].type = "login" /\ challenge'[d].account # None =>
          /\ challenge[d].type = "login" /\ challenge[d].account # None /\ d \in Rows
          /\ challenge'[d].account = challenge[d].account
          /\ challenge[d].account \in Accounts \ {a}
    BY <1>6, <1>18 DEF RowsLeft, TablesAgree, AccountOf
  <2> QED
    BY <1>8, <1>10, <1>12, <1>16, <2>1 DEF CredentialsAgree
<1>24. TablesInv'
  BY <1>17, <1>19, <1>20, <1>21, <1>22, <1>23
<1>25. Idle \in LoginRequest /\ Idle.phase = "idle"
  BY DEF Idle, LoginRequest
<1>26. \A o \in Handlers \ {h} : req[o].phase \in Holding =>
         challenge'[req[o].challenge] = challenge[req[o].challenge]
  BY <1>1, <1>2, <1>3, <1>14 DEF RequestsInv, RequestInv, HoldsOpen, Rows, Apart, Holding
<1>27. ASSUME NEW o \in Handlers \ {h}, req'[o] = req[o]
       PROVE  Reserves(o)' /\ FoundWell(o)' /\ PassedWell(o)' /\ CountedWell(o)'
  <2>1. RequestInv(o) /\ Apart(h, o) /\ req[o] \in LoginRequest
    BY DEF RequestsInv
  <2>2. Reserves(o)'
    <3>1. CASE req[o].phase \in {"vault", "commit"}
      <4>1. Handle(o)' = Handle(o) /\ Handle(o) # handle
        BY <1>1, <1>2, <1>5, <1>26, <1>27, <2>1, <3>1 DEF Handle, Apart, Holding, Finishing
      <4>2. AccountOf(Handle(o))' = {}
        BY <1>7, <1>16, <2>1, <3>1, <4>1 DEF RequestInv, Reserves, AccountOf
      <4>3. req[o].phase = "commit" => req[o].vault \in VaultIds \ {v}
        BY <1>1, <1>2, <1>4, <2>1 DEF Apart, LoginRequest, Finishing
      <4>4. req[o].phase = "commit" => vault'[req[o].vault] = None
        BY <1>16, <2>1, <4>3 DEF RequestInv, Reserves
      <4> QED
        BY <1>27, <4>2, <4>4 DEF Reserves
    <3>2. CASE req[o].phase \notin {"vault", "commit"}
      BY <1>27, <3>2 DEF Reserves
    <3> QED
      BY <3>1, <3>2
  <2>3. FoundWell(o)'
    <3>1. req[o].phase = "insert" /\ req[o].account # None => req[o].account \in Accounts \ {a}
      BY <1>6, <2>1 DEF RequestInv, FoundWell, LoginRequest, Finishing
    <3> QED
      BY <1>12, <1>16, <1>27, <2>1, <3>1 DEF RequestInv, FoundWell, Registered
  <2>4. PassedWell(o)'
    <3>1. CASE req[o].phase = "session"
      <4>1. PICK d \in Rows : d = req[o].challenge /\ challenge'[d] = challenge[d]
        BY <1>26, <2>1, <3>1 DEF RequestInv, HoldsOpen, Holding
      <4>2. /\ challenge[d].account # None /\ account[challenge[d].account] # None
            /\ req[o].own = d /\ req[o].secret = SecretOf(challenge[d].account)
        BY <2>1, <3>1, <4>1 DEF RequestInv, PassedWell
      <4>3. challenge[d].account \in Accounts \ {a}
        BY <1>6, <4>1, <4>2 DEF RowsTyped, Rows, ChallengeRow
      <4> QED
        BY <1>16, <1>27, <4>1, <4>2, <4>3 DEF PassedWell, SecretOf
    <3>2. CASE req[o].phase # "session"
      BY <1>27, <3>2 DEF PassedWell
    <3> QED
      BY <3>1, <3>2
  <2>5. CountedWell(o)'
    <3>1. CASE req[o].phase = "delete"
      <4>1. PICK cutoff \in Int : cutoff = req[o].cutoff /\ req[o].matched \in Nat
        BY <2>1, <3>1 DEF LoginRequest, Finishing
      <4>2. cutoff <= clock - MinAge /\ Cardinality(Matched(cutoff)) <= req[o].matched
        BY <2>1, <3>1, <4>1 DEF RequestInv, CountedWell
      <4>3. clock <= r.since + MaxLag
        BY <1>1, <1>2 DEF RequestsInv, RequestInv, InTime
      <4>4. clock \in Nat /\ MinAge \in Nat /\ MaxLag \in Nat /\ MaxLag <= MinAge
        BY RegistryAssumption DEF RowsTyped
      <4>5. ~(row.created < cutoff)
        BY <1>2, <1>7, <4>2, <4>3, <4>4
      <4>6. Matched(cutoff)' = Matched(cutoff)
        BY <1>6, <1>16, <4>5 DEF Matched
      <4>7. Matched(req[o].cutoff)' = Matched(cutoff)
        BY <1>27, <4>1, <4>6
      <4>8. /\ req'[o].cutoff <= clock' - MinAge
            /\ Cardinality(Matched(req[o].cutoff)') <= req'[o].matched
        BY <1>12, <1>27, <4>1, <4>2, <4>7
      <4> QED
        BY <4>8 DEF CountedWell
    <3>2. CASE req[o].phase # "delete"
      BY <1>27, <3>2 DEF CountedWell
    <3> QED
      BY <3>1, <3>2
  <2> QED
    BY <2>2, <2>3, <2>4, <2>5
<1> HIDE DEF LoginInv, TablesInv
<1> QED
  BY <1>12, <1>24, <1>25, <1>26, <1>27, WriteStep

\* What a clean-up deletes, nothing that remains depends on.
LEMMA CleanUpStep ==
  ASSUME LoginInv, NEW h \in Handlers, CleanUp(h)
  PROVE  LoginInv'
<1> USE DEF LoginInv, TablesInv
<1>1. PICK S \in Candidates(req[h].cutoff) :
        /\ \A c \in Rows : challenge[c].account \in S => ~Locked(c)
        /\ Cascaded(S)
  BY DEF CleanUp, DeleteSynthetic
<1>2. S \subseteq Accounts /\ \A a \in S : account[a] # None
  BY <1>1 DEF Candidates, Matched
<1>3. /\ account' = [a \in Accounts |-> IF a \in S THEN None ELSE account[a]]
      /\ vault' = [v \in VaultIds |-> IF vault[v] \in S THEN None ELSE vault[v]]
      /\ challenge' = [c \in ChallengeIds |->
           IF c \in Rows /\ challenge[c].account \in S THEN None ELSE challenge[c]]
  BY <1>1 DEF Cascaded
<1>4. /\ credential' = [a \in Accounts |-> IF account'[a] = None THEN None ELSE credential[a]]
      /\ req' = [req EXCEPT ![h] = Idle]
      /\ UNCHANGED <<clock, issued, registered, answers, verdicts>>
  BY DEF CleanUp, DeleteSynthetic
<1>5. RowsTyped'
  BY <1>3, <1>4 DEF RowsTyped
<1>6. \A c \in Rows' : c \in Rows /\ challenge'[c] = challenge[c] /\ challenge[c].account \notin S
  BY <1>3 DEF Rows
<1>7. \A a \in Accounts :
        /\ account'[a] # None => a \notin S /\ account[a] # None /\ account'[a] = account[a]
        /\ a \notin S => account'[a] = account[a] /\ credential'[a] = credential[a]
  BY <1>3, <1>4 DEF CredentialsAgree
<1>8. \A v \in VaultIds :
        /\ vault'[v] # None => vault[v] \notin S /\ vault'[v] = vault[v] /\ vault[v] # None
        /\ vault[v] \notin S => vault'[v] = vault[v]
  BY <1>3
<1>9. RowsIssued' /\ \A c : Spent(c) => Spent(c)'
  BY <1>4, <1>6, RowsLeftIssued DEF RowsLeft
<1>10. SpentOnce'
  BY <1>4, <1>9 DEF SpentOnce
<1>11. AccountsRegistered'
  BY <1>4, <1>7 DEF AccountsRegistered, Registered
<1>12. TablesAgree'
  <2>1. (\A a, b \in Accounts :
           account[a] # None /\ account[b] # None /\ account[a].handle = account[b].handle
             => a = b)'
    BY <1>7 DEF TablesAgree
  <2>2. (\A c \in Rows : challenge[c].account # None =>
           challenge[c].account \in AccountOf(challenge[c].handle))'
    BY <1>6, <1>7 DEF TablesAgree, AccountOf
  <2>3. (\A v \in VaultIds : vault[v] # None => account[vault[v]] # None)'
    BY <1>7, <1>8 DEF TablesAgree, RowsTyped
  <2>4. (\A v, w \in VaultIds : vault[v] # None /\ vault[v] = vault[w] => v = w)'
    BY <1>8 DEF TablesAgree
  <2>5. (\A a \in Accounts : account[a] # None => \E v \in VaultIds : vault[v] = a)'
    BY <1>7, <1>8 DEF TablesAgree
  <2> QED
    BY <2>1, <2>2, <2>3, <2>4, <2>5 DEF TablesAgree
<1>13. CredentialsAgree'
  <2>1. credential' \in [Accounts -> Credential \cup {None}]
    BY <1>4 DEF CredentialsAgree
  <2>2. (\A a \in Accounts : account[a] = None <=> credential[a] = None)'
    BY <1>4, <1>7 DEF CredentialsAgree
  <2>3. (\A a \in Accounts : credential[a] # None =>
           credential[a].stored.hash_of.salt = credential[a].salt)'
    BY <1>4 DEF CredentialsAgree
  <2>4. \A c \in Rows' : challenge'[c].account # None => challenge[c].account \in Accounts \ S
    BY <1>6 DEF TablesAgree, AccountOf
  <2>5. (\A c \in Rows : challenge[c].type = "login" /\ challenge[c].account # None =>
           answers[c] = credential[challenge[c].account].salt)'
    BY <1>4, <1>6, <1>7, <2>4 DEF CredentialsAgree
  <2> QED
    BY <1>4, <2>1, <2>2, <2>3, <2>5 DEF CredentialsAgree
<1>14. TablesInv'
  BY <1>5, <1>9, <1>10, <1>11, <1>12, <1>13
<1>15. Idle \in LoginRequest /\ Idle.phase = "idle"
  BY DEF Idle, LoginRequest
<1>16. \A o \in Handlers \ {h} : req[o].phase \in Holding =>
         /\ challenge'[req[o].challenge] = challenge[req[o].challenge]
         /\ challenge[req[o].challenge].account \notin S
  <2> SUFFICES ASSUME NEW o \in Handlers \ {h}, req[o].phase \in Holding
               PROVE  /\ challenge'[req[o].challenge] = challenge[req[o].challenge]
                      /\ challenge[req[o].challenge].account \notin S
    OBVIOUS
  <2>1. req[o].challenge \in Rows
    BY DEF RequestsInv, RequestInv, HoldsOpen
  <2>2. challenge[req[o].challenge].account \notin S
    BY <1>1, <2>1 DEF Locked
  <2> QED
    BY <1>3, <2>1, <2>2 DEF Rows
<1>17. ASSUME NEW o \in Handlers \ {h}, req'[o] = req[o]
       PROVE  Reserves(o)' /\ FoundWell(o)' /\ PassedWell(o)' /\ CountedWell(o)'
  <2>1. RequestInv(o) /\ req[o] \in LoginRequest
    BY DEF RequestsInv
  <2>2. Reserves(o)'
    <3>1. req[o].phase \in {"vault", "commit"} => Handle(o)' = Handle(o)
      BY <1>16, <1>17 DEF Handle, Holding, Finishing
    <3>2. req[o].phase \in {"vault", "commit"} => AccountOf(Handle(o))' = {}
      BY <1>7, <2>1, <3>1 DEF RequestInv, Reserves, AccountOf
    <3>3. req[o].phase = "commit" => req[o].vault \in VaultIds /\ vault[req[o].vault] = None
      BY <2>1 DEF RequestInv, Reserves, LoginRequest, Finishing
    <3> QED
      BY <1>3, <1>17, <3>2, <3>3 DEF Reserves
  <2>3. FoundWell(o)'
    <3>1. req[o].phase = "insert" /\ req[o].account # None => req[o].account \in Accounts
      BY <2>1 DEF LoginRequest, Finishing
    <3> QED
      BY <1>4, <1>7, <1>17, <2>1, <3>1 DEF RequestInv, FoundWell, Registered
  <2>4. PassedWell(o)'
    <3>1. CASE req[o].phase = "session"
      <4>1. PICK c \in Rows : c = req[o].challenge /\ challenge'[c] = challenge[c]
                               /\ challenge[c].account \notin S
        BY <1>16, <2>1, <3>1 DEF RequestInv, HoldsOpen, Holding
      <4>2. /\ challenge[c].account # None /\ account[challenge[c].account] # None
            /\ req[o].own = c /\ req[o].secret = SecretOf(challenge[c].account)
        BY <2>1, <3>1, <4>1 DEF RequestInv, PassedWell
      <4>3. challenge[c].account \in Accounts \ S
        BY <4>1, <4>2 DEF RowsTyped, Rows, ChallengeRow
      <4> QED
        BY <1>7, <1>17, <4>1, <4>2, <4>3 DEF PassedWell, SecretOf
    <3>2. CASE req[o].phase # "session"
      BY <1>17, <3>2 DEF PassedWell
    <3> QED
      BY <3>1, <3>2
  <2>5. CountedWell(o)'
    <3>1. CASE req[o].phase = "delete"
      <4>1. PICK cutoff \in Int : cutoff = req[o].cutoff /\ req[o].matched \in Nat
        BY <2>1, <3>1 DEF LoginRequest, Finishing
      <4>2. cutoff <= clock - MinAge /\ Cardinality(Matched(cutoff)) <= req[o].matched
        BY <2>1, <3>1, <4>1 DEF RequestInv, CountedWell
      <4>3. Matched(cutoff)' \subseteq Matched(cutoff)
        BY <1>7 DEF Matched
      <4>4. Cardinality(Matched(cutoff)') <= Cardinality(Matched(cutoff))
            /\ Cardinality(Matched(cutoff)') \in Nat /\ Cardinality(Matched(cutoff)) \in Nat
        BY <4>3, MatchedFinite, FS_Subset, FS_CardinalityType
      <4>5. Matched(req[o].cutoff)' = Matched(cutoff)'
        BY <1>17, <4>1
      <4>6. /\ req'[o].cutoff <= clock' - MinAge
            /\ Cardinality(Matched(req[o].cutoff)') <= req'[o].matched
        BY <1>4, <1>17, <4>1, <4>2, <4>4, <4>5
      <4> QED
        BY <4>6 DEF CountedWell
    <3>2. CASE req[o].phase # "delete"
      BY <1>17, <3>2 DEF CountedWell
    <3> QED
      BY <3>1, <3>2
  <2> QED
    BY <2>2, <2>3, <2>4, <2>5
<1> HIDE DEF LoginInv, TablesInv
<1> QED
  BY <1>4, <1>14, <1>15, <1>16, <1>17, WriteStep

-----------------------------------------------------------------------------
(***************************************************************************)
(* The invariant.                                                          *)
(***************************************************************************)

LEMMA LoginInitInv == LoginInit => LoginInv
<1> SUFFICES ASSUME LoginInit PROVE LoginInv
  OBVIOUS
<1>1. /\ Rows = {} /\ issued = {} /\ registered = {} /\ clock = 0
      /\ challenge = [c \in ChallengeIds |-> None]
      /\ account = [a \in Accounts |-> None] /\ vault = [v \in VaultIds |-> None]
      /\ credential = [a \in Accounts |-> None] /\ answers = [c \in ChallengeIds |-> None]
      /\ verdicts = [c \in ChallengeIds |-> 0] /\ req = [h \in Handlers |-> Idle]
  BY DEF LoginInit, Init, Rows
<1>2. RowsTyped
  BY <1>1, RegistryAssumption DEF RowsTyped
<1>3. RowsIssued /\ AccountsRegistered /\ SpentOnce
  BY <1>1 DEF RowsIssued, AccountsRegistered, SpentOnce
<1>4. TablesAgree /\ CredentialsAgree
  BY <1>1 DEF TablesAgree, CredentialsAgree
<1>5. ASSUME NEW h \in Handlers
      PROVE  req[h] \in LoginRequest /\ RequestInv(h) /\ \A o \in Handlers : Apart(h, o)
  BY <1>1 DEF Idle, LoginRequest, RequestInv, InTime, HoldsOpen, Reserves, FoundWell, PassedWell,
    CountedWell, Apart, Holding, Finishing
<1>6. req \in [Handlers -> LoginRequest]
  BY <1>1, <1>5
<1> QED
  BY <1>2, <1>3, <1>4, <1>5, <1>6 DEF LoginInv, TablesInv, RequestsInv

LEMMA RegistryStepInv ==
  ASSUME LoginInv, NEW h \in Handlers, RegistryStep(h)
  PROVE  LoginInv'
<1>1. UNCHANGED <<credential, answers, verdicts>>
  BY DEF RegistryStep
<1>2. ASSUME RateLimited(h) \/ Unavailable(h) \/ Stop(h)
      PROVE  LoginInv'
  <2>1. req' = [req EXCEPT ![h] = Idle]
    BY <1>2 DEF RateLimited, Unavailable, Stop
  <2>2. UNCHANGED Tables /\ UNCHANGED clock
    BY <1>1, <1>2 DEF RateLimited, Unavailable, Stop, Tables
  <2> QED
    BY <2>1, <2>2, EndStep
<1> QED
  BY <1>1, <1>2, StartStep, PermitStep, LoadStep, FinishLockStep, InsertAccountStep,
    InsertVaultStep, CountStep DEF RegistryStep

LEMMA LoginStep ==
  ASSUME LoginInv, [LoginNext]_loginVars
  PROVE  LoginInv'
<1>1. ASSUME NEW h \in Handlers, LoginFails(h) \/ LoginCommit(h)
      PROVE  LoginInv'
  BY <1>1, VerdictStep DEF LoginFails, LoginCommit
<1>2. ASSUME NEW h \in Handlers, NEW c \in Answered, NEW own \in Answered, NEW secret \in Secrets,
             NEW nonces \in {c, own}, LoginLock(h, c, nonces, own, secret)
      PROVE  LoginInv'
  BY <1>2, LoginLockStep DEF Answered
<1>3. CASE UNCHANGED loginVars
  <2>1. UNCHANGED Tables /\ UNCHANGED <<clock, req>>
    BY <1>3 DEF loginVars, vars, Tables
  <2>2. TablesInv'
    BY <2>1, QuietTables DEF LoginInv, TablesInv, RowsTyped
  <2>3. \A h \in Handlers : RequestInv(h)'
    BY <2>1, QuietRequest DEF LoginInv, RequestsInv
  <2>4. \A h, o \in Handlers : h # o => Apart(h, o)'
    BY <2>1 DEF LoginInv, RequestsInv, Apart, Handle, Tables
  <2> QED
    BY <2>1, <2>2, <2>3, <2>4 DEF LoginInv, RequestsInv
<1> QED
  BY <1>1, <1>2, <1>3, RegistryStepInv, IssueStep, RegisterStep, CleanUpStep, PassStep, TickStep
  DEF LoginNext

LEMMA LoginInvariant == LoginSpec => []LoginInv
BY LoginInitInv, LoginStep, PTL DEF LoginSpec

-----------------------------------------------------------------------------
(***************************************************************************)
(* What follows from it.                                                   *)
(***************************************************************************)

LEMMA InvTyped == LoginInv => LoginTypeOK
<1> SUFFICES ASSUME LoginInv PROVE LoginTypeOK
  OBVIOUS
<1>1. ASSUME NEW h \in Handlers, req[h].phase \in Holding
      PROVE  /\ req[h].challenge \in Rows /\ ~challenge[req[h].challenge].consumed
             /\ challenge[req[h].challenge].type =
                  IF req[h].phase \in Finishing THEN "register" ELSE "login"
             /\ \A o \in Others(h, Holding) : req[o].challenge # req[h].challenge
  BY <1>1 DEF LoginInv, RequestsInv, RequestInv, HoldsOpen, Apart, Others
<1>2. TypeOK
  BY <1>1 DEF TypeOK, LoginInv, TablesInv, RowsTyped, Others, Holding
<1>3. \A h \in Handlers : req[h].phase \in {"proof", "session"} =>
        /\ req[h].challenge \in Rows /\ ~challenge[req[h].challenge].consumed
        /\ challenge[req[h].challenge].type = "login"
        /\ \A o \in Others(h, Holding) : req[o].challenge # req[h].challenge
  BY <1>1 DEF Holding, Finishing
<1> QED
  BY <1>2, <1>3 DEF LoginTypeOK, LoginInv, TablesInv, CredentialsAgree

LEMMA InvWhole == LoginInv => AccountsWhole
<1> SUFFICES ASSUME LoginInv PROVE AccountsWhole
  OBVIOUS
<1> USE DEF LoginInv, TablesInv
<1>1. ASSUME NEW handle \in Handles
      PROVE  Cardinality(AccountOf(handle)) <= 1
  <2>1. CASE AccountOf(handle) = {}
    BY <2>1, FS_EmptySet
  <2>2. CASE AccountOf(handle) # {}
    <3>1. PICK a : AccountOf(handle) = {a}
      BY <2>2 DEF AccountOf, TablesAgree
    <3> QED
      BY <3>1, FS_Singleton
  <2> QED
    BY <2>1, <2>2
<1>2. ASSUME NEW a \in Accounts, account[a] # None
      PROVE  Cardinality({ v \in VaultIds : vault[v] = a }) = 1
  <2>1. PICK v \in VaultIds : vault[v] = a
    BY <1>2 DEF TablesAgree
  <2>2. { w \in VaultIds : vault[w] = a } = {v}
    BY <2>1, RegistryAssumption DEF TablesAgree
  <2> QED
    BY <2>2, FS_Singleton
<1> QED
  BY <1>1, <1>2 DEF AccountsWhole, TablesAgree

LEMMA InvDecides == LoginInv => ProofDecides
<1> SUFFICES ASSUME LoginInv PROVE ProofDecides
  OBVIOUS
<1>1. \A h \in Handlers : PassedWell(h)
  BY DEF LoginInv, RequestsInv, RequestInv
<1> QED
  BY <1>1, OwnerPasses DEF ProofDecides, PassedWell

LEMMA InvAnswered == LoginInv => ChallengeAnsweredOnce
<1> SUFFICES ASSUME LoginInv PROVE ChallengeAnsweredOnce
  OBVIOUS
<1>1. SpentOnce
  BY DEF LoginInv, TablesInv
<1> QED
  BY <1>1 DEF SpentOnce, ChallengeAnsweredOnce

\* Only a clean-up deletes accounts, and no more than it counted.
LEMMA ReportsStep ==
  ASSUME LoginInv, LoginNext, Removed # {}
  PROVE  \E h \in Handlers :
           /\ req[h].phase = "delete" /\ req'[h] = Idle
           /\ Cardinality(Removed) <= req[h].matched
           /\ Cardinality(Removed) <= MaxDelete
<1>1. PICK a \in Accounts : account[a] # None /\ account'[a] = None
  BY DEF Removed
<1>2. ASSUME NEW h \in Handlers, NEW b \in Accounts, NEW secret \in Secrets, Register(h, b, secret)
      PROVE  FALSE
  <2>1. /\ req[h] \in [phase : Finishing, since : Nat, challenge : ChallengeIds, vault : VaultIds]
        /\ Handle(h) \in Handles
    BY <1>2 DEF Register, FinishCommit, LoginInv, RequestsInv, RequestInv, HoldsOpen, LoginRequest,
      Holding, Finishing, TablesInv, RowsTyped, Rows, ChallengeRow, Handle
  <2>2. [handle |-> Handle(h), created |-> req[h].since] # None
    BY <2>1, RegistryAssumption DEF AccountRow
  <2>3. account' = [account EXCEPT ![b] = [handle |-> Handle(h), created |-> req[h].since]]
    BY <1>2 DEF Register, FinishCommit
  <2> QED
    BY <1>1, <2>2, <2>3 DEF LoginInv, TablesInv, RowsTyped
<1>3. PICK h \in Handlers : CleanUp(h)
  BY <1>1, <1>2 DEF LoginNext, RegistryStep, Start, Permit, RateLimited, LoadMetadata, FinishLock,
    InsertAccount, InsertVault, Unavailable, CountSynthetic, Stop, Issue, InsertChallenge,
    LoginLock, LoginFails, LoginPasses, LoginCommit, Tick
<1>4. PICK S \in Candidates(req[h].cutoff) : Cascaded(S)
  BY <1>3 DEF CleanUp, DeleteSynthetic
<1>5. PICK M : M = Matched(req[h].cutoff)
  OBVIOUS
<1>6. IsFiniteSet(M) /\ Cardinality(M) \in Nat
  BY <1>5, MatchedFinite
<1>7. /\ S \subseteq M
      /\ Cardinality(S) = IF Cardinality(M) <= MaxDelete THEN Cardinality(M) ELSE MaxDelete
  BY <1>4, <1>5 DEF Candidates
<1>8. Removed \subseteq S
  BY <1>4 DEF Removed, Cascaded
<1>9. IsFiniteSet(S)
  BY <1>6, <1>7, FS_Subset
<1>10. /\ Cardinality(Removed) <= Cardinality(S)
       /\ Cardinality(Removed) \in Nat /\ Cardinality(S) \in Nat
  BY <1>8, <1>9, FS_Subset, FS_CardinalityType
<1>11. /\ req[h].phase = "delete" /\ req' = [req EXCEPT ![h] = Idle]
  BY <1>3 DEF CleanUp, DeleteSynthetic
<1>12. req'[h] = Idle /\ req[h].matched \in Nat
  BY <1>11 DEF LoginInv, RequestsInv, LoginRequest, Finishing
<1>13. Cardinality(M) <= req[h].matched
  BY <1>5, <1>11 DEF LoginInv, RequestsInv, RequestInv, CountedWell
<1> QED
  BY <1>6, <1>7, <1>10, <1>11, <1>12, <1>13, RegistryAssumption

-----------------------------------------------------------------------------
(* Rows have their columns, and a transaction keeps the challenge it has
   locked with FOR UPDATE: there, open, and no other one's.                 *)
THEOREM LoginTypeCorrect == LoginSpec => []LoginTypeOK
BY LoginInvariant, InvTyped, PTL

(* The unique indexes and foreign keys keep accounts, vaults and challenges
   together, for any number of registrations, logins and clean-ups.         *)
THEOREM RegistrySafe == LoginSpec => []AccountsWhole
BY LoginInvariant, InvWhole, PTL

(* login_finish accepts a proof exactly when it is made with the secret of
   the account the challenge was issued for, for that challenge.            *)
THEOREM ProofSafe == LoginSpec => []ProofDecides
BY LoginInvariant, InvDecides, PTL

(* register_finish and login_finish use a challenge up. *)
THEOREM AnsweredOnce == LoginSpec => []ChallengeAnsweredOnce
BY LoginInvariant, InvAnswered, PTL

(* cleanup_synthetic_accounts deletes no more accounts than it has reported
   and than permitted, and nothing else deletes any.                        *)
THEOREM ReportsSafe == LoginSpec => ReportsHold
<1>1. LoginInv /\ [LoginNext]_loginVars =>
        [Removed # {} =>
           \E h \in Handlers :
             /\ req[h].phase = "delete" /\ req'[h] = Idle
             /\ Cardinality(Removed) <= req[h].matched
             /\ Cardinality(Removed) <= MaxDelete]_vars
  BY ReportsStep DEF loginVars
<1> QED
  BY <1>1, LoginInvariant, PTL DEF LoginSpec, ReportsHold

-----------------------------------------------------------------------------
(***************************************************************************)
(* The rate limit.  Inside a window, what is issued and what may still be  *)
(* issued together stay under the bound: a request that is let through     *)
(* counts every challenge of the window, so that less than the limit is    *)
(* issued then, and the others under way are at most all other handlers.   *)
(***************************************************************************)

InFlight(type, handle) ==
  { h \in Handlers : /\ req[h].phase \in {"metadata", "insert"}
                     /\ req[h].type = type /\ req[h].handle = handle }

IssuedWithin(type, handle, t) ==
  { j \in issued : j.type = type /\ j.handle = handle /\ t <= j.at /\ j.at <= t + Span }

Bound == Limit - 1 + Cardinality(Handlers)

Rate(type, handle, t) ==
  /\ Cardinality(IssuedWithin(type, handle, t)) <= Bound
  /\ clock <= t + Span =>
       Cardinality(IssuedWithin(type, handle, t)) + Cardinality(InFlight(type, handle)) <= Bound

Rates ==
  \A type \in Types, handle \in Handles, t \in Nat :
    type = "register" \/ handle \notin Synthetic => Rate(type, handle, t)

\* A recent challenge is still there to be counted.
RecentCounted ==
  \A j \in issued :
    OutOfReach(j) /\ clock <= j.at + Span =>
      /\ j.id \in Rows
      /\ challenge[j.id].type = j.type /\ challenge[j.id].handle = j.handle
      /\ challenge[j.id].created = j.at /\ challenge[j.id].expires >= j.at + Span

\* register_start looks no account up, and expires_at is at most MaxLag early.
WaitingWell(h) ==
  /\ req[h].phase = "metadata" => req[h].type = "login"
  /\ req[h].phase = "insert" =>
       /\ req[h].since <= req[h].now
       /\ req[h].type = "register" => req[h].account = None

RegisterRows == \A c \in Rows : challenge[c].type = "register" => challenge[c].account = None

RateInv == Rates /\ RecentCounted /\ RegisterRows /\ \A h \in Handlers : WaitingWell(h)

LEMMA RateFacts ==
  ASSUME LoginInv
  PROVE  /\ IsFiniteSet(issued)
         /\ \A type, handle, t : IsFiniteSet(IssuedWithin(type, handle, t))
                                 /\ Cardinality(IssuedWithin(type, handle, t)) \in Nat
         /\ \A type, handle : IsFiniteSet(InFlight(type, handle))
                              /\ Cardinality(InFlight(type, handle)) \in Nat
                              /\ Cardinality(InFlight(type, handle)) <= Cardinality(Handlers)
         /\ Cardinality(Handlers) \in Nat /\ Limit \in Nat \ {0} /\ Span \in Nat
         /\ clock \in Nat
<1>1. IsFiniteSet(issued)
  <2> DEFINE f == [i \in issued |-> i.id]
  <2>1. f \in Injection(issued, ChallengeIds)
    BY DEF LoginInv, TablesInv, RowsIssued, Injection, IsInjective
  <2> QED
    BY <2>1, FS_Injection, RegistryAssumption
<1>2. \A type, handle, t : IsFiniteSet(IssuedWithin(type, handle, t))
                           /\ Cardinality(IssuedWithin(type, handle, t)) \in Nat
  BY <1>1, FS_Subset, FS_CardinalityType DEF IssuedWithin
<1>3. \A type, handle : IsFiniteSet(InFlight(type, handle))
                        /\ Cardinality(InFlight(type, handle)) \in Nat
                        /\ Cardinality(InFlight(type, handle)) <= Cardinality(Handlers)
  BY FS_Subset, FS_CardinalityType, RegistryAssumption DEF InFlight
<1>4. /\ Cardinality(Handlers) \in Nat /\ Limit \in Nat \ {0} /\ Span \in Nat
      /\ clock \in Nat
  BY FS_CardinalityType, RegistryAssumption DEF Span, LoginInv, TablesInv, RowsTyped
<1> QED
  BY <1>1, <1>2, <1>3, <1>4

\* Nothing is issued and nobody is let through.
LEMMA RatesKept ==
  ASSUME LoginInv, LoginInv', Rates, UNCHANGED issued, clock <= clock',
         \A type \in Types, handle \in Handles :
           InFlight(type, handle)' \subseteq InFlight(type, handle)
  PROVE  Rates'
<1> SUFFICES ASSUME NEW type \in Types, NEW handle \in Handles, NEW t \in Nat,
                    type = "register" \/ handle \notin Synthetic
             PROVE  Rate(type, handle, t)'
  BY DEF Rates
<1>1. Rate(type, handle, t)
  BY DEF Rates
<1>2. IssuedWithin(type, handle, t)' = IssuedWithin(type, handle, t)
  BY DEF IssuedWithin
<1>3. Cardinality(InFlight(type, handle)') <= Cardinality(InFlight(type, handle))
  BY RateFacts, FS_Subset
<1>4. Cardinality(InFlight(type, handle)') \in Nat
  BY RateFacts, FS_Subset, FS_CardinalityType
<1>5. clock' \in Nat /\ clock \in Nat /\ Span \in Nat
  BY RegistryAssumption, RateFacts DEF LoginInv, TablesInv, RowsTyped
<1> QED
  BY <1>1, <1>2, <1>3, <1>4, <1>5, RateFacts DEF Rate, Bound

\* What a step may do to the rows, if it issues nothing.
RowsOnlyLeave ==
  /\ \A c \in Rows' :
       /\ c \in Rows
       /\ challenge'[c].type = challenge[c].type /\ challenge'[c].handle = challenge[c].handle
       /\ challenge'[c].account = challenge[c].account
       /\ challenge'[c].created = challenge[c].created
       /\ challenge'[c].expires = challenge[c].expires
  /\ \A c \in Rows \ Rows' :
       \/ challenge[c].expires < clock
       \/ challenge[c].type # "register" /\ challenge[c].handle \in Synthetic

LEMMA CountedKept ==
  ASSUME LoginInv, RecentCounted, RegisterRows, RowsOnlyLeave, UNCHANGED issued, clock <= clock',
         clock' \in Nat
  PROVE  RecentCounted' /\ RegisterRows'
<1>1. RegisterRows'
  BY DEF RegisterRows, RowsOnlyLeave
<1>2. ASSUME NEW j \in issued, OutOfReach(j), clock' <= j.at + Span
      PROVE  /\ j.id \in Rows'
             /\ challenge'[j.id].type = j.type /\ challenge'[j.id].handle = j.handle
             /\ challenge'[j.id].created = j.at /\ challenge'[j.id].expires >= j.at + Span
  <2>1. j.at \in Nat /\ Span \in Nat /\ clock \in Nat
    BY RateFacts DEF LoginInv, TablesInv, RowsIssued
  <2>2. clock <= j.at + Span
    BY <1>2, <2>1
  <2>3. /\ j.id \in Rows
        /\ challenge[j.id].type = j.type /\ challenge[j.id].handle = j.handle
        /\ challenge[j.id].created = j.at /\ challenge[j.id].expires >= j.at + Span
    BY <1>2, <2>2 DEF RecentCounted
  <2>4. challenge[j.id].expires \in Nat
    BY <2>3 DEF LoginInv, TablesInv, RowsTyped, Rows, ChallengeRow
  <2>5. j.id \in Rows'
    BY <1>2, <2>1, <2>2, <2>3, <2>4 DEF RowsOnlyLeave, OutOfReach
  <2> QED
    BY <2>3, <2>5 DEF RowsOnlyLeave
<1>3. RecentCounted'
  BY <1>2 DEF RecentCounted, OutOfReach
<1> QED
  BY <1>1, <1>3

\* The usual step: one request stops waiting, or goes on waiting for the same.
LEMMA RateQuiet ==
  ASSUME LoginInv, LoginInv', RateInv, NEW h \in Handlers, RowsOnlyLeave,
         UNCHANGED issued, UNCHANGED clock,
         \A o \in Handlers \ {h} : req'[o] = req[o],
         req'[h].phase \in {"metadata", "insert"} =>
           /\ req[h].phase \in {"metadata", "insert"}
           /\ req'[h].type = req[h].type /\ req'[h].handle = req[h].handle,
         WaitingWell(h)'
  PROVE  RateInv'
<1>1. clock \in Nat /\ clock <= clock'
  BY RateFacts
<1>2. RecentCounted' /\ RegisterRows'
  BY <1>1, CountedKept DEF RateInv
<1>3. \A type, handle : InFlight(type, handle)' \subseteq InFlight(type, handle)
  BY DEF InFlight
<1>4. Rates'
  BY <1>1, <1>3, RatesKept DEF RateInv
<1>5. \A o \in Handlers : WaitingWell(o)'
  BY DEF RateInv, WaitingWell
<1> QED
  BY <1>2, <1>4, <1>5 DEF RateInv

LEMMA RateTick ==
  ASSUME LoginInv, LoginInv', RateInv, Tick
  PROVE  RateInv'
<1>1. clock \in Nat /\ clock' \in Nat /\ clock <= clock' /\ UNCHANGED <<challenge, req, issued>>
  BY RateFacts DEF Tick
<1>2. RowsOnlyLeave
  BY <1>1 DEF RowsOnlyLeave, Rows
<1>3. RecentCounted' /\ RegisterRows'
  BY <1>1, <1>2, CountedKept DEF RateInv
<1>4. Rates'
  BY <1>1, RatesKept DEF RateInv, InFlight
<1> QED
  BY <1>1, <1>3, <1>4 DEF RateInv, WaitingWell

\* A request is let through only if the window has room.
LEMMA RatePermit ==
  ASSUME LoginInv, LoginInv', RateInv, NEW h \in Handlers, Permit(h)
  PROVE  RateInv'
<1>1. /\ UNCHANGED <<clock, challenge, issued>>
      /\ UnderLimit(req[h].type, req[h].handle)
      /\ req[h].phase = "count"
  BY DEF Permit
<1>2. PICK r : r = req[h]
  OBVIOUS
<1>3. r \in [phase : {"count", "metadata"}, since : Nat, type : Types, handle : Handles]
  BY <1>1, <1>2 DEF LoginInv, RequestsInv, LoginRequest, Finishing
<1>4. /\ req'[h] = IF r.type = "login" THEN [r EXCEPT !.phase = "metadata"]
                   ELSE [phase |-> "insert", since |-> r.since, type |-> r.type,
                         handle |-> r.handle, now |-> clock, account |-> None]
      /\ \A o \in Handlers \ {h} : req'[o] = req[o]
  BY <1>2 DEF Permit, LoginInv, RequestsInv
<1>5. req'[h].type = r.type /\ req'[h].handle = r.handle /\ WaitingWell(h)'
  <2>1. r.since <= clock
    BY <1>1, <1>2 DEF LoginInv, RequestsInv, RequestInv, InTime
  <2>2. CASE r.type = "login"
    <3>1. req'[h] = [phase |-> "metadata", since |-> r.since, type |-> r.type, handle |-> r.handle]
      BY <1>3, <1>4, <2>2
    <3> QED
      BY <2>2, <3>1 DEF WaitingWell
  <2>3. CASE r.type # "login"
    BY <1>3, <1>4, <2>1, <2>3 DEF WaitingWell, Types
  <2> QED
    BY <2>2, <2>3
<1>6. RowsOnlyLeave
  BY <1>1 DEF RowsOnlyLeave, Rows
<1>7. RecentCounted' /\ RegisterRows'
  BY <1>1, <1>6, RateFacts, CountedKept DEF RateInv
<1>8. ASSUME NEW type \in Types, NEW handle \in Handles, NEW t \in Nat,
             type = "register" \/ handle \notin Synthetic
      PROVE  Rate(type, handle, t)'
  <2>1. Rate(type, handle, t)
    BY <1>8 DEF RateInv, Rates
  <2>2. IssuedWithin(type, handle, t)' = IssuedWithin(type, handle, t)
    BY <1>1 DEF IssuedWithin
  <2>3. CASE type = r.type /\ handle = r.handle /\ clock <= t + Span
    <3> DEFINE W == IssuedWithin(type, handle, t)
               f == [j \in W |-> j.id]
    <3>1. ASSUME NEW j \in W
          PROVE  j.id \in Recent(type, handle)
      <4>1. j \in issued /\ j.type = type /\ j.handle = handle /\ t <= j.at /\ j.at \in Nat
        BY DEF IssuedWithin, LoginInv, TablesInv, RowsIssued
      <4>2. OutOfReach(j) /\ clock <= j.at + Span
        BY <1>8, <2>3, <4>1, RateFacts DEF OutOfReach
      <4>3. /\ j.id \in Rows
            /\ challenge[j.id].type = type /\ challenge[j.id].handle = handle
            /\ challenge[j.id].created = j.at
        BY <4>1, <4>2 DEF RateInv, RecentCounted
      <4>4. Window \in Nat /\ MaxLag \in Nat /\ Span = Window - MaxLag /\ clock \in Nat
        BY RegistryAssumption, RateFacts DEF Span
      <4> QED
        BY <4>1, <4>2, <4>3, <4>4 DEF Recent
    <3>2. f \in Injection(W, Recent(type, handle))
      BY <3>1 DEF LoginInv, TablesInv, RowsIssued, Injection, IsInjective, IssuedWithin
    <3>3. IsFiniteSet(Recent(type, handle)) /\ Cardinality(Recent(type, handle)) \in Nat
      BY FS_Subset, FS_CardinalityType, RegistryAssumption DEF Recent, Rows
    <3>4. Cardinality(W) <= Cardinality(Recent(type, handle))
      BY <3>2, <3>3, FS_Injection
    <3>5. Cardinality(Recent(type, handle)) < Limit
      BY <1>1, <1>2, <2>3 DEF UnderLimit
    <3>6. Cardinality(InFlight(type, handle)') <= Cardinality(Handlers)
          /\ Cardinality(InFlight(type, handle)') \in Nat
      BY FS_Subset, FS_CardinalityType, RegistryAssumption DEF InFlight
    <3> HIDE DEF W, f
    <3>7. Cardinality(W) + Cardinality(InFlight(type, handle)') <= Bound
      <4>1. Cardinality(W) \in Nat
        BY RateFacts DEF W
      <4> QED
        BY <3>3, <3>4, <3>5, <3>6, <4>1, RateFacts DEF Bound
    <3> QED
      BY <1>1, <2>1, <2>2, <3>7 DEF Rate, Bound, W
  <2>4. CASE ~(type = r.type /\ handle = r.handle)
    <3>1. InFlight(type, handle)' = InFlight(type, handle)
      BY <1>1, <1>2, <1>4, <1>5, <2>4 DEF InFlight
    <3> QED
      BY <1>1, <2>1, <2>2, <3>1 DEF Rate, Bound
  <2>5. CASE ~(clock <= t + Span)
    BY <1>1, <2>1, <2>2, <2>5 DEF Rate, Bound
  <2> QED
    BY <2>3, <2>4, <2>5
<1>9. Rates'
  BY <1>8 DEF Rates
<1>10. \A o \in Handlers : WaitingWell(o)'
  BY <1>4, <1>5 DEF RateInv, WaitingWell
<1> QED
  BY <1>7, <1>9, <1>10 DEF RateInv

\* What was in flight is issued.
LEMMA RateIssue ==
  ASSUME LoginInv, LoginInv', RateInv, NEW h \in Handlers, NEW c \in ChallengeIds,
         InsertChallenge(h, c)
  PROVE  RateInv'
<1>1. PICK r : r = req[h]
  OBVIOUS
<1>2. r \in [phase : {"insert"}, since : Nat, type : Types, handle : Handles, now : Nat,
             account : Accounts \cup {None}]
  BY <1>1 DEF InsertChallenge, LoginInv, RequestsInv, LoginRequest, Finishing
<1>3. PICK row : row = [type |-> r.type, handle |-> r.handle, account |-> r.account,
                        created |-> clock, expires |-> r.now + Ttl[r.type], consumed |-> FALSE]
  OBVIOUS
<1>4. PICK i : i = [id |-> c, type |-> r.type, handle |-> r.handle, at |-> clock]
  OBVIOUS
<1>5. /\ challenge' = [challenge EXCEPT ![c] = row] /\ issued' = issued \cup {i}
      /\ req' = [req EXCEPT ![h] = Idle] /\ UNCHANGED clock
      /\ c \notin Issued
  BY <1>1, <1>3, <1>4, FreshIsUnused DEF InsertChallenge, Issued
<1>6. /\ clock \in Nat /\ Span \in Nat /\ Span = Window - MaxLag
      /\ Window \in Nat /\ MaxLag \in Nat /\ Ttl[r.type] \in Nat /\ Window <= Ttl[r.type]
  BY <1>2, RateFacts, RegistryAssumption DEF Span
<1>7. /\ r.since <= r.now /\ clock <= r.since + MaxLag
      /\ r.type = "register" => r.account = None
  BY <1>1, <1>2 DEF RateInv, WaitingWell, LoginInv, RequestsInv, RequestInv, InTime
<1>8. row.expires \in Nat /\ row.expires >= clock + Span
  BY <1>2, <1>3, <1>6, <1>7
<1>9. row \in ChallengeRow /\ row # None
  <2>1. row \in ChallengeRow
    BY <1>2, <1>3, <1>6, <1>8 DEF ChallengeRow
  <2> QED
    BY <2>1, RegistryAssumption
<1>10. /\ challenge'[c] = row
       /\ \A d \in ChallengeIds \ {c} : challenge'[d] = challenge[d]
  BY <1>5 DEF LoginInv, TablesInv, RowsTyped
<1>11. \A j \in issued : j.id # c /\ j.id \in ChallengeIds /\ j.at \in Nat
  BY <1>5 DEF Issued, LoginInv, TablesInv, RowsIssued
<1>12. RegisterRows'
  BY <1>3, <1>7, <1>10 DEF RateInv, RegisterRows, Rows
<1>13. RecentCounted'
  <2> SUFFICES ASSUME NEW j \in issued', OutOfReach(j), clock <= j.at + Span
               PROVE  /\ j.id \in Rows'
                      /\ challenge'[j.id].type = j.type /\ challenge'[j.id].handle = j.handle
                      /\ challenge'[j.id].created = j.at /\ challenge'[j.id].expires >= j.at + Span
    BY <1>5 DEF RecentCounted, OutOfReach
  <2>1. CASE j = i
    BY <1>3, <1>4, <1>8, <1>9, <1>10, <2>1 DEF Rows
  <2>2. CASE j \in issued
    <3>1. /\ j.id \in Rows /\ j.id \in ChallengeIds \ {c}
          /\ challenge[j.id].type = j.type /\ challenge[j.id].handle = j.handle
          /\ challenge[j.id].created = j.at /\ challenge[j.id].expires >= j.at + Span
      BY <1>11, <2>2 DEF RateInv, RecentCounted
    <3>2. challenge'[j.id] = challenge[j.id]
      BY <1>10, <3>1
    <3>3. j.id \in Rows'
      BY <3>1, <3>2 DEF Rows
    <3> QED
      BY <3>1, <3>2, <3>3
  <2> QED
    BY <1>5, <2>1, <2>2
<1>14. /\ req'[h].phase = "idle" /\ \A o \in Handlers \ {h} : req'[o] = req[o]
  BY <1>5 DEF LoginInv, RequestsInv, Idle
<1>15. ASSUME NEW type \in Types, NEW handle \in Handles, NEW t \in Nat,
              type = "register" \/ handle \notin Synthetic
       PROVE  Rate(type, handle, t)'
  <2> DEFINE W == IssuedWithin(type, handle, t)
             F == InFlight(type, handle)
  <2>1. Rate(type, handle, t)
    BY <1>15 DEF RateInv, Rates
  <2>2. /\ IsFiniteSet(W) /\ Cardinality(W) \in Nat
        /\ IsFiniteSet(F) /\ Cardinality(F) \in Nat
    BY RateFacts
  <2>3. F' = F \ {h}
    BY <1>14 DEF InFlight
  <2>4. CASE type = r.type /\ handle = r.handle /\ t <= clock /\ clock <= t + Span
    <3>1. W' = W \cup {i} /\ i \notin W
      BY <1>4, <1>5, <1>11, <2>4 DEF IssuedWithin
    <3>2. Cardinality(W') = Cardinality(W) + 1
      BY <2>2, <3>1, FS_AddElement
    <3>3. h \in F
      BY <1>1, <1>2, <2>4 DEF InFlight
    <3>4. Cardinality(F') = Cardinality(F) - 1
      BY <2>2, <2>3, <3>3, FS_RemoveElement
    <3>5. Cardinality(F') \in Nat
      BY <2>2, <2>3, FS_RemoveElement, FS_CardinalityType
    <3>6. Cardinality(W) + Cardinality(F) <= Bound
      BY <2>1, <2>4 DEF Rate
    <3> HIDE DEF W, F
    <3>7. Bound \in Int
      BY RateFacts DEF Bound
    <3>8. Cardinality(W') <= Bound /\ Cardinality(W') + Cardinality(F') <= Bound
      BY <2>2, <3>2, <3>4, <3>5, <3>6, <3>7
    <3> QED
      BY <3>8 DEF Rate, Bound, W, F
  <2>5. CASE ~(type = r.type /\ handle = r.handle /\ t <= clock /\ clock <= t + Span)
    <3>1. W' = W
      BY <1>4, <1>5, <2>5 DEF IssuedWithin
    <3>2. Cardinality(F') <= Cardinality(F) /\ Cardinality(F') \in Nat
      BY <2>2, <2>3, FS_Subset, FS_CardinalityType
    <3>3. Cardinality(W) <= Bound /\ (clock <= t + Span => Cardinality(W) + Cardinality(F) <= Bound)
      BY <2>1 DEF Rate
    <3> HIDE DEF W, F
    <3>4. Bound \in Int
      BY RateFacts DEF Bound
    <3>5. /\ Cardinality(W') <= Bound
          /\ clock <= t + Span => Cardinality(W') + Cardinality(F') <= Bound
      BY <2>2, <3>1, <3>2, <3>3, <3>4
    <3> QED
      BY <1>5, <3>5 DEF Rate, Bound, W, F
  <2> QED
    BY <2>4, <2>5
<1>16. Rates'
  BY <1>15 DEF Rates
<1>17. \A o \in Handlers : WaitingWell(o)'
  BY <1>14 DEF RateInv, WaitingWell
<1> QED
  BY <1>12, <1>13, <1>16, <1>17 DEF RateInv

\* Rows leave when they are overdue, or with a synthetic account.
LEMMA RowsStartLeave ==
  ASSUME LoginInv, NEW h \in Handlers, NEW type, NEW handle, Start(h, type, handle)
  PROVE  RowsOnlyLeave
<1>1. challenge' = [c \in ChallengeIds |-> IF c \in Overdue THEN None ELSE challenge[c]]
  BY DEF Start
<1> QED
  BY <1>1 DEF RowsOnlyLeave, Rows, Overdue

LEMMA RowsCleanUpLeave ==
  ASSUME LoginInv, RegisterRows, NEW h \in Handlers, CleanUp(h)
  PROVE  RowsOnlyLeave
<1>1. PICK S \in Candidates(req[h].cutoff) : Cascaded(S)
  BY DEF CleanUp, DeleteSynthetic
<1>2. \A a \in S : a \in Accounts /\ account[a].handle \in Synthetic
  BY <1>1 DEF Candidates, Matched
<1>3. challenge' = [c \in ChallengeIds |->
         IF c \in Rows /\ challenge[c].account \in S THEN None ELSE challenge[c]]
  BY <1>1 DEF Cascaded
<1>4. ASSUME NEW c \in Rows, challenge[c].account \in S
      PROVE  challenge[c].type # "register" /\ challenge[c].handle \in Synthetic
  <2>1. challenge[c].account # None
    BY <1>2, <1>4, RegistryAssumption
  <2>2. account[challenge[c].account].handle = challenge[c].handle
    BY <2>1 DEF LoginInv, TablesInv, TablesAgree, AccountOf
  <2> QED
    BY <1>2, <1>4, <2>1, <2>2 DEF RegisterRows
<1> QED
  BY <1>3, <1>4 DEF RowsOnlyLeave, Rows

LEMMA RowsConsumedLeave ==
  ASSUME LoginInv, NEW c \in ChallengeIds, c \in Rows, challenge' = Consumed(c)
  PROVE  RowsOnlyLeave
<1>1. challenge \in [ChallengeIds -> ChallengeRow \cup {None}] /\ challenge[c] \in ChallengeRow
  BY DEF LoginInv, TablesInv, RowsTyped, Rows
<1>2. /\ \A d \in ChallengeIds \ {c} : challenge'[d] = challenge[d]
      /\ challenge'[c] = [challenge[c] EXCEPT !.consumed = TRUE]
  BY <1>1 DEF Consumed
<1>3. /\ challenge'[c] \in ChallengeRow
      /\ challenge'[c].type = challenge[c].type /\ challenge'[c].handle = challenge[c].handle
      /\ challenge'[c].account = challenge[c].account
      /\ challenge'[c].created = challenge[c].created
      /\ challenge'[c].expires = challenge[c].expires
  BY <1>1, <1>2 DEF ChallengeRow
<1>4. c \in Rows'
  BY <1>3, RegistryAssumption DEF Rows
<1> QED
  BY <1>2, <1>3, <1>4 DEF RowsOnlyLeave, Rows

LEMMA RateStep ==
  ASSUME LoginInv, LoginInv', RateInv, [LoginNext]_loginVars
  PROVE  RateInv'
<1>1. ASSUME NEW h \in Handlers, req' = [req EXCEPT ![h] = req'[h]], RowsOnlyLeave,
             UNCHANGED <<clock, issued>>, req'[h].phase \notin {"metadata", "insert"}
      PROVE  RateInv'
  <2>1. \A o \in Handlers \ {h} : req'[o] = req[o]
    BY <1>1 DEF LoginInv, RequestsInv
  <2>2. WaitingWell(h)'
    BY <1>1 DEF WaitingWell
  <2> QED
    BY <1>1, <2>1, <2>2, RateQuiet
<1>2. UNCHANGED challenge => RowsOnlyLeave
  BY DEF RowsOnlyLeave, Rows
<1>3. \A h \in Handlers : req[h].phase \in Holding => req[h].challenge \in ChallengeIds \cap Rows
  BY DEF LoginInv, RequestsInv, RequestInv, HoldsOpen, Rows
<1>4. req \in [Handlers -> LoginRequest]
  BY DEF LoginInv, RequestsInv
<1>5. ASSUME NEW h \in Handlers, NEW type \in Types, NEW handle \in Handles, Start(h, type, handle)
      PROVE  RateInv'
  <2>1. req' = [req EXCEPT ![h] = req'[h]] /\ req'[h].phase = "count" /\ UNCHANGED <<clock, issued>>
    BY <1>4, <1>5 DEF Start
  <2> QED
    BY <1>1, <1>5, <2>1, RowsStartLeave
<1>6. ASSUME NEW h \in Handlers,
             \/ RateLimited(h) \/ Unavailable(h) \/ Stop(h) \/ InsertAccount(h) \/ InsertVault(h)
             \/ CountSynthetic(h) \/ LoginPasses(h)
             \/ \E c \in ChallengeIds, v \in VaultIds : FinishLock(h, c, v)
             \/ \E c, nonces, own, secret : LoginLock(h, c, nonces, own, secret)
      PROVE  RateInv'
  <2>1. UNCHANGED <<clock, challenge, issued>>
    BY <1>6 DEF RateLimited, Unavailable, Stop, InsertAccount, InsertVault, CountSynthetic,
      LoginPasses, FinishLock, LoginLock
  <2>2. req' = [req EXCEPT ![h] = req'[h]] /\ req'[h].phase \notin {"metadata", "insert"}
    <3>1. CASE RateLimited(h) \/ Unavailable(h) \/ Stop(h)
      BY <1>4, <3>1 DEF RateLimited, Unavailable, Stop, Idle
    <3>2. CASE CountSynthetic(h)
      BY <1>4, <3>2 DEF CountSynthetic
    <3>3. CASE \E c \in ChallengeIds, v \in VaultIds : FinishLock(h, c, v)
      BY <1>4, <3>3 DEF FinishLock
    <3>4. CASE \E c, nonces, own, secret : LoginLock(h, c, nonces, own, secret)
      BY <1>4, <3>4 DEF LoginLock
    <3>5. CASE InsertAccount(h) \/ InsertVault(h) \/ LoginPasses(h)
      <4>1. PICK phase \in {"vault", "commit", "session"} : req' = [req EXCEPT ![h].phase = phase]
        BY <3>5 DEF InsertAccount, InsertVault, LoginPasses
      <4>2. req' = [req EXCEPT ![h] = [req[h] EXCEPT !.phase = phase]]
        BY <4>1
      <4>3. req[h].phase \in Holding
        BY <3>5 DEF InsertAccount, InsertVault, LoginPasses, Holding, Finishing
      <4>4. req'[h] = [req[h] EXCEPT !.phase = phase] /\ req'[h].phase = phase
        BY <1>4, <4>2, <4>3 DEF LoginRequest, Holding, Finishing
      <4> QED
        BY <4>2, <4>4
    <3> QED
      BY <1>6, <3>1, <3>2, <3>3, <3>4, <3>5
  <2> QED
    BY <1>1, <1>2, <2>1, <2>2
<1>7. ASSUME NEW h \in Handlers, LoadMetadata(h)
      PROVE  RateInv'
  <2>1. req[h] \in [phase : {"count", "metadata"}, since : Nat, type : Types, handle : Handles]
        /\ req[h].phase = "metadata"
    BY <1>4, <1>7 DEF LoadMetadata, LoginRequest, Finishing
  <2>2. req[h].since <= clock /\ req[h].type = "login"
    BY <2>1 DEF LoginInv, RequestsInv, RequestInv, InTime, RateInv, WaitingWell
  <2>3. /\ req'[h].phase = "insert" /\ req'[h].type = req[h].type /\ req'[h].handle = req[h].handle
        /\ req'[h].since = req[h].since /\ req'[h].now = clock
        /\ \A o \in Handlers \ {h} : req'[o] = req[o]
        /\ UNCHANGED <<clock, challenge, issued>>
    BY <1>4, <1>7 DEF LoadMetadata
  <2>4. WaitingWell(h)'
    BY <2>2, <2>3 DEF WaitingWell
  <2> QED
    BY <1>2, <2>1, <2>3, <2>4, RateQuiet
<1>8. ASSUME NEW h \in Handlers, NEW a \in Accounts, NEW secret \in Secrets, Register(h, a, secret)
      PROVE  RateInv'
  <2>1. req' = [req EXCEPT ![h] = Idle] /\ UNCHANGED <<clock, issued>>
        /\ challenge' = Consumed(req[h].challenge) /\ req[h].phase \in Holding
    BY <1>8 DEF Register, FinishCommit, Holding, Finishing
  <2> QED
    BY <1>1, <1>3, <1>4, <2>1, RowsConsumedLeave DEF Idle
<1>9. ASSUME NEW h \in Handlers, LoginFails(h) \/ LoginCommit(h)
      PROVE  RateInv'
  <2>1. req' = [req EXCEPT ![h] = Idle] /\ UNCHANGED <<clock, issued>>
        /\ challenge' = Consumed(req[h].challenge) /\ req[h].phase \in Holding
    BY <1>9 DEF LoginFails, LoginCommit, Holding, Finishing
  <2> QED
    BY <1>1, <1>3, <1>4, <2>1, RowsConsumedLeave DEF Idle
<1>10. ASSUME NEW h \in Handlers, CleanUp(h)
       PROVE  RateInv'
  <2>1. req' = [req EXCEPT ![h] = Idle] /\ UNCHANGED <<clock, issued>>
    BY <1>10 DEF CleanUp, DeleteSynthetic
  <2> QED
    BY <1>1, <1>4, <1>10, <2>1, RowsCleanUpLeave DEF Idle, RateInv
<1>11. CASE UNCHANGED loginVars
  <2>1. UNCHANGED <<clock, challenge, issued, req>>
    BY <1>11 DEF loginVars, vars
  <2>2. RecentCounted' /\ RegisterRows'
    BY <1>2, <2>1, CountedKept, RateFacts DEF RateInv
  <2>3. Rates'
    BY <2>1, RatesKept, RateFacts DEF RateInv, InFlight
  <2> QED
    BY <2>1, <2>2, <2>3 DEF RateInv, WaitingWell
<1>12. ASSUME NEW h \in Handlers, RegistryStep(h)
       PROVE  RateInv'
  BY <1>5, <1>6, <1>7, <1>12, RatePermit DEF RegistryStep
<1> QED
  BY <1>6, <1>8, <1>9, <1>10, <1>11, <1>12, RateIssue, RateTick DEF LoginNext, Issue

LEMMA RateInit == LoginInit => RateInv
<1> SUFFICES ASSUME LoginInit PROVE RateInv
  OBVIOUS
<1>1. issued = {} /\ Rows = {} /\ clock = 0 /\ req = [h \in Handlers |-> Idle]
  BY DEF LoginInit, Init, Rows
<1>2. \A type, handle, t : IssuedWithin(type, handle, t) = {} /\ InFlight(type, handle) = {}
  BY <1>1 DEF IssuedWithin, InFlight, Idle
<1>3. Cardinality({}) = 0 /\ Bound \in Nat
  <2>1. Cardinality(Handlers) \in Nat /\ Limit \in Nat \ {0}
    BY FS_CardinalityType, RegistryAssumption
  <2> QED
    BY <2>1, FS_EmptySet DEF Bound
<1>4. Rates
  BY <1>2, <1>3 DEF Rates, Rate
<1> QED
  BY <1>1, <1>4 DEF RateInv, RecentCounted, RegisterRows, WaitingWell, Idle

LEMMA InvBounded == LoginInv /\ RateInv => OvershootBounded
<1> SUFFICES ASSUME LoginInv, RateInv, NEW i \in issued, OutOfReach(i)
             PROVE  Cardinality({ j \in issued : /\ j.type = i.type /\ j.handle = i.handle
                                                 /\ i.at <= j.at /\ j.at <= i.at + Span })
                      <= Limit - 1 + Cardinality(Handlers)
  BY DEF OvershootBounded
<1>1. i.type \in Types /\ i.handle \in Handles /\ i.at \in Nat
  BY DEF LoginInv, TablesInv, RowsIssued
<1>2. Cardinality(IssuedWithin(i.type, i.handle, i.at)) <= Bound
  BY <1>1 DEF RateInv, Rates, Rate, OutOfReach
<1> QED
  BY <1>2 DEF IssuedWithin, Bound

(* enforce_challenge_rate_limit counts before another request inserts, and
   cleanup_expired_challenges deletes what it counts: whatever the
   interleaving, the limit is exceeded by no more than the other requests
   under way, for every handle and type but the logins of synthetic handles. *)
THEOREM OvershootSafe == LoginSpec => []OvershootBounded
<1>1. LoginInv /\ LoginInv' /\ RateInv /\ [LoginNext]_loginVars => RateInv'
  BY RateStep
<1>2. LoginSpec => []RateInv
  BY <1>1, RateInit, LoginInvariant, PTL DEF LoginSpec
<1> QED
  BY <1>2, LoginInvariant, InvBounded, PTL

=============================================================================
